--------------------------- MODULE BufferedSocket ---------------------------
(***************************************************************************)
(* One broker <-> worker connection of the local queue.                    *)
(*                                                                         *)
(* The broker's end is a BufferedSocket: a non-blocking socket with a      *)
(* receive state machine (READING_LENGTH / READING_PAYLOAD) and a send     *)
(* buffer drained on EPOLLOUT.  The worker's end is a blocking socket      *)
(* driven by send_message and recv_message.  Between them the kernel keeps *)
(* one bounded byte pipe per direction and may cut a transfer anywhere.    *)
(*                                                                         *)
(* A byte is the pair <<k, j>>: byte j of the frame of message k, so that  *)
(* a receiver that loses its alignment is seen to read the wrong bytes.    *)
(* Message k, of the requests, is the k-th message of the worker to the    *)
(* broker (a forward, or a get_task the worker waits on) or the broker's   *)
(* reply to it.  The other end may be a PG reader instead: it has no reply *)
(* to wait for but, after its last request, for acks that the broker sends *)
(* while it serves other connections.  Its own comes last, behind those of *)
(* earlier lives of the reader.                                            *)
(***************************************************************************)
EXTENDS Integers, Sequences, FiniteSets

CONSTANTS
  Header,      \* bytes of the length prefix (4 in the code)
  Size,        \* Size[k]: payload bytes of message k and of its reply
  Roles,       \* the kinds of client, see Role
  PipeCap      \* bytes the kernel buffers in one direction

Messages == DOMAIN Size

\* The client sends the first messages of Size, of which some are get_task and
\* answered by one reply each; a PG reader sends none of these and gets the
\* other messages as acks.
Role == { ro \in [sends : Messages, getTask : SUBSET Messages] :
            /\ ro.getTask \subseteq 1 .. ro.sends
            /\ ro.getTask # {} => ro.sends = Len(Size) }

ASSUME FramingAssumption ==
  /\ Header \in Nat \ {0}
  /\ Size \in Seq(Nat \ {0})
  /\ Roles \subseteq Role
  /\ PipeCap \in Nat \ {0}

VARIABLES
  role,        \* what kind of client this connection is of
  wOut,        \* worker: bytes of the current sendall not yet in the kernel
  wNext,       \* worker: number of requests whose sending has started
  wWait,       \* worker: TRUE while it blocks in recv_message for a reply
  wBuf,        \* worker: bytes recv_exactly has collected for this frame
  wGot,        \* worker: payloads recv_message returned, in order
  wOpen,       \* worker: FALSE once it closed its socket
  up, down,    \* kernel pipes worker -> broker and broker -> worker
  event,       \* the event the broker's epoll loop is handling
  recvState,   \* BufferedSocket.recv_state
  recvBuf,     \* BufferedSocket.recv_buffer, the bytes received so far
  expected,    \* BufferedSocket.expected_length
  requests,    \* payloads recv_messages has yielded, in order
  sendBuf,     \* BufferedSocket.send_buffer
  sendOffset,  \* BufferedSocket.send_offset
  acked,       \* the number of acks the broker has sent on this connection
  armed,       \* TRUE while EPOLLOUT is registered for this socket
  bOpen        \* FALSE once _remove_worker closed the broker's end

worker == <<role, wOut, wNext, wWait, wBuf, wGot, wOpen>>
rx     == <<recvState, recvBuf, expected, requests>>
tx     == <<sendBuf, sendOffset, armed>>
vars   == <<worker, up, down, event, rx, tx, acked, bOpen>>

Requests == 1 .. role.sends
GetTask  == role.getTask
Acks     == Messages \ Requests

FrameLen(k) == Header + Size[k]
Frame(k)    == [j \in 1 .. FrameLen(k) |-> <<k, j>>]
Prefix(k)   == SubSeq(Frame(k), 1, Header)
Payload(k)  == SubSeq(Frame(k), Header + 1, FrameLen(k))

\* struct.unpack of a length prefix.  Bytes that are not one frame's prefix
\* decode to an arbitrary number; -1 stands for it.
Unpack(bytes) ==
  IF \E k \in Messages : bytes = Prefix(k)
  THEN Size[bytes[1][1]]
  ELSE -1

\* The kernel takes any non-empty piece of `bytes' that fits in the pipe.
Accepted(pipe, bytes) ==
  { n \in 1 .. Len(bytes) : Len(pipe) + n <= PipeCap }

Drop(s, n) == SubSeq(s, n + 1, Len(s))
Take(s, n) == SubSeq(s, 1, n)

-----------------------------------------------------------------------------
(* The worker: send_message, then (for get_task) recv_message.             *)

WorkerSend ==
  /\ wOpen /\ ~wWait /\ wOut = <<>>
  /\ wNext + 1 \in Requests
  /\ wNext' = wNext + 1
  /\ wOut' = Frame(wNext + 1)
  /\ UNCHANGED <<role, wWait, wBuf, wGot, wOpen, up, down, event, rx, tx, acked, bOpen>>

\* The worker waits for a reply to a get_task, the reader for its ack.
Awaits(k) == k \in GetTask \/ (k \in Requests /\ k + 1 \in Acks)

SendAll ==
  /\ wOpen /\ bOpen
  /\ \E n \in Accepted(up, wOut) :
       /\ up'   = up \o Take(wOut, n)
       /\ wOut' = Drop(wOut, n)
       /\ wWait' = (n = Len(wOut) /\ Awaits(wNext))
  /\ UNCHANGED <<role, wNext, wBuf, wGot, wOpen, down, event, rx, tx, acked, bOpen>>

\* recv_exactly asks for what is missing of the prefix, then of the payload.
RecvExactly ==
  LET goal == IF Len(wBuf) < Header THEN Header
              ELSE Header + Unpack(Take(wBuf, Header))
  IN
  /\ wOpen /\ wWait /\ down # <<>>
  /\ \E n \in 1 .. Len(down) :
       /\ n <= goal - Len(wBuf)
       /\ down' = Drop(down, n)
       /\ LET got == wBuf \o Take(down, n)
              full == /\ Len(got) > Header
                      /\ Len(got) = Header + Unpack(Take(got, Header))
          IN /\ wBuf'  = IF full THEN <<>> ELSE got
             /\ wGot'  = IF full THEN Append(wGot, Drop(got, Header)) ELSE wGot
             /\ wWait' = ~(full /\ Len(wGot) + 1 >= Cardinality(Acks))
  /\ UNCHANGED <<role, wOut, wNext, wOpen, up, event, rx, tx, acked, bOpen>>

\* A worker stops (signal, crash, broker gone) at any point, in mid-frame too.
WorkerClose ==
  /\ wOpen
  /\ wOpen' = FALSE
  /\ UNCHANGED <<role, wOut, wNext, wWait, wBuf, wGot, up, down, event, rx, tx,
                 acked, bOpen>>

-----------------------------------------------------------------------------
(* The broker's event loop for this socket.                                *)

\* epoll.poll: EPOLLIN is tested before EPOLLOUT.
Poll ==
  /\ bOpen /\ event = "none"
  /\ \/ /\ up # <<>> \/ ~wOpen
        /\ event' = "in"
     \/ /\ up = <<>> /\ wOpen /\ armed
        /\ Len(down) < PipeCap
        /\ event' = "out"
  /\ UNCHANGED <<worker, up, down, rx, tx, acked, bOpen>>

RemoveWorker ==
  /\ bOpen' = FALSE
  /\ event' = "none"

\* sock.recv raises BlockingIOError: the generator stops until the next event.
RecvWouldBlock ==
  /\ bOpen /\ event = "in"
  /\ up = <<>> /\ wOpen
  /\ event' = "none"
  /\ UNCHANGED <<worker, up, down, rx, tx, acked, bOpen>>

\* Fault: a close in mid-message is taken for `need more data'.
RecvClosedBetweenFrames ==
  /\ bOpen /\ event = "in"
  /\ up = <<>> /\ ~wOpen
  /\ IF recvState = "READING_LENGTH"
     THEN RemoveWorker
     ELSE event' = "none" /\ UNCHANGED bOpen
  /\ UNCHANGED <<worker, up, down, rx, tx, acked>>

\* sock.recv returns no bytes: ConnectionError, whatever the receive state.
RecvClosed ==
  /\ bOpen /\ event = "in"
  /\ up = <<>> /\ ~wOpen
  /\ RemoveWorker
  /\ UNCHANGED <<worker, up, down, rx, tx, acked>>

\* _recv_length
RecvLength ==
  /\ bOpen /\ event = "in" /\ recvState = "READING_LENGTH"
  /\ \E n \in 1 .. Len(up) :
       LET got == recvBuf \o Take(up, n) IN
       /\ n <= Header - Len(recvBuf)
       /\ up' = Drop(up, n)
       /\ IF Len(got) < Header
          THEN /\ recvBuf' = got
               /\ event' = "none"
               /\ UNCHANGED <<recvState, expected, bOpen>>
          ELSE IF Unpack(got) < 0
          THEN /\ RemoveWorker
               /\ UNCHANGED <<recvBuf, recvState, expected>>
          ELSE /\ expected'  = Unpack(got)
               /\ recvBuf'   = <<>>
               /\ recvState' = "READING_PAYLOAD"
               /\ UNCHANGED <<event, bOpen>>
  /\ UNCHANGED <<worker, down, requests, tx, acked>>

\* Fault: the message takes the place of what the buffer holds.
QueueMessageReplaces(k) ==
  /\ sendBuf' = Frame(k)
  /\ armed' = TRUE
  /\ UNCHANGED sendOffset

\* queue_message, then _send_to_worker's epoll.modify.
QueueMessage(k) ==
  /\ sendBuf' = sendBuf \o Frame(k)
  /\ armed' = TRUE
  /\ UNCHANGED sendOffset

\* _recv_payload; the message just completed is dispatched, and the reply to
\* it queued, before the generator reads on.
RecvPayload ==
  /\ bOpen /\ event = "in" /\ recvState = "READING_PAYLOAD"
  /\ \E n \in 1 .. Len(up) :
       LET got == recvBuf \o Take(up, n) IN
       /\ n <= expected - Len(recvBuf)
       /\ up' = Drop(up, n)
       /\ IF Len(got) < expected
          THEN /\ recvBuf' = got
               /\ event' = "none"
               /\ UNCHANGED <<recvState, expected, requests, tx>>
          ELSE /\ requests'  = Append(requests, got)
               /\ recvBuf'   = <<>>
               /\ recvState' = "READING_LENGTH"
               /\ expected'  = 0
               /\ IF Len(requests) + 1 \in GetTask
                  THEN QueueMessage(Len(requests) + 1)
                  ELSE UNCHANGED tx
               /\ UNCHANGED event
  /\ UNCHANGED <<worker, down, acked, bOpen>>

\* _handle_ack, while the loop serves another connection: an ack is sent to
\* the reader that registered, its own when its last request is in.
SendAck ==
  LET k == Cardinality(Requests) + acked + 1 IN
  /\ bOpen /\ event = "none"
  /\ requests # <<>>
  /\ k \in Acks
  /\ k = Len(Size) => Len(requests) = Cardinality(Requests)
  /\ acked' = acked + 1
  /\ QueueMessage(k)
  /\ UNCHANGED <<worker, up, down, event, rx, bOpen>>

\* Fault: a resumed flush starts the buffer over.
UnsentFromStart == sendBuf

\* self.send_buffer[self.send_offset:]
Unsent == Drop(sendBuf, sendOffset)

\* Fault: EPOLLOUT is dropped after a short send.
FlushSendOnce ==
  /\ bOpen /\ event = "out" /\ wOpen
  /\ event' = "none" /\ armed' = FALSE
  /\ \E n \in Accepted(down, Unsent) :
       /\ down' = down \o Take(Unsent, n)
       /\ IF sendOffset + n >= Len(sendBuf)
          THEN sendBuf' = <<>> /\ sendOffset' = 0
          ELSE sendOffset' = sendOffset + n /\ UNCHANGED sendBuf
  /\ UNCHANGED <<worker, up, rx, acked, bOpen>>

\* flush_send from _handle_worker_write: one send; EPOLLOUT is dropped only
\* when the whole buffer went out.
FlushSend ==
  /\ bOpen /\ event = "out" /\ wOpen
  /\ event' = "none"
  /\ \E n \in Accepted(down, Unsent) :
       /\ down' = down \o Take(Unsent, n)
       /\ IF sendOffset + n >= Len(sendBuf)
          THEN sendBuf' = <<>> /\ sendOffset' = 0 /\ armed' = FALSE
          ELSE sendOffset' = sendOffset + n /\ UNCHANGED <<sendBuf, armed>>
  /\ UNCHANGED <<worker, up, rx, acked, bOpen>>

\* The worker closed after the poll: send raises, _handle_worker_write removes
\* the connection with whatever the worker had still sent.
FlushSendFails ==
  /\ bOpen /\ event = "out" /\ ~wOpen
  /\ RemoveWorker
  /\ UNCHANGED <<worker, up, down, rx, tx, acked>>

-----------------------------------------------------------------------------
Init ==
  /\ role \in Roles
  /\ wOut = <<>> /\ wNext = 0 /\ wWait = FALSE
  /\ wBuf = <<>> /\ wGot = <<>> /\ wOpen = TRUE
  /\ up = <<>> /\ down = <<>> /\ event = "none"
  /\ recvState = "READING_LENGTH" /\ recvBuf = <<>>
  /\ expected = 0 /\ requests = <<>>
  /\ sendBuf = <<>> /\ sendOffset = 0 /\ armed = FALSE /\ acked = 0
  /\ bOpen = TRUE

Broker ==
  \/ Poll \/ RecvWouldBlock \/ RecvClosed \/ RecvLength \/ RecvPayload
  \/ FlushSend \/ FlushSendFails
Worker == WorkerSend \/ SendAll \/ RecvExactly
Next   == Broker \/ SendAck \/ Worker \/ WorkerClose

\* Both processes keep running; a worker is never obliged to stop, and the
\* broker sends acks when other connections give it cause to.
Spec == Init /\ [][Next]_vars /\ WF_vars(Broker) /\ WF_vars(Worker)

-----------------------------------------------------------------------------
Byte == { <<k, j>> : k \in Messages, j \in 1 .. 100 }

TypeOK ==
  /\ role \in Roles
  /\ wNext \in {0} \cup Requests /\ acked \in 0 .. Cardinality(Acks)
  /\ wWait \in BOOLEAN /\ wOpen \in BOOLEAN /\ bOpen \in BOOLEAN
  /\ armed \in BOOLEAN
  /\ \A s \in {wOut, wBuf, up, down, recvBuf, sendBuf} : \A i \in DOMAIN s : s[i] \in Byte
  /\ Len(up) <= PipeCap /\ Len(down) <= PipeCap
  /\ event \in {"none", "in", "out"}
  /\ recvState \in {"READING_LENGTH", "READING_PAYLOAD"}
  /\ expected \in Nat /\ sendOffset \in 0 .. Len(sendBuf)

\* What the broker sends on this connection, and the i-th of them.
Answers  == GetTask \cup Acks
Reply(i) == CHOOSE k \in Answers : Cardinality({j \in Answers : j <= k}) = i

\* What either end takes for a message is exactly the next message the other
\* end sent, however the kernel cut the byte stream and however the partial
\* reads and writes interleaved (BufferedSocket.recv_messages/flush_send,
\* protocol.recv_message).
FramesIntact ==
  /\ \A i \in DOMAIN requests : requests[i] = Payload(i)
  /\ \A i \in DOMAIN wGot : wGot[i] = Payload(Reply(i))

\* While replies are buffered in the broker, EPOLLOUT is registered, so the
\* event loop comes back to flush them (_send_to_worker, _handle_worker_write).
PendingReplyArmed == bOpen /\ sendBuf # <<>> => armed

\* No live connection loses a reply: every request a worker sent is answered,
\* and every ack the broker sent is read by a reader that stays, however many
\* share the buffer: its wait ends (_handle_ack, PGReaderWorker.run).
RepliesArrive ==
  \A i \in Messages :
    (\/ i <= Cardinality(GetTask) /\ wNext >= Reply(i)
     \/ acked >= i)
    ~> (Len(wGot) >= i \/ ~wOpen)

\* The broker drops the connection of a worker that went away, in whatever
\* receive state the last bytes left it.
ClosedWorkerRemoved == ~wOpen ~> ~bOpen
=============================================================================
