------------------------ MODULE BufferedSocketProofs ------------------------
(***************************************************************************)
(* Proofs about a connection, for every prefix length, all message lengths *)
(* and every pipe capacity.                                                *)
(*                                                                         *)
(* FramesIntact rests on the bytes of either direction that are still to   *)
(* be read, from the receiver's buffer over the pipe to what the sender    *)
(* has left: they are a Stream, the rest of one frame and then whole       *)
(* frames in the order of sending.  A kernel that cuts the bytes anywhere  *)
(* moves them along the stream, a frame queued extends it, and a receiver  *)
(* that has a prefix or a payload cuts it off.                             *)
(***************************************************************************)
EXTENDS BufferedSocket, SequenceTheorems, FiniteSetTheorems, TLAPS

\* The event loop always comes back to a socket that still has bytes to send
\* (_send_to_worker registers EPOLLOUT, _handle_worker_write drops it only
\* when flush_send emptied the buffer).
THEOREM ArmedWhilePending == Spec => []PendingReplyArmed
<1>1. Init => PendingReplyArmed
  BY DEF Init, PendingReplyArmed
<1>2. PendingReplyArmed /\ [Next]_vars => PendingReplyArmed'
  <2> SUFFICES ASSUME PendingReplyArmed, [Next]_vars PROVE PendingReplyArmed'
    OBVIOUS
  <2> USE DEF PendingReplyArmed
  <2>1. CASE WorkerSend    BY <2>1 DEF WorkerSend, tx
  <2>2. CASE SendAll       BY <2>2 DEF SendAll, tx
  <2>3. CASE RecvExactly   BY <2>3 DEF RecvExactly, tx
  <2>4. CASE WorkerClose   BY <2>4 DEF WorkerClose, tx
  <2>5. CASE Poll          BY <2>5 DEF Poll, tx
  <2>6. CASE RecvWouldBlock BY <2>6 DEF RecvWouldBlock, tx
  <2>7. CASE RecvClosed    BY <2>7 DEF RecvClosed, RemoveWorker, tx
  <2>8. CASE RecvLength    BY <2>8 DEF RecvLength, RemoveWorker, tx
  <2>9. CASE RecvPayload   BY <2>9 DEF RecvPayload, QueueMessage, tx
  <2>10. CASE FlushSend    BY <2>10 DEF FlushSend
  <2>11. CASE FlushSendFails BY <2>11 DEF FlushSendFails, RemoveWorker, tx
  <2>12. CASE SendAck      BY <2>12 DEF SendAck, QueueMessage
  <2>13. CASE UNCHANGED vars BY <2>13 DEF vars, tx
  <2> QED BY <2>1, <2>2, <2>3, <2>4, <2>5, <2>6, <2>7, <2>8, <2>9, <2>10, <2>11, <2>12,
             <2>13
             DEF Next, Broker, Worker
<1> QED BY <1>1, <1>2, PTL DEF Spec


-----------------------------------------------------------------------------
(* Concatenation under a name of its own, which the provers do not expand. *)
Joined(a, b) == a \o b

LEMMA Associative ==
  ASSUME NEW S
  PROVE  \A x, y, z \in Seq(S) : Joined(Joined(x, y), z) = Joined(x, Joined(y, z))
BY ConcatAssociative DEF Joined

(* Three adjacent pieces of a sequence of bytes.                           *)
Three(a, b, c) == (a \o b) \o c

LEMMA Cut ==
  ASSUME NEW S, NEW s \in Seq(S), NEW n \in 0..Len(s)
  PROVE  /\ Take(s, n) \in Seq(S) /\ Len(Take(s, n)) = n
         /\ \A i \in 1..n : Take(s, n)[i] = s[i]
         /\ Drop(s, n) \in Seq(S) /\ Len(Drop(s, n)) = Len(s) - n
         /\ \A i \in 1..(Len(s) - n) : Drop(s, n)[i] = s[n + i]
         /\ Take(s, n) \o Drop(s, n) = s
<1>1. Len(s) \in Nat /\ \A i \in 1..Len(s) : s[i] \in S
  BY LenProperties
<1>2. /\ Take(s, n) \in Seq(S) /\ Len(Take(s, n)) = n
      /\ \A i \in 1..n : Take(s, n)[i] = s[i]
  BY <1>1, SubSeqProperties DEF Take
<1>3. /\ Drop(s, n) \in Seq(S) /\ Len(Drop(s, n)) = Len(s) - n
      /\ \A i \in 1..(Len(s) - n) : Drop(s, n)[i] = s[n + i]
  BY <1>1, SubSeqProperties DEF Drop
<1>4. Take(s, n) \o Drop(s, n) = s
  <2>1. SubSeq(s, 1, n) \o SubSeq(s, n + 1, Len(s)) = SubSeq(s, 1, Len(s))
    <3>1. 1 \in 1..(Len(s) + 1) /\ n \in (1 - 1)..Len(s) /\ Len(s) \in n..Len(s)
      BY <1>1
    <3> QED BY <3>1, ConcatAdjacentSubSeq
  <2>2. SubSeq(s, 1, Len(s)) = s
    BY SubSeqFull
  <2> QED BY <2>1, <2>2 DEF Take, Drop
<1> QED BY <1>2, <1>3, <1>4

(* Where their bytes are in the whole.                                     *)
Laid(s, a, b, c) ==
  /\ Len(s) = Len(a) + Len(b) + Len(c)
  /\ \A i \in 1..Len(a) : s[i] = a[i]
  /\ \A i \in 1..Len(b) : s[Len(a) + i] = b[i]
  /\ \A i \in 1..Len(c) : s[Len(a) + Len(b) + i] = c[i]

LEMMA ThreeProperties ==
  ASSUME NEW S, NEW a \in Seq(S), NEW b \in Seq(S), NEW c \in Seq(S)
  PROVE  Three(a, b, c) \in Seq(S) /\ Laid(Three(a, b, c), a, b, c)
<1>1. Len(a) \in Nat /\ Len(b) \in Nat /\ Len(c) \in Nat
  BY LenProperties
<1> DEFINE ab == a \o b
<1>2. ab \in Seq(S)
  OBVIOUS
<1>3. Len(ab) = Len(a) + Len(b)
  OBVIOUS
<1>4. \A i \in 1..(Len(a) + Len(b)) : ab[i] = IF i <= Len(a) THEN a[i] ELSE b[i - Len(a)]
  BY ConcatProperties
<1> HIDE DEF ab
<1>5. /\ ab \o c \in Seq(S) /\ Len(ab \o c) = Len(ab) + Len(c)
      /\ \A i \in 1..(Len(ab) + Len(c)) :
           (ab \o c)[i] = IF i <= Len(ab) THEN ab[i] ELSE c[i - Len(ab)]
  BY <1>2, ConcatProperties
<1>6. Three(a, b, c) = ab \o c
  BY DEF Three, ab
<1> QED BY <1>1, <1>3, <1>4, <1>5, <1>6 DEF Laid

(* Bytes that go from one piece to the piece before it.                    *)
LEMMA MoveLeft ==
  ASSUME NEW S, NEW a \in Seq(S), NEW b \in Seq(S), NEW c \in Seq(S), NEW n \in 0..Len(b)
  PROVE  Three(a \o Take(b, n), Drop(b, n), c) = Three(a, b, c)
<1> DEFINE t == Take(b, n)
           d == Drop(b, n)
<1>1. t \in Seq(S)
  BY Cut
<1>2. d \in Seq(S)
  BY Cut
<1>3. t \o d = b
  BY Cut
<1> HIDE DEF t, d
<1>4. (a \o t) \o d = a \o (t \o d)
  <2>1. Joined(Joined(a, t), d) = Joined(a, Joined(t, d))
    BY <1>1, <1>2, Associative
  <2> QED BY <2>1 DEF Joined
<1>5. Three(a \o t, d, c) = Three(a, b, c)
  BY <1>3, <1>4 DEF Three
<1> QED BY <1>5 DEF t, d

LEMMA MoveRight ==
  ASSUME NEW S, NEW a \in Seq(S), NEW b \in Seq(S), NEW c \in Seq(S), NEW n \in 0..Len(c)
  PROVE  Three(a, b \o Take(c, n), Drop(c, n)) = Three(a, b, c)
<1> DEFINE t == Take(c, n)
           d == Drop(c, n)
           ab == a \o b
<1>1. t \in Seq(S)
  BY Cut
<1>2. d \in Seq(S)
  BY Cut
<1>3. t \o d = c
  BY Cut
<1>4. ab \in Seq(S)
  OBVIOUS
<1> HIDE DEF t, d
<1>5. a \o (b \o t) = ab \o t
  <2>1. Joined(Joined(a, b), t) = Joined(a, Joined(b, t))
    BY <1>1, Associative
  <2> QED BY <2>1 DEF Joined
<1> HIDE DEF ab
<1>6. (ab \o t) \o d = ab \o (t \o d)
  <2>1. Joined(Joined(ab, t), d) = Joined(ab, Joined(t, d))
    BY <1>1, <1>2, <1>4, Associative
  <2> QED BY <2>1 DEF Joined
<1>7. Three(a, b \o t, d) = Three(a, b, c)
  BY <1>3, <1>5, <1>6 DEF Three, ab
<1> QED BY <1>7 DEF t, d

(* What is left when the first piece and n bytes of the second are taken.  *)
TakenOff(got, rest, s) ==
  /\ Len(got) \in 0..Len(s)
  /\ \A i \in 1..Len(got) : got[i] = s[i]
  /\ rest = Drop(s, Len(got))

LEMMA TakeOff ==
  ASSUME NEW S, NEW a \in Seq(S), NEW b \in Seq(S), NEW c \in Seq(S), NEW n \in 0..Len(b)
  PROVE  /\ a \o Take(b, n) \in Seq(S) /\ Len(a \o Take(b, n)) = Len(a) + n
         /\ TakenOff(a \o Take(b, n), Three(<<>>, Drop(b, n), c), Three(a, b, c))
<1> DEFINE t == Take(b, n)
           d == Drop(b, n)
           got == a \o t
           s == Three(a, b, c)
           l == Three(<<>>, d, c)
           r == Drop(s, Len(got))
<1>1. t \in Seq(S)
  BY Cut
<1>2. d \in Seq(S)
  BY Cut
<1>3. Len(t) = n /\ Len(d) = Len(b) - n
  BY Cut
<1>4. s = Three(got, d, c)
  BY MoveLeft
<1>5. Len(a) \in Nat /\ Len(b) \in Nat /\ Len(c) \in Nat
  BY LenProperties
<1> HIDE DEF t, d
<1>6. got \in Seq(S)
  BY <1>1
<1>7. Len(got) = Len(a) + Len(t)
  BY <1>1
<1> HIDE DEF got, s
<1>8. Three(got, d, c) \in Seq(S) /\ Laid(s, got, d, c)
  BY <1>2, <1>4, <1>6, ThreeProperties
<1>9. s \in Seq(S)
  BY <1>4, <1>8
<1>10. Len(s) = Len(got) + Len(d) + Len(c) /\ Len(got) \in 0..Len(s)
  BY <1>3, <1>5, <1>7, <1>8 DEF Laid
<1>11. Three(<<>>, d, c) = Drop(s, Len(got))
  <2> DEFINE e == <<>>
  <2>1. e \in Seq(S)
    OBVIOUS
  <2>2. Len(e) = 0
    OBVIOUS
  <2> HIDE DEF e
  <2>3. Three(e, d, c) \in Seq(S) /\ Laid(Three(e, d, c), e, d, c)
    BY <1>2, <2>1, ThreeProperties
  <2>4. l = Three(e, d, c)
    BY DEF l, e
  <2>5. /\ r \in Seq(S) /\ Len(r) = Len(s) - Len(got)
        /\ \A i \in 1..(Len(s) - Len(got)) : r[i] = s[Len(got) + i]
    BY <1>9, <1>10, Cut
  <2> HIDE DEF l, r
  <2>6. l \in Seq(S)
    BY <2>3, <2>4
  <2>7. r \in Seq(S)
    BY <2>5
  <2>8. Len(l) = Len(r) /\ Len(l) = Len(d) + Len(c)
    <3>1. Len(l) = Len(e) + Len(d) + Len(c)
      BY <2>3, <2>4 DEF Laid
    <3>2. Len(r) = Len(s) - Len(got)
      BY <2>5
    <3> QED BY <1>3, <1>5, <1>7, <1>10, <2>2, <3>1, <3>2
  <2>9. ASSUME NEW i \in 1..Len(l) PROVE l[i] = r[i]
    <3>0. i \in 1..(Len(s) - Len(got)) /\ r[i] = s[Len(got) + i]
      BY <1>3, <1>5, <1>7, <1>10, <2>5, <2>8
    <3>1. CASE i <= Len(d)
      <4>1. i \in 1..Len(d)
        BY <1>3, <1>5, <3>1
      <4>2. Three(e, d, c)[Len(e) + i] = d[i] /\ s[Len(got) + i] = d[i]
        BY <1>8, <2>3, <4>1 DEF Laid
      <4>3. Len(e) + i = i
        BY <2>2
      <4> QED BY <2>4, <3>0, <4>2, <4>3
    <3>2. CASE i > Len(d)
      <4> DEFINE j == i - Len(d)
      <4>1. /\ j \in 1..Len(c)
            /\ Len(e) + Len(d) + j = i /\ Len(got) + Len(d) + j = Len(got) + i
        BY <1>3, <1>5, <1>7, <2>2, <2>8, <3>2
      <4> HIDE DEF j
      <4>2. /\ Three(e, d, c)[Len(e) + Len(d) + j] = c[j]
            /\ s[Len(got) + Len(d) + j] = c[j]
        BY <1>8, <2>3, <4>1 DEF Laid
      <4> QED BY <2>4, <3>0, <4>1, <4>2
    <3> QED BY <1>3, <1>5, <3>1, <3>2
  <2>10. l = r
    BY <2>6, <2>7, <2>8, <2>9, SeqEqual
  <2> QED BY <2>10 DEF l, r
<1>12. \A i \in 1..Len(got) : got[i] = s[i]
  BY <1>8 DEF Laid
<1> QED BY <1>3, <1>6, <1>7, <1>10, <1>11, <1>12 DEF got, t, d, s, TakenOff


-----------------------------------------------------------------------------
(* Streams.                                                                *)

(* r[k] tells which message of its direction k is, A are the messages of   *)
(* the direction; s holds the rest of frame p + 1, from its byte j on, and *)
(* the frames behind it up to the q-th.  Runs speaks of any two bytes and  *)
(* not of neighbours, so that it needs no induction over a frame.          *)
Bytes == {<<k, j>> : k \in Messages, j \in Nat}

InFrames(s) == \A i \in 1..Len(s) : s[i][2] \in 1..FrameLen(s[i][1])

Runs(s) ==
  \A h, i \in 1..Len(s) :
    h <= i /\ s[h][2] + (i - h) <= FrameLen(s[h][1]) =>
      s[i] = <<s[h][1], s[h][2] + (i - h)>>

Follows(s, r) ==
  \A i \in 1..(Len(s) - 1) :
    s[i][2] = FrameLen(s[i][1]) => s[i + 1][2] = 1 /\ r[s[i + 1][1]] = r[s[i][1]] + 1

Stream(s, r, A, p, j, q) ==
  /\ s \in Seq(Bytes) /\ InFrames(s) /\ Runs(s) /\ Follows(s, r)
  /\ \A i \in 1..Len(s) : s[i][1] \in A
  /\ s = <<>> => p = q /\ j = 1
  /\ s # <<>> => /\ s[1][2] = j /\ r[s[1][1]] = p + 1
                 /\ s[Len(s)][2] = FrameLen(s[Len(s)][1]) /\ r[s[Len(s)][1]] = q

LEMMA FrameLenType ==
  ASSUME NEW k \in Messages
  PROVE  /\ FrameLen(k) \in Nat /\ Header \in Nat /\ Header >= 1 /\ FrameLen(k) > Header
         /\ Size[k] \in Nat /\ Size[k] >= 1 /\ FrameLen(k) = Header + Size[k]
  BY FramingAssumption DEF FrameLen, Messages

LEMMA FrameProperties ==
  ASSUME NEW k \in Messages
  PROVE  /\ Frame(k) \in Seq(Bytes) /\ Len(Frame(k)) = FrameLen(k)
         /\ \A i \in 1..FrameLen(k) : Frame(k)[i] = <<k, i>>
<1>1. FrameLen(k) \in Nat
  BY FrameLenType
<1>2. \A i \in 1..FrameLen(k) : <<k, i>> \in Bytes
  BY <1>1 DEF Bytes
<1>3. Frame(k) \in [1..FrameLen(k) -> Bytes]
  BY <1>2 DEF Frame
<1>4. Frame(k) \in Seq(Bytes)
  BY <1>1, <1>3
<1> QED BY <1>1, <1>3, <1>4 DEF Frame

(* What a receiver that has byte j up to byte m of frame p + 1 reads.      *)
Reads(s, r, k, p, j) ==
  /\ r[k] = p + 1 /\ j \in 1..FrameLen(k) /\ s[1] = <<k, j>>
  /\ Len(s) >= FrameLen(k) - j + 1
  /\ \A i \in 1..(FrameLen(k) - j + 1) : s[i] = <<k, j + i - 1>>

LEMMA StreamRead ==
  ASSUME NEW s, NEW r, NEW A \in SUBSET Messages, NEW p \in Nat, NEW j \in Nat, NEW q,
         Stream(s, r, A, p, j, q), s # <<>>
  PROVE  \E k \in A : Reads(s, r, k, p, j)
<1>0. s \in Seq(Bytes)
  BY DEF Stream
<1>1. Len(s) \in Nat /\ Len(s) >= 1
  BY <1>0
<1> DEFINE k == s[1][1]
           m == s[Len(s)][1]
<1>2. k \in A /\ s[1] \in Bytes /\ s[1][2] = j /\ r[k] = p + 1
  BY <1>0, <1>1 DEF Stream
<1>3. m \in A /\ s[Len(s)] \in Bytes /\ s[Len(s)][2] = FrameLen(m)
  BY <1>0, <1>1 DEF Stream
<1>4. FrameLen(k) \in Nat /\ FrameLen(m) \in Nat
  BY <1>2, <1>3, FrameLenType
<1>5. j \in 1..FrameLen(k)
  BY <1>1, <1>2 DEF Stream, InFrames
<1>6. s[1] = <<k, j>>
  BY <1>2 DEF Bytes
<1>7. \A i \in 1..Len(s) : j + (i - 1) <= FrameLen(k) => s[i] = <<k, j + (i - 1)>>
  BY <1>1, <1>2 DEF Stream, Runs
<1> HIDE DEF k, m
<1>8. Len(s) >= FrameLen(k) - j + 1
  <2> SUFFICES ASSUME Len(s) < FrameLen(k) - j + 1 PROVE FALSE
    BY <1>1, <1>4, <1>5
  <2>1. s[Len(s)] = <<k, j + (Len(s) - 1)>>
    BY <1>1, <1>4, <1>5, <1>7
  <2>2. m = k /\ FrameLen(m) = j + (Len(s) - 1)
    BY <1>3, <2>1 DEF m
  <2> QED BY <1>1, <1>4, <1>5, <2>2
<1>9. \A i \in 1..(FrameLen(k) - j + 1) : s[i] = <<k, j + i - 1>>
  BY <1>1, <1>4, <1>5, <1>7, <1>8
<1> QED BY <1>2, <1>5, <1>6, <1>8, <1>9 DEF Reads


LEMMA NoStream ==
  ASSUME NEW r, NEW A
  PROVE  Stream(<<>>, r, A, 0, 1, 0)
<1>1. <<>> \in Seq(Bytes)
  OBVIOUS
<1>2. Len(<<>>) = 0
  OBVIOUS
<1> DEFINE e == <<>>
<1>3. e = <<>> /\ Len(e) = 0 /\ e \in Seq(Bytes)
  BY <1>1, <1>2
<1> HIDE DEF e
<1>4. Stream(e, r, A, 0, 1, 0)
  BY <1>3 DEF Stream, InFrames, Runs, Follows
<1> QED BY <1>3, <1>4

(* The receiver takes n bytes of frame k.                                  *)
LEMMA StreamDrop ==
  ASSUME NEW s, NEW r, NEW A \in SUBSET Messages, NEW p \in Nat, NEW j \in Nat, NEW q,
         Stream(s, r, A, p, j, q), s # <<>>,
         NEW k \in A, s[1] = <<k, j>>, NEW n \in Nat
  PROVE  /\ j + n <= FrameLen(k) => Stream(Drop(s, n), r, A, p, j + n, q)
         /\ j + n = FrameLen(k) + 1 => Stream(Drop(s, n), r, A, p + 1, 1, q)
<1> DEFINE d == Drop(s, n)
<1>0. s \in Seq(Bytes)
  BY DEF Stream
<1>1. Len(s) \in Nat /\ Len(s) >= 1
  BY <1>0
<1>2. /\ r[k] = p + 1 /\ j \in 1..FrameLen(k) /\ FrameLen(k) \in Nat
      /\ Len(s) >= FrameLen(k) - j + 1
      /\ \A i \in 1..(FrameLen(k) - j + 1) : s[i] = <<k, j + i - 1>>
  <2>1. PICK l \in A : Reads(s, r, l, p, j)
    BY StreamRead
  <2>2. l = k
    BY <2>1 DEF Reads
  <2> QED BY <2>1, <2>2, FrameLenType DEF Reads
<1> SUFFICES ASSUME j + n <= FrameLen(k) + 1
             PROVE  /\ j + n <= FrameLen(k) => Stream(Drop(s, n), r, A, p, j + n, q)
                    /\ j + n = FrameLen(k) + 1 => Stream(Drop(s, n), r, A, p + 1, 1, q)
  BY <1>2
<1>3. n \in 0..Len(s)
  BY <1>1, <1>2
<1>4. /\ d \in Seq(Bytes) /\ Len(d) = Len(s) - n
      /\ \A i \in 1..(Len(s) - n) : d[i] = s[n + i]
  BY <1>0, <1>3, Cut
<1>5. d \in Seq(Bytes)
  BY <1>4
<1> HIDE DEF d
<1>6. InFrames(d) /\ \A i \in 1..Len(d) : d[i][1] \in A
  <2>1. ASSUME NEW i \in 1..Len(d) PROVE n + i \in 1..Len(s) /\ d[i] = s[n + i]
    BY <1>1, <1>3, <1>4
  <2> QED BY <2>1 DEF Stream, InFrames
<1>7. Runs(d)
  <2> SUFFICES ASSUME NEW h \in 1..Len(d), NEW i \in 1..Len(d),
                      h <= i, d[h][2] + (i - h) <= FrameLen(d[h][1])
               PROVE  d[i] = <<d[h][1], d[h][2] + (i - h)>>
    BY DEF Runs
  <2>1. /\ n + h \in 1..Len(s) /\ n + i \in 1..Len(s) /\ n + h <= n + i
        /\ (n + i) - (n + h) = i - h /\ d[h] = s[n + h] /\ d[i] = s[n + i]
    BY <1>1, <1>3, <1>4
  <2> QED BY <2>1 DEF Stream, Runs
<1>8. Follows(d, r)
  <2> SUFFICES ASSUME NEW i \in 1..(Len(d) - 1), d[i][2] = FrameLen(d[i][1])
               PROVE  d[i + 1][2] = 1 /\ r[d[i + 1][1]] = r[d[i][1]] + 1
    BY DEF Follows
  <2>1. /\ n + i \in 1..(Len(s) - 1) /\ n + (i + 1) = (n + i) + 1
        /\ d[i] = s[n + i] /\ d[i + 1] = s[n + (i + 1)]
    BY <1>1, <1>3, <1>4
  <2> QED BY <2>1 DEF Stream, Follows
<1>9. d # <<>> => /\ n < Len(s) /\ d[1] = s[n + 1] /\ d[Len(d)] = s[Len(s)]
  BY <1>1, <1>3, <1>4, <1>5
<1>10. d = <<>> => n = Len(s)
  BY <1>1, <1>3, <1>4, <1>5
<1>11. /\ s[Len(s)][2] = FrameLen(s[Len(s)][1]) /\ r[s[Len(s)][1]] = q
  BY DEF Stream
<1>12. ASSUME j + n <= FrameLen(k) PROVE Stream(d, r, A, p, j + n, q)
  <2>1. d # <<>>
    BY <1>1, <1>2, <1>10, <1>12
  <2>2. s[n + 1] = <<k, j + n>>
    BY <1>2, <1>12
  <2>3. d[1][2] = j + n /\ r[d[1][1]] = p + 1
    <3>1. d[1] = <<k, j + n>>
      BY <1>9, <2>1, <2>2
    <3>2. d[1][1] = k /\ d[1][2] = j + n
      BY <3>1
    <3>3. r[k] = p + 1
      BY <1>2
    <3> QED BY <3>2, <3>3
  <2> QED BY <1>5, <1>6, <1>7, <1>8, <1>9, <1>11, <2>1, <2>3 DEF Stream
<1>13. ASSUME j + n = FrameLen(k) + 1 PROVE Stream(d, r, A, p + 1, 1, q)
  <2>1. n \in 1..(FrameLen(k) - j + 1) /\ j + n - 1 = FrameLen(k)
    <3>1. FrameLen(k) \in Nat /\ j <= FrameLen(k)
      BY <1>2
    <3>2. n >= 1 /\ n <= FrameLen(k) - j + 1 /\ j + n - 1 = FrameLen(k)
      BY <1>13, <3>1
    <3> QED BY <3>1, <3>2
  <2>2. s[n] = <<k, FrameLen(k)>>
    <3>1. s[n] = <<k, j + n - 1>>
      BY <1>2, <2>1
    <3> QED BY <2>1, <3>1
  <2>3. d = <<>> => p + 1 = q
    BY <1>2, <1>10, <1>11, <2>2
  <2>4. d # <<>> => d[1][2] = 1 /\ r[d[1][1]] = p + 1 + 1
    <3> SUFFICES ASSUME d # <<>> PROVE d[1][2] = 1 /\ r[d[1][1]] = p + 1 + 1
      OBVIOUS
    <3>1. n \in 1..(Len(s) - 1)
      BY <1>1, <1>9, <2>1
    <3>2. s[n + 1][2] = 1 /\ r[s[n + 1][1]] = r[s[n][1]] + 1
      BY <2>2, <3>1 DEF Stream, Follows
    <3>3. r[s[n][1]] = p + 1
      BY <1>2, <2>2
    <3> QED BY <1>9, <3>2, <3>3
  <2> QED BY <1>5, <1>6, <1>7, <1>8, <1>9, <1>11, <2>3, <2>4 DEF Stream
<1> QED BY <1>12, <1>13 DEF d

(* The sender adds the next frame.                                         *)
LEMMA StreamAppend ==
  ASSUME NEW s, NEW r, NEW A \in SUBSET Messages, NEW p, NEW j, NEW q,
         Stream(s, r, A, p, j, q), NEW k \in A, r[k] = q + 1
  PROVE  Stream(s \o Frame(k), r, A, p, j, q + 1)
<1> DEFINE f == Frame(k)
           t == s \o f
<1>0. s \in Seq(Bytes)
  BY DEF Stream
<1>1. f \in Seq(Bytes)
  BY FrameProperties
<1>2. Len(f) = FrameLen(k) /\ \A i \in 1..FrameLen(k) : f[i] = <<k, i>>
  BY FrameProperties
<1>3. FrameLen(k) \in Nat /\ FrameLen(k) >= 1 /\ Len(s) \in Nat
  BY <1>0, FrameLenType
<1> HIDE DEF f
<1>4. t \in Seq(Bytes)
  BY <1>0, <1>1
<1>5. Len(t) = Len(s) + Len(f)
  BY <1>0, <1>1
<1>6. \A i \in 1..(Len(s) + Len(f)) : t[i] = IF i <= Len(s) THEN s[i] ELSE f[i - Len(s)]
  BY <1>0, <1>1, ConcatProperties
<1> HIDE DEF t
<1>7. /\ \A i \in 1..Len(s) : t[i] = s[i]
      /\ \A i \in (Len(s) + 1)..Len(t) : t[i] = <<k, i - Len(s)>>
      /\ Len(t) = Len(s) + FrameLen(k)
  BY <1>2, <1>3, <1>5, <1>6
<1>8. \A i \in 1..Len(t) : i \in 1..Len(s) \/ i \in (Len(s) + 1)..Len(t)
  BY <1>3, <1>7
<1>9. InFrames(t)
  <2> SUFFICES ASSUME NEW i \in 1..Len(t) PROVE t[i][2] \in 1..FrameLen(t[i][1])
    BY DEF InFrames
  <2>1. CASE i \in 1..Len(s)
    BY <1>7, <2>1 DEF Stream, InFrames
  <2>2. CASE i \in (Len(s) + 1)..Len(t)
    BY <1>3, <1>7, <2>2
  <2> QED BY <1>8, <2>1, <2>2
<1>10. \A i \in 1..Len(t) : t[i][1] \in A
  <2> SUFFICES ASSUME NEW i \in 1..Len(t) PROVE t[i][1] \in A
    OBVIOUS
  <2>1. CASE i \in 1..Len(s)
    BY <1>7, <2>1 DEF Stream
  <2>2. CASE i \in (Len(s) + 1)..Len(t)
    BY <1>7, <2>2
  <2> QED BY <1>8, <2>1, <2>2
<1>11. ASSUME Len(s) >= 1
       PROVE  /\ s # <<>> /\ s[Len(s)] \in Bytes /\ s[Len(s)][2] = FrameLen(s[Len(s)][1])
              /\ r[s[Len(s)][1]] = q
  BY <1>0, <1>3, <1>11 DEF Stream
<1>12. Runs(t)
  <2> SUFFICES ASSUME NEW h \in 1..Len(t), NEW i \in 1..Len(t),
                      h <= i, t[h][2] + (i - h) <= FrameLen(t[h][1])
               PROVE  t[i] = <<t[h][1], t[h][2] + (i - h)>>
    BY DEF Runs
  <2>1. CASE i \in 1..Len(s)
    <3>1. h \in 1..Len(s) /\ t[h] = s[h] /\ t[i] = s[i]
      BY <1>3, <1>7, <2>1
    <3> QED BY <2>1, <3>1 DEF Stream, Runs
  <2>2. CASE h \in (Len(s) + 1)..Len(t)
    <3>1. i \in (Len(s) + 1)..Len(t)
      BY <1>3, <1>7, <2>2
    <3>2. t[h] = <<k, h - Len(s)>> /\ t[i] = <<k, i - Len(s)>>
      BY <1>7, <2>2, <3>1
    <3> QED BY <1>3, <1>7, <2>2, <3>2
  <2>3. CASE h \in 1..Len(s) /\ i \in (Len(s) + 1)..Len(t)
    <3> DEFINE m == s[h][1]
               b == s[h][2]
    <3>1. t[h] = s[h] /\ s[h] \in Bytes
      BY <1>0, <1>7, <2>3
    <3>2. m \in Messages /\ b \in Nat /\ FrameLen(m) \in Nat
      BY <3>1, FrameLenType DEF Bytes
    <3>3. b + (i - h) <= FrameLen(m)
      BY <3>1
    <3>4. Len(s) >= 1 /\ b + (Len(s) - h) <= FrameLen(m) /\ Len(s) \in 1..Len(s) /\ h <= Len(s)
      BY <1>3, <1>7, <2>3, <3>2, <3>3
    <3>5. s[Len(s)] = <<m, b + (Len(s) - h)>>
      BY <2>3, <3>4 DEF Stream, Runs
    <3>6. FrameLen(m) = b + (Len(s) - h)
      BY <1>11, <3>4, <3>5
    <3> HIDE DEF m, b
    <3> QED BY <1>3, <1>7, <2>3, <3>2, <3>3, <3>6
  <2> QED BY <1>8, <2>1, <2>2, <2>3
<1>13. Follows(t, r)
  <2> SUFFICES ASSUME NEW i \in 1..(Len(t) - 1), t[i][2] = FrameLen(t[i][1])
               PROVE  t[i + 1][2] = 1 /\ r[t[i + 1][1]] = r[t[i][1]] + 1
    BY DEF Follows
  <2>1. CASE i \in 1..(Len(s) - 1)
    <3>1. t[i] = s[i] /\ t[i + 1] = s[i + 1]
      BY <1>3, <1>7, <2>1
    <3> QED BY <2>1, <3>1 DEF Stream, Follows
  <2>2. CASE i = Len(s)
    <3>1. Len(s) >= 1 /\ t[i] = s[Len(s)] /\ t[i + 1] = <<k, 1>>
      BY <1>3, <1>7, <2>2
    <3> QED BY <1>11, <3>1
  <2>3. CASE i \in (Len(s) + 1)..(Len(t) - 1)
    BY <1>3, <1>7, <2>3
  <2> QED BY <1>3, <1>7, <2>1, <2>2, <2>3
<1>14. t # <<>>
  BY <1>3, <1>4, <1>7
<1>15. t[1][2] = j /\ r[t[1][1]] = p + 1
  <2>1. CASE s = <<>>
    <3>1. Len(s) = 0 /\ p = q /\ j = 1
      BY <2>1 DEF Stream
    <3>2. t[1] = <<k, 1>>
      BY <1>3, <1>7, <3>1
    <3> QED BY <3>1, <3>2
  <2>2. CASE s # <<>>
    <3>1. Len(s) >= 1
      BY <1>0, <1>3, <2>2
    <3>2. t[1] = s[1]
      BY <1>3, <1>7, <3>1
    <3> QED BY <2>2, <3>2 DEF Stream
  <2> QED BY <2>1, <2>2
<1>16. t[Len(t)] = <<k, FrameLen(k)>>
  BY <1>3, <1>7
<1>17. Stream(t, r, A, p, j, q + 1)
  BY <1>4, <1>9, <1>10, <1>12, <1>13, <1>14, <1>15, <1>16 DEF Stream
<1> QED BY <1>17 DEF t, f


(* A receiver that adds n bytes of the pipe to what it has collected.      *)
Collected(s, got, rest, r, A, k, p, j, q) ==
  /\ Reads(s, r, k, p, j)
  /\ Len(got) <= FrameLen(k) - j + 1 => \A i \in 1..Len(got) : got[i] = <<k, j + i - 1>>
  /\ j + Len(got) <= FrameLen(k) => Stream(rest, r, A, p, j + Len(got), q)
  /\ j + Len(got) = FrameLen(k) + 1 => Stream(rest, r, A, p + 1, 1, q)

LEMMA Collect ==
  ASSUME NEW a \in Seq(Bytes), NEW b \in Seq(Bytes), NEW c \in Seq(Bytes), NEW n \in 1..Len(b),
         NEW r, NEW A \in SUBSET Messages, NEW p \in Nat, NEW j \in Nat, NEW q,
         Stream(Three(a, b, c), r, A, p, j, q)
  PROVE  \E k \in A : Collected(Three(a, b, c), a \o Take(b, n), Three(<<>>, Drop(b, n), c),
                                r, A, k, p, j, q)
<1> DEFINE s == Three(a, b, c)
           got == a \o Take(b, n)
           rest == Three(<<>>, Drop(b, n), c)
<1>1. Len(a) \in Nat /\ Len(b) \in Nat /\ n \in 0..Len(b)
  BY LenProperties
<1>2. Len(got) = Len(a) + n /\ TakenOff(got, rest, s)
  BY <1>1, TakeOff
<1>3. Stream(s, r, A, p, j, q)
  OBVIOUS
<1> HIDE DEF s, got, rest
<1>4. s # <<>>
  <2>1. Len(s) >= 1
    BY <1>1, <1>2 DEF TakenOff
  <2> QED BY <2>1
<1>5. PICK k \in A : Reads(s, r, k, p, j)
  BY <1>3, <1>4, StreamRead
<1>6. Len(got) \in Nat /\ s[1] = <<k, j>>
  BY <1>1, <1>2, <1>5 DEF Reads
<1>7. /\ j + Len(got) <= FrameLen(k) => Stream(rest, r, A, p, j + Len(got), q)
      /\ j + Len(got) = FrameLen(k) + 1 => Stream(rest, r, A, p + 1, 1, q)
  BY <1>2, <1>3, <1>4, <1>6, StreamDrop DEF TakenOff
<1>8. FrameLen(k) \in Nat
  BY FrameLenType
<1>9. ASSUME Len(got) <= FrameLen(k) - j + 1, NEW i \in 1..Len(got)
      PROVE  got[i] = <<k, j + i - 1>>
  <2>1. i \in 1..(FrameLen(k) - j + 1) /\ got[i] = s[i]
    BY <1>2, <1>6, <1>8, <1>9 DEF TakenOff
  <2> QED BY <1>5, <2>1 DEF Reads
<1>10. Collected(s, got, rest, r, A, k, p, j, q)
  BY <1>5, <1>7, <1>9 DEF Collected
<1> QED BY <1>10 DEF s, got, rest

LEMMA IsPrefix ==
  ASSUME NEW k \in Messages, NEW g \in Seq(Bytes), Len(g) = Header,
         \A i \in 1..Header : g[i] = <<k, i>>
  PROVE  Unpack(g) = Size[k]
<1>1. /\ FrameLen(k) \in Nat /\ Header \in Nat /\ Header >= 1 /\ FrameLen(k) > Header
  BY FrameLenType
<1> DEFINE f == Frame(k)
<1>2. f \in Seq(Bytes)
  BY FrameProperties
<1>3. Len(f) = FrameLen(k) /\ \A i \in 1..FrameLen(k) : f[i] = <<k, i>>
  BY FrameProperties
<1> HIDE DEF f
<1>4. Header \in 0..Len(f)
  BY <1>1, <1>3
<1>5. /\ Take(f, Header) \in Seq(Bytes) /\ Len(Take(f, Header)) = Header
      /\ \A i \in 1..Header : Take(f, Header)[i] = f[i]
  BY <1>2, <1>4, Cut
<1> DEFINE t == Take(f, Header)
<1>6. t \in Seq(Bytes)
  BY <1>5
<1>7. Len(t) = Len(g)
  BY <1>5
<1>8. ASSUME NEW i \in 1..Len(g) PROVE g[i] = t[i]
  <2>1. i \in 1..Header /\ i \in 1..FrameLen(k)
    BY <1>1
  <2> QED BY <1>3, <1>5, <2>1
<1> HIDE DEF t
<1>9. g = t
  BY <1>6, <1>7, <1>8, SeqEqual
<1>10. g = Prefix(k)
  BY <1>9 DEF t, f, Take, Prefix
<1>11. g[1] = <<k, 1>>
  BY <1>1
<1> QED BY <1>10, <1>11 DEF Unpack

LEMMA IsPayload ==
  ASSUME NEW k \in Messages, NEW g \in Seq(Bytes), Len(g) = Size[k],
         \A i \in 1..Len(g) : g[i] = <<k, Header + i>>
  PROVE  g = Payload(k)
<1>1. /\ FrameLen(k) \in Nat /\ Header \in Nat /\ FrameLen(k) = Header + Size[k]
      /\ Size[k] \in Nat
  BY FrameLenType
<1> DEFINE f == Frame(k)
<1>2. f \in Seq(Bytes)
  BY FrameProperties
<1>3. Len(f) = FrameLen(k) /\ \A i \in 1..FrameLen(k) : f[i] = <<k, i>>
  BY FrameProperties
<1> HIDE DEF f
<1>4. Header \in 0..Len(f)
  BY <1>1, <1>3
<1>5. /\ Drop(f, Header) \in Seq(Bytes) /\ Len(Drop(f, Header)) = Len(f) - Header
      /\ \A i \in 1..(Len(f) - Header) : Drop(f, Header)[i] = f[Header + i]
  BY <1>2, <1>4, Cut
<1> DEFINE t == Drop(f, Header)
<1>6. t \in Seq(Bytes)
  BY <1>5
<1>7. Len(t) = Len(g)
  BY <1>1, <1>3, <1>5
<1>8. ASSUME NEW i \in 1..Len(g) PROVE g[i] = t[i]
  <2>1. i \in 1..(Len(f) - Header) /\ Header + i \in 1..FrameLen(k)
    BY <1>1, <1>3
  <2> QED BY <1>3, <1>5, <2>1
<1> HIDE DEF t
<1>9. g = t
  BY <1>6, <1>7, <1>8, SeqEqual
<1> QED BY <1>3, <1>9 DEF t, f, Drop, Payload


-----------------------------------------------------------------------------
(* The order of the broker's messages.                                     *)
InOrder       == [k \in Messages |-> k]
AnswersOf(ro) == ro.getTask \cup (Messages \ (1 .. ro.sends))
UpTo(S, k)    == {j \in S : j <= k}
Rank(ro)      == [k \in Messages |-> Cardinality(UpTo(AnswersOf(ro), k))]

LEMMA RoleType ==
  ASSUME NEW ro \in Roles
  PROVE  /\ ro.sends \in Messages /\ ro.sends \in Nat /\ ro.getTask \in SUBSET Messages
         /\ ro.getTask # {} => Messages \ (1 .. ro.sends) = {} /\ AnswersOf(ro) = ro.getTask
         /\ AnswersOf(ro) \in SUBSET Messages
         /\ Messages = 1..Len(Size) /\ Len(Size) \in Nat
<1>1. Messages = 1..Len(Size) /\ Len(Size) \in Nat
  BY FramingAssumption DEF Messages
<1>2. ro \in Role
  BY FramingAssumption
<1>3. ro.sends \in Messages /\ ro.getTask \in SUBSET Messages
  BY <1>2 DEF Role
<1>4. ro.getTask # {} => ro.sends = Len(Size)
  BY <1>2 DEF Role
<1> QED BY <1>1, <1>3, <1>4 DEF AnswersOf

LEMMA UpToIsFinite ==
  ASSUME NEW S \in SUBSET Messages, NEW k
  PROVE  IsFiniteSet(UpTo(S, k)) /\ Cardinality(UpTo(S, k)) \in Nat
<1>1. Messages = 1..Len(Size) /\ Len(Size) \in Nat
  BY FramingAssumption DEF Messages
<1>2. IsFiniteSet(Messages)
  BY <1>1, FS_Interval
<1>3. UpTo(S, k) \in SUBSET Messages
  BY DEF UpTo
<1>4. IsFiniteSet(UpTo(S, k))
  BY <1>2, <1>3, FS_Subset
<1> QED BY <1>4, FS_CardinalityType

LEMMA UpToNext ==
  ASSUME NEW S \in SUBSET Messages, NEW n \in Nat
  PROVE  Cardinality(UpTo(S, n + 1)) =
           IF n + 1 \in S THEN Cardinality(UpTo(S, n)) + 1 ELSE Cardinality(UpTo(S, n))
<1>1. \A k \in S : k \in Nat
  BY FramingAssumption DEF Messages
<1>2. IsFiniteSet(UpTo(S, n))
  BY UpToIsFinite
<1>3. CASE n + 1 \in S
  <2>1. UpTo(S, n + 1) = UpTo(S, n) \cup {n + 1} /\ n + 1 \notin UpTo(S, n)
    BY <1>1, <1>3 DEF UpTo
  <2> QED BY <1>2, <1>3, <2>1, FS_AddElement
<1>4. CASE n + 1 \notin S
  <2>1. UpTo(S, n + 1) = UpTo(S, n)
    BY <1>1, <1>4 DEF UpTo
  <2> QED BY <1>4, <2>1
<1> QED BY <1>3, <1>4

LEMMA RankOfAck ==
  ASSUME NEW ro \in Roles, NEW k \in Messages \ (1 .. ro.sends)
  PROVE  ro.getTask = {} /\ Rank(ro)[k] = k - ro.sends
<1>1. /\ ro.sends \in Nat /\ Messages = 1..Len(Size) /\ Len(Size) \in Nat
      /\ ro.getTask # {} => Messages \ (1 .. ro.sends) = {}
  BY RoleType
<1>2. ro.getTask = {}
  BY <1>1
<1>3. UpTo(AnswersOf(ro), k) = (ro.sends + 1)..k /\ k \in Int /\ ro.sends + 1 \in Int
  BY <1>1, <1>2 DEF UpTo, AnswersOf
<1>4. Cardinality((ro.sends + 1)..k) = k - ro.sends
  <2>1. ro.sends + 1 <= k
    BY <1>1
  <2>2. Cardinality((ro.sends + 1)..k) = k - (ro.sends + 1) + 1
    BY <1>3, <2>1, FS_Interval
  <2> QED BY <1>1, <1>3, <2>2
<1> QED BY <1>2, <1>3, <1>4 DEF Rank

(* The message is known by its place among those the broker sends.         *)
LEMMA RankIsUnique ==
  ASSUME NEW ro \in Roles, NEW k \in AnswersOf(ro)
  PROVE  k = CHOOSE l \in AnswersOf(ro) : Cardinality(UpTo(AnswersOf(ro), l)) = Rank(ro)[k]
<1> DEFINE A == AnswersOf(ro)
<1>1. A \in SUBSET Messages /\ Messages = 1..Len(Size) /\ Len(Size) \in Nat
  BY RoleType
<1>2. Rank(ro)[k] = Cardinality(UpTo(A, k))
  BY <1>1 DEF Rank
<1> HIDE DEF A
<1>3. ASSUME NEW l \in A, NEW m \in A, l < m
      PROVE  Cardinality(UpTo(A, l)) # Cardinality(UpTo(A, m))
  <2>0. \A j \in A : j \in Nat
    BY <1>1
  <2>1. UpTo(A, l) \in SUBSET UpTo(A, m) /\ m \in UpTo(A, m) /\ m \notin UpTo(A, l)
    BY <1>3, <2>0 DEF UpTo
  <2>2. IsFiniteSet(UpTo(A, m))
    BY <1>1, UpToIsFinite
  <2>3. UpTo(A, l) # UpTo(A, m)
    BY <2>1
  <2> QED BY <2>1, <2>2, <2>3, FS_Subset
<1>4. \A l \in A : Cardinality(UpTo(A, l)) = Cardinality(UpTo(A, k)) => l = k
  <2> SUFFICES ASSUME NEW l \in A, l # k, Cardinality(UpTo(A, l)) = Cardinality(UpTo(A, k))
               PROVE  FALSE
    OBVIOUS
  <2>1. l < k \/ k < l
    BY <1>1 DEF A
  <2> QED BY <1>3, <2>1 DEF A
<1>5. k = CHOOSE l \in A : Cardinality(UpTo(A, l)) = Cardinality(UpTo(A, k))
  BY <1>4 DEF A
<1> QED BY <1>2, <1>5 DEF A


-----------------------------------------------------------------------------
(* From the worker to the broker.                                          *)
Position(state) == IF state = "READING_LENGTH" THEN 1 ELSE Header + 1

UpTypes ==
  /\ recvBuf \in Seq(Bytes) /\ up \in Seq(Bytes) /\ wOut \in Seq(Bytes)
  /\ requests \in Seq(Seq(Bytes)) /\ wNext \in Nat /\ role \in Roles

UpStream ==
  Stream(Three(recvBuf, up, wOut), InOrder, Messages,
         Len(requests), Position(recvState), wNext)

Expecting ==
  /\ recvState \in {"READING_LENGTH", "READING_PAYLOAD"}
  /\ recvState = "READING_PAYLOAD" =>
       Len(requests) + 1 \in Messages /\ expected = Size[Len(requests) + 1]

RequestsIntact == \A i \in DOMAIN requests : requests[i] = Payload(i)

UpInv == UpTypes /\ UpStream /\ Expecting /\ RequestsIntact

LEMMA UpInvInit == Init => UpInv
<1> SUFFICES ASSUME Init PROVE UpInv
  OBVIOUS
<1> DEFINE e == <<>>
<1>1. e \in Seq(Bytes)
  OBVIOUS
<1>2. e \in Seq(Seq(Bytes))
  OBVIOUS
<1>3. Len(e) = 0 /\ DOMAIN e = {}
  OBVIOUS
<1>4. e = <<>>
  OBVIOUS
<1> HIDE DEF e
<1>5. Three(e, e, e) = e
  <2>1. e \o e = e
    BY <1>1, ConcatEmptySeq, <1>4
  <2> QED BY <2>1 DEF Three
<1>6. Stream(e, InOrder, Messages, 0, 1, 0)
  BY <1>4, NoStream
<1>7. recvBuf = e /\ up = e /\ wOut = e /\ requests = e
  BY <1>4 DEF Init
<1>8. recvState = "READING_LENGTH" /\ wNext = 0 /\ role \in Roles
  BY DEF Init
<1>9. UpStream
  BY <1>3, <1>5, <1>6, <1>7, <1>8 DEF UpStream, Position
<1>10. UpTypes
  BY <1>1, <1>2, <1>7, <1>8 DEF UpTypes
<1> QED BY <1>3, <1>7, <1>8, <1>9, <1>10 DEF UpInv, Expecting, RequestsIntact

LEMMA UpTypesOf ==
  ASSUME UpInv
  PROVE  /\ recvBuf \in Seq(Bytes) /\ up \in Seq(Bytes) /\ wOut \in Seq(Bytes)
         /\ requests \in Seq(Seq(Bytes)) /\ wNext \in Nat /\ role \in Roles
         /\ Len(requests) \in Nat /\ DOMAIN requests = 1..Len(requests)
<1>1. requests \in Seq(Seq(Bytes))
  BY DEF UpInv, UpTypes
<1>2. Len(requests) \in Nat /\ DOMAIN requests = 1..Len(requests)
  BY <1>1, LenProperties
<1> QED BY <1>2 DEF UpInv, UpTypes

LEMMA WorkerSendKeepsUp == UpInv /\ WorkerSend => UpInv'
<1> SUFFICES ASSUME UpInv, WorkerSend PROVE UpInv'
  OBVIOUS
<1> DEFINE k == wNext + 1
           f == Frame(k)
           s == Three(recvBuf, up, wOut)
<1>1. /\ recvBuf \in Seq(Bytes) /\ up \in Seq(Bytes) /\ wNext \in Nat /\ role \in Roles
  BY UpTypesOf
<1>2. recvBuf \in Seq(Bytes)
  BY <1>1
<1>3. up \in Seq(Bytes)
  BY <1>1
<1>4. /\ wOut = <<>> /\ wOut' = f /\ wNext' = k /\ k \in Messages
      /\ UNCHANGED <<role, up, recvState, recvBuf, expected, requests>>
  <2>1. k \in Requests
    BY DEF WorkerSend
  <2>2. Requests \subseteq Messages
    BY <1>1, RoleType DEF Requests
  <2> QED BY <2>1, <2>2 DEF WorkerSend, rx
<1>5. f \in Seq(Bytes)
  BY <1>4, FrameProperties
<1> HIDE DEF f
<1>6. Three(recvBuf, up, f) = s \o f
  <2>1. recvBuf \o up \in Seq(Bytes)
    BY <1>2, <1>3
  <2>2. (recvBuf \o up) \o <<>> = recvBuf \o up
    BY <2>1, ConcatEmptySeq
  <2> QED BY <1>4, <2>2 DEF Three
<1>7. Stream(s, InOrder, Messages, Len(requests), Position(recvState), wNext)
  BY DEF UpInv, UpStream
<1>8. InOrder[k] = wNext + 1
  BY <1>4 DEF InOrder
<1> HIDE DEF s
<1>9. Stream(s \o f, InOrder, Messages, Len(requests), Position(recvState), k)
  BY <1>4, <1>7, <1>8, StreamAppend DEF f
<1>10. UpStream'
  BY <1>4, <1>6, <1>9 DEF UpStream
<1>11. UpTypes'
  BY <1>1, <1>4, <1>5 DEF UpInv, UpTypes
<1> QED BY <1>4, <1>10, <1>11 DEF UpInv, Expecting, RequestsIntact

LEMMA SendAllKeepsUp == UpInv /\ SendAll => UpInv'
<1> SUFFICES ASSUME UpInv, SendAll PROVE UpInv'
  OBVIOUS
<1>1. /\ recvBuf \in Seq(Bytes) /\ up \in Seq(Bytes) /\ wOut \in Seq(Bytes)
  BY UpTypesOf
<1>2. PICK n \in Accepted(up, wOut) : up' = up \o Take(wOut, n) /\ wOut' = Drop(wOut, n)
  BY DEF SendAll
<1>3. UNCHANGED <<role, wNext, recvState, recvBuf, expected, requests>>
  BY DEF SendAll, rx
<1>4. Len(wOut) \in Nat
  BY <1>1, LenProperties
<1>5. n \in 0..Len(wOut)
  BY <1>4 DEF Accepted
<1>6. Take(wOut, n) \in Seq(Bytes) /\ Drop(wOut, n) \in Seq(Bytes)
  BY <1>1, <1>5, Cut
<1>7. up' \in Seq(Bytes) /\ wOut' \in Seq(Bytes)
  <2> DEFINE t == Take(wOut, n)
  <2>1. t \in Seq(Bytes)
    BY <1>6
  <2>2. up \in Seq(Bytes)
    BY <1>1
  <2> HIDE DEF t
  <2>3. up \o t \in Seq(Bytes)
    BY <2>1, <2>2
  <2> QED BY <1>2, <1>6, <2>3 DEF t
<1>8. Three(recvBuf', up', wOut') = Three(recvBuf, up, wOut)
  <2>1. Three(recvBuf, up \o Take(wOut, n), Drop(wOut, n)) = Three(recvBuf, up, wOut)
    BY <1>1, <1>5, MoveRight
  <2> QED BY <1>2, <1>3, <2>1
<1> QED BY <1>3, <1>7, <1>8 DEF UpInv, UpTypes, UpStream, Expecting, RequestsIntact


(* What the broker has collected in either receive state.                  *)
LEMMA BrokerCollects ==
  ASSUME UpInv, NEW n \in 1..Len(up)
  PROVE  LET got == recvBuf \o Take(up, n)
             k   == Len(requests) + 1
         IN  /\ got \in Seq(Bytes) /\ Drop(up, n) \in Seq(Bytes)
             /\ Three(got, Drop(up, n), wOut) = Three(recvBuf, up, wOut)
             /\ Len(got) = Len(recvBuf) + n /\ Len(recvBuf) \in Nat
             /\ k \in Messages
             /\ Collected(Three(recvBuf, up, wOut), got, Three(<<>>, Drop(up, n), wOut),
                          InOrder, Messages, k, Len(requests), Position(recvState), wNext)
<1> DEFINE got == recvBuf \o Take(up, n)
           rest == Three(<<>>, Drop(up, n), wOut)
           s == Three(recvBuf, up, wOut)
           p == Len(requests)
           j == Position(recvState)
<1>1. recvBuf \in Seq(Bytes) /\ up \in Seq(Bytes) /\ wOut \in Seq(Bytes) /\ p \in Nat
  BY UpTypesOf
<1>2. Len(up) \in Nat /\ Len(recvBuf) \in Nat
  BY <1>1, LenProperties
<1>3. n \in 0..Len(up)
  BY <1>2
<1>4. got \in Seq(Bytes) /\ Len(got) = Len(recvBuf) + n
  BY <1>1, <1>3, TakeOff
<1>5. Drop(up, n) \in Seq(Bytes)
  BY <1>1, <1>3, Cut
<1>6. Three(got, Drop(up, n), wOut) = s
  BY <1>1, <1>3, MoveLeft
<1>7. j \in Nat
  BY FramingAssumption DEF Position
<1>8. Stream(s, InOrder, Messages, p, j, wNext)
  BY DEF UpInv, UpStream
<1> HIDE DEF j, p
<1>9. \E k \in Messages : Collected(s, got, rest, InOrder, Messages, k, p, j, wNext)
  BY <1>1, <1>7, <1>8, Collect
<1> HIDE DEF got, rest, s
<1>10. PICK k \in Messages : Collected(s, got, rest, InOrder, Messages, k, p, j, wNext)
  BY <1>9
<1>11. k = p + 1
  BY <1>10 DEF Collected, Reads, InOrder
<1>12. p + 1 \in Messages /\ Collected(s, got, rest, InOrder, Messages, p + 1, p, j, wNext)
  BY <1>10, <1>11
<1> QED BY <1>2, <1>4, <1>5, <1>6, <1>12 DEF got, rest, s, p, j

LEMMA RecvLengthKeepsUp == UpInv /\ RecvLength => UpInv'
<1> SUFFICES ASSUME UpInv, RecvLength PROVE UpInv'
  OBVIOUS
<1>1. /\ recvState = "READING_LENGTH"
      /\ UNCHANGED <<role, wOut, wNext, requests>>
  BY DEF RecvLength, worker
<1>2. PICK n \in 1..Len(up) :
        /\ n <= Header - Len(recvBuf)
        /\ up' = Drop(up, n)
        /\ IF Len(recvBuf \o Take(up, n)) < Header
           THEN /\ recvBuf' = recvBuf \o Take(up, n)
                /\ event' = "none"
                /\ UNCHANGED <<recvState, expected, bOpen>>
           ELSE IF Unpack(recvBuf \o Take(up, n)) < 0
           THEN /\ RemoveWorker
                /\ UNCHANGED <<recvBuf, recvState, expected>>
           ELSE /\ expected'  = Unpack(recvBuf \o Take(up, n))
                /\ recvBuf'   = <<>>
                /\ recvState' = "READING_PAYLOAD"
                /\ UNCHANGED <<event, bOpen>>
  BY DEF RecvLength
<1> DEFINE got == recvBuf \o Take(up, n)
           d == Drop(up, n)
           s == Three(recvBuf, up, wOut)
           rest == Three(<<>>, d, wOut)
           p == Len(requests)
<1>3. /\ got \in Seq(Bytes) /\ d \in Seq(Bytes) /\ Three(got, d, wOut) = s
      /\ Len(got) = Len(recvBuf) + n /\ Len(recvBuf) \in Nat
      /\ p + 1 \in Messages
      /\ Collected(s, got, rest, InOrder, Messages, p + 1, p, Position(recvState), wNext)
  BY BrokerCollects
<1>4. UpTypes /\ Expecting /\ RequestsIntact /\ p \in Nat
  BY UpTypesOf DEF UpInv
<1> HIDE DEF got, d, s, rest, p
<1>5. Header \in Nat /\ Header >= 1 /\ FrameLen(p + 1) \in Nat /\ FrameLen(p + 1) > Header
      /\ Size[p + 1] \in Nat
  BY <1>3, FrameLenType
<1>6. CASE Len(got) < Header
  <2>1. up' = d /\ recvBuf' = got /\ recvState' = recvState /\ expected' = expected
    BY <1>2, <1>6 DEF got, d
  <2>2. UpStream'
    BY <1>1, <1>3, <2>1 DEF UpInv, UpStream, s
  <2>3. UpTypes'
    BY <1>1, <1>3, <1>4, <2>1 DEF UpTypes
  <2> QED BY <1>1, <1>4, <2>1, <2>2, <2>3 DEF UpInv, Expecting, RequestsIntact
<1>7. CASE ~(Len(got) < Header)
  <2>1. Len(got) = Header
    <3>1. n <= Header - Len(recvBuf) /\ n \in Int
      BY <1>2
    <3> QED BY <1>3, <1>5, <1>7, <3>1
  <2>2. Position(recvState) = 1
    BY <1>1 DEF Position
  <2>3. \A i \in 1..Header : got[i] = <<p + 1, i>>
    <3>1. Len(got) <= FrameLen(p + 1) - 1 + 1
      BY <1>5, <2>1
    <3>2. \A i \in 1..Len(got) : got[i] = <<p + 1, 1 + i - 1>>
      BY <1>3, <2>2, <3>1 DEF Collected
    <3> QED BY <1>5, <2>1, <3>2
  <2>4. Unpack(got) = Size[p + 1]
    <3>1. got \in Seq(Bytes)
      BY <1>3
    <3> QED BY <1>3, <2>1, <2>3, <3>1, IsPrefix
  <2>5. /\ up' = d /\ expected' = Size[p + 1] /\ recvBuf' = <<>>
        /\ recvState' = "READING_PAYLOAD"
    <3>1. ~(Unpack(got) < 0)
      BY <1>5, <2>4
    <3> QED BY <1>2, <1>7, <2>4, <3>1 DEF got, d
  <2>6. Stream(rest, InOrder, Messages, p, 1 + Header, wNext)
    <3>1. 1 + Len(got) <= FrameLen(p + 1) /\ 1 + Len(got) = 1 + Header
      BY <1>5, <2>1
    <3> QED BY <1>3, <2>2, <3>1 DEF Collected
  <2>7. UpStream'
    <3>1. Position(recvState') = 1 + Header
      BY <1>5, <2>5 DEF Position
    <3> QED BY <1>1, <2>5, <2>6, <3>1 DEF UpStream, rest, p
  <2>8. UpTypes'
    <3>1. <<>> \in Seq(Bytes)
      OBVIOUS
    <3> QED BY <1>1, <1>3, <1>4, <2>5, <3>1 DEF UpTypes
  <2>9. Expecting'
    BY <1>1, <1>3, <2>5 DEF Expecting, p
  <2> QED BY <1>1, <1>4, <2>7, <2>8, <2>9 DEF UpInv, RequestsIntact
<1> QED BY <1>6, <1>7

(* The payload the broker dispatches is that of the next request.          *)
LEMMA RecvPayloadKeepsUp == UpInv /\ RecvPayload => UpInv'
<1> SUFFICES ASSUME UpInv, RecvPayload PROVE UpInv'
  OBVIOUS
<1>1. /\ recvState = "READING_PAYLOAD"
      /\ UNCHANGED <<role, wOut, wNext>>
  BY DEF RecvPayload, worker
<1>2. PICK n \in 1..Len(up) :
        /\ n <= expected - Len(recvBuf)
        /\ up' = Drop(up, n)
        /\ IF Len(recvBuf \o Take(up, n)) < expected
           THEN /\ recvBuf' = recvBuf \o Take(up, n)
                /\ UNCHANGED <<recvState, expected, requests>>
           ELSE /\ requests'  = Append(requests, recvBuf \o Take(up, n))
                /\ recvBuf'   = <<>>
                /\ recvState' = "READING_LENGTH"
  BY DEF RecvPayload
<1> DEFINE got == recvBuf \o Take(up, n)
           d == Drop(up, n)
           s == Three(recvBuf, up, wOut)
           rest == Three(<<>>, d, wOut)
           p == Len(requests)
<1>3. /\ got \in Seq(Bytes) /\ d \in Seq(Bytes) /\ Three(got, d, wOut) = s
      /\ Len(got) = Len(recvBuf) + n /\ Len(recvBuf) \in Nat
      /\ p + 1 \in Messages
      /\ Collected(s, got, rest, InOrder, Messages, p + 1, p, Position(recvState), wNext)
  BY BrokerCollects
<1>4. UpTypes /\ Expecting /\ RequestsIntact /\ p \in Nat
  BY UpTypesOf DEF UpInv
<1>5. expected = Size[p + 1]
  BY <1>1, <1>4 DEF Expecting
<1> HIDE DEF got, d, s, rest, p
<1>6. Header \in Nat /\ Header >= 1 /\ FrameLen(p + 1) \in Nat
      /\ Size[p + 1] \in Nat /\ FrameLen(p + 1) = Header + Size[p + 1]
  BY <1>3, FrameLenType
<1>7. CASE Len(got) < expected
  <2>1. up' = d /\ recvBuf' = got /\ UNCHANGED <<recvState, expected, requests>>
    BY <1>2, <1>7 DEF got, d
  <2>2. UpStream'
    BY <1>1, <1>3, <2>1 DEF UpInv, UpStream, s
  <2>3. UpTypes'
    BY <1>1, <1>3, <1>4, <2>1 DEF UpTypes
  <2> QED BY <1>1, <1>4, <2>1, <2>2, <2>3 DEF UpInv, Expecting, RequestsIntact
<1>8. CASE ~(Len(got) < expected)
  <2>1. Len(got) = Size[p + 1]
    <3>1. n <= expected - Len(recvBuf) /\ n \in Int
      BY <1>2
    <3> QED BY <1>3, <1>5, <1>6, <1>8, <3>1
  <2>2. Position(recvState) = Header + 1
    BY <1>1 DEF Position
  <2>3. got = Payload(p + 1)
    <3>1. Len(got) <= FrameLen(p + 1) - (Header + 1) + 1
      BY <1>6, <2>1
    <3>2. \A i \in 1..Len(got) : got[i] = <<p + 1, Header + 1 + i - 1>>
      BY <1>3, <2>2, <3>1 DEF Collected
    <3>3. \A i \in 1..Len(got) : got[i] = <<p + 1, Header + i>>
      BY <1>6, <2>1, <3>2
    <3>4. got \in Seq(Bytes)
      BY <1>3
    <3> QED BY <1>3, <2>1, <3>3, <3>4, IsPayload
  <2>4. /\ up' = d /\ requests' = Append(requests, got) /\ recvBuf' = <<>>
        /\ recvState' = "READING_LENGTH"
    BY <1>2, <1>8 DEF got, d
  <2>5. Stream(rest, InOrder, Messages, p + 1, 1, wNext)
    <3>1. Header + 1 + Len(got) = FrameLen(p + 1) + 1
      BY <1>6, <2>1
    <3> QED BY <1>3, <2>2, <3>1 DEF Collected
  <2>6. /\ requests' \in Seq(Seq(Bytes)) /\ Len(requests') = p + 1
        /\ \A i \in 1..p : requests'[i] = requests[i]
        /\ requests'[p + 1] = got
    <3>1. requests \in Seq(Seq(Bytes))
      BY <1>4 DEF UpTypes
    <3> QED BY <1>3, <2>4, <3>1, AppendProperties DEF p
  <2>7. UpStream'
    <3>1. Position(recvState') = 1
      BY <2>4 DEF Position
    <3> QED BY <1>1, <2>4, <2>5, <2>6, <3>1 DEF UpStream, rest
  <2>8. UpTypes'
    <3>1. <<>> \in Seq(Bytes)
      OBVIOUS
    <3> QED BY <1>1, <1>3, <1>4, <2>4, <2>6, <3>1 DEF UpTypes
  <2>9. Expecting'
    BY <2>4 DEF Expecting
  <2>10. RequestsIntact'
    <3>1. DOMAIN requests' = 1..(p + 1) /\ DOMAIN requests = 1..p
      <4>1. requests' \in Seq(Seq(Bytes))
        BY <2>6
      <4>2. DOMAIN requests' = 1..Len(requests')
        BY <4>1, LenProperties
      <4> QED BY <2>6, <4>2, UpTypesOf DEF p
    <3>2. \A i \in 1..(p + 1) : i \in 1..p \/ i = p + 1
      BY <1>4
    <3> QED BY <1>4, <2>3, <2>6, <3>1, <3>2 DEF RequestsIntact
  <2> QED BY <2>7, <2>8, <2>9, <2>10 DEF UpInv
<1> QED BY <1>7, <1>8

LEMMA OthersKeepUp ==
  UpInv /\ UNCHANGED <<role, wOut, wNext, up, rx>> => UpInv'
BY DEF UpInv, UpTypes, UpStream, Expecting, RequestsIntact, rx


-----------------------------------------------------------------------------
(* From the broker to the worker.                                          *)
LEMMA DropDrop ==
  ASSUME NEW S, NEW s \in Seq(S), NEW m \in 0..Len(s), NEW n \in 0..(Len(s) - m)
  PROVE  Drop(Drop(s, m), n) = Drop(s, m + n)
<1> DEFINE d == Drop(s, m)
           l == Drop(d, n)
           r == Drop(s, m + n)
<1>1. Len(s) \in Nat
  BY LenProperties
<1>2. d \in Seq(S) /\ Len(d) = Len(s) - m /\ \A i \in 1..(Len(s) - m) : d[i] = s[m + i]
  BY Cut
<1>3. m + n \in 0..Len(s)
  BY <1>1
<1>4. r \in Seq(S) /\ Len(r) = Len(s) - (m + n) /\ \A i \in 1..(Len(s) - (m + n)) : r[i] = s[m + n + i]
  BY <1>3, Cut
<1>5. r \in Seq(S)
  BY <1>4
<1>6. d \in Seq(S)
  BY <1>2
<1> HIDE DEF d, r
<1>7. n \in 0..Len(d)
  BY <1>1, <1>2
<1>8. l \in Seq(S) /\ Len(l) = Len(d) - n /\ \A i \in 1..(Len(d) - n) : l[i] = d[n + i]
  BY <1>6, <1>7, Cut
<1>9. l \in Seq(S)
  BY <1>8
<1> HIDE DEF l
<1>10. Len(l) = Len(r)
  BY <1>1, <1>2, <1>4, <1>8
<1>11. ASSUME NEW i \in 1..Len(l) PROVE l[i] = r[i]
  <2>1. l[i] = d[n + i]
    BY <1>8
  <2>2. n + i \in 1..(Len(s) - m) /\ i \in 1..(Len(s) - (m + n)) /\ m + (n + i) = m + n + i
    BY <1>1, <1>2, <1>8
  <2>3. d[n + i] = s[m + (n + i)] /\ r[i] = s[m + n + i]
    BY <1>2, <1>4, <2>2
  <2> QED BY <2>1, <2>2, <2>3
<1>12. l = r
  BY <1>5, <1>9, <1>10, <1>11, SeqEqual
<1> QED BY <1>12 DEF d, l, r

LEMMA DropAll ==
  ASSUME NEW S, NEW s \in Seq(S)
  PROVE  Drop(s, Len(s)) = <<>>
<1>1. Len(s) \in Nat
  BY LenProperties
<1> QED BY <1>1, SubSeqEmpty DEF Drop

LEMMA DropConcat ==
  ASSUME NEW S, NEW s \in Seq(S), NEW t \in Seq(S), NEW m \in 0..Len(s)
  PROVE  Drop(s \o t, m) = Drop(s, m) \o t
<1> DEFINE st == s \o t
           d == Drop(s, m)
           l == Drop(st, m)
           r == d \o t
<1>1. Len(s) \in Nat /\ Len(t) \in Nat
  BY LenProperties
<1>2. d \in Seq(S) /\ Len(d) = Len(s) - m /\ \A i \in 1..(Len(s) - m) : d[i] = s[m + i]
  BY Cut
<1>3. d \in Seq(S)
  BY <1>2
<1>4. st \in Seq(S)
  OBVIOUS
<1>5. /\ Len(st) = Len(s) + Len(t)
      /\ \A i \in 1..(Len(s) + Len(t)) : st[i] = IF i <= Len(s) THEN s[i] ELSE t[i - Len(s)]
  BY ConcatProperties
<1> HIDE DEF d, st
<1>6. /\ d \o t \in Seq(S) /\ Len(d \o t) = Len(d) + Len(t)
      /\ \A i \in 1..(Len(d) + Len(t)) :
           (d \o t)[i] = IF i <= Len(d) THEN d[i] ELSE t[i - Len(d)]
  BY <1>3, ConcatProperties
<1>7. m \in 0..Len(st)
  BY <1>1, <1>5
<1>8. l \in Seq(S) /\ Len(l) = Len(st) - m /\ \A i \in 1..(Len(st) - m) : l[i] = st[m + i]
  BY <1>4, <1>7, Cut
<1>9. l \in Seq(S)
  BY <1>8
<1>10. r \in Seq(S)
  BY <1>6
<1> HIDE DEF l
<1>11. Len(l) = Len(r)
  BY <1>1, <1>2, <1>5, <1>6, <1>8
<1>12. ASSUME NEW i \in 1..Len(l) PROVE l[i] = r[i]
  <2>1. i \in 1..(Len(st) - m) /\ m + i \in 1..(Len(s) + Len(t)) /\ i \in 1..(Len(d) + Len(t))
    BY <1>1, <1>2, <1>5, <1>8
  <2>2. l[i] = st[m + i]
    BY <1>8, <2>1
  <2>3. CASE i <= Len(d)
    <3>1. m + i <= Len(s) /\ i \in 1..(Len(s) - m)
      BY <1>1, <1>2, <2>1, <2>3
    <3>2. st[m + i] = s[m + i] /\ r[i] = d[i] /\ d[i] = s[m + i]
      BY <1>2, <1>5, <1>6, <2>1, <2>3, <3>1
    <3> QED BY <2>2, <3>2
  <2>4. CASE ~(i <= Len(d))
    <3>1. ~(m + i <= Len(s)) /\ m + i - Len(s) = i - Len(d)
      BY <1>1, <1>2, <2>1, <2>4
    <3>2. st[m + i] = t[m + i - Len(s)] /\ r[i] = t[i - Len(d)]
      BY <1>5, <1>6, <2>1, <2>4, <3>1
    <3> QED BY <2>2, <3>1, <3>2
  <2> QED BY <2>3, <2>4
<1> HIDE DEF r
<1>13. l = r
  BY <1>9, <1>10, <1>11, <1>12, SeqEqual
<1> QED BY <1>13 DEF d, st, l, r

DownTypes ==
  /\ wBuf \in Seq(Bytes) /\ down \in Seq(Bytes) /\ sendBuf \in Seq(Bytes)
  /\ wGot \in Seq(Seq(Bytes)) /\ acked \in Nat /\ sendOffset \in 0..Len(sendBuf)

Queued == Cardinality(UpTo(role.getTask, Len(requests))) + acked

DownStream ==
  Stream(Three(wBuf, down, Unsent), Rank(role), AnswersOf(role), Len(wGot), 1, Queued)

AcksOnly == role.getTask # {} => acked = 0

GotIntact == \A i \in DOMAIN wGot : wGot[i] = Payload(Reply(i))

DownInv == DownTypes /\ DownStream /\ AcksOnly /\ GotIntact

LEMMA DownInvInit == Init => DownInv
<1> SUFFICES ASSUME Init PROVE DownInv
  OBVIOUS
<1> DEFINE e == <<>>
<1>1. e \in Seq(Bytes)
  OBVIOUS
<1>2. e \in Seq(Seq(Bytes))
  OBVIOUS
<1>3. Len(e) = 0 /\ DOMAIN e = {}
  OBVIOUS
<1>4. e = <<>>
  OBVIOUS
<1> HIDE DEF e
<1>5. Three(e, e, e) = e
  <2>1. e \o e = e
    BY <1>1, ConcatEmptySeq, <1>4
  <2> QED BY <2>1 DEF Three
<1>6. /\ wBuf = e /\ down = e /\ sendBuf = e /\ wGot = e /\ requests = e
      /\ acked = 0 /\ sendOffset = 0 /\ role \in Roles
  BY <1>4 DEF Init
<1>7. Unsent = e
  <2>1. Drop(e, Len(e)) = e
    BY <1>1, <1>4, DropAll
  <2> QED BY <1>3, <1>6, <2>1 DEF Unsent
<1>8. Queued = 0
  <2>1. role.getTask \in SUBSET Messages /\ Messages = 1..Len(Size)
    BY <1>6, RoleType
  <2>2. UpTo(role.getTask, 0) = {}
    BY <2>1 DEF UpTo
  <2>3. Cardinality({}) = 0
    BY FS_EmptySet
  <2>4. Len(requests) = 0 /\ acked = 0
    BY <1>3, <1>6
  <2> QED BY <2>2, <2>3, <2>4 DEF Queued
<1>9. Stream(e, Rank(role), AnswersOf(role), 0, 1, 0)
  BY <1>4, NoStream
<1>10. DownStream
  BY <1>3, <1>5, <1>6, <1>7, <1>8, <1>9 DEF DownStream
<1>11. DownTypes
  BY <1>1, <1>2, <1>3, <1>6 DEF DownTypes
<1> QED BY <1>3, <1>6, <1>10, <1>11 DEF DownInv, AcksOnly, GotIntact

LEMMA DownTypesOf ==
  ASSUME DownInv
  PROVE  /\ wBuf \in Seq(Bytes) /\ down \in Seq(Bytes) /\ sendBuf \in Seq(Bytes)
         /\ wGot \in Seq(Seq(Bytes)) /\ acked \in Nat /\ sendOffset \in 0..Len(sendBuf)
         /\ Len(wGot) \in Nat /\ DOMAIN wGot = 1..Len(wGot) /\ Len(sendBuf) \in Nat
         /\ Unsent \in Seq(Bytes) /\ Len(Unsent) = Len(sendBuf) - sendOffset
<1>1. /\ wGot \in Seq(Seq(Bytes)) /\ sendBuf \in Seq(Bytes) /\ sendOffset \in 0..Len(sendBuf)
  BY DEF DownInv, DownTypes
<1>2. Len(wGot) \in Nat /\ DOMAIN wGot = 1..Len(wGot) /\ Len(sendBuf) \in Nat
  BY <1>1, LenProperties
<1>3. Unsent \in Seq(Bytes) /\ Len(Unsent) = Len(sendBuf) - sendOffset
  BY <1>1, Cut DEF Unsent
<1> QED BY <1>1, <1>2, <1>3 DEF DownInv, DownTypes


LEMMA QueueKeepsDown ==
  ASSUME DownInv, role \in Roles, NEW k \in AnswersOf(role), Rank(role)[k] = Queued + 1,
         QueueMessage(k), UNCHANGED <<role, wBuf, wGot, down>>,
         Queued' = Queued + 1, acked' \in Nat, AcksOnly'
  PROVE  DownInv'
<1> DEFINE f == Frame(k)
           s == Three(wBuf, down, Unsent)
           A == AnswersOf(role)
<1>0. A \in SUBSET Messages /\ k \in Messages
  BY RoleType
<1>1. /\ wBuf \in Seq(Bytes) /\ down \in Seq(Bytes) /\ sendBuf \in Seq(Bytes)
      /\ Unsent \in Seq(Bytes) /\ sendOffset \in 0..Len(sendBuf) /\ Len(sendBuf) \in Nat
      /\ wGot \in Seq(Seq(Bytes))
  BY DownTypesOf
<1>2. f \in Seq(Bytes)
  BY <1>0, FrameProperties
<1>3. sendBuf' = sendBuf \o f /\ sendOffset' = sendOffset
  BY DEF QueueMessage
<1> HIDE DEF f, A
<1>4. sendBuf \in Seq(Bytes)
  BY <1>1
<1>5. sendBuf \o f \in Seq(Bytes) /\ Len(sendBuf \o f) = Len(sendBuf) + Len(f) /\ Len(f) \in Nat
  BY <1>2, <1>4, ConcatProperties, LenProperties
<1>6. Unsent' = Unsent \o f
  BY <1>1, <1>2, <1>3, DropConcat DEF Unsent
<1>7. Three(wBuf, down, Unsent \o f) = s \o f
  <2>1. wBuf \in Seq(Bytes)
    BY <1>1
  <2>2. down \in Seq(Bytes)
    BY <1>1
  <2>3. Unsent \in Seq(Bytes)
    BY <1>1
  <2> DEFINE ab == wBuf \o down
  <2>4. ab \in Seq(Bytes)
    BY <2>1, <2>2
  <2> HIDE DEF ab
  <2>5. (ab \o Unsent) \o f = ab \o (Unsent \o f)
    <3>1. Joined(Joined(ab, Unsent), f) = Joined(ab, Joined(Unsent, f))
      BY <1>2, <2>3, <2>4, Associative
    <3> QED BY <3>1 DEF Joined
  <2> QED BY <2>5 DEF Three, ab
<1>8. Stream(s, Rank(role), A, Len(wGot), 1, Queued)
  BY DEF DownInv, DownStream, A
<1> HIDE DEF s
<1>9. k \in A
  BY DEF A
<1>10. Stream(s \o f, Rank(role), A, Len(wGot), 1, Queued + 1)
  BY <1>0, <1>8, <1>9, StreamAppend DEF f
<1>11. DownStream'
  BY <1>6, <1>7, <1>10 DEF DownStream, A
<1>12. DownTypes'
  <2>1. sendOffset' \in 0..Len(sendBuf')
    BY <1>1, <1>3, <1>5
  <2> QED BY <1>1, <1>3, <1>5, <2>1 DEF DownTypes
<1>13. GotIntact'
  BY DEF DownInv, GotIntact, Reply, Answers, GetTask, Acks, Requests
<1> QED BY <1>11, <1>12, <1>13 DEF DownInv

(* The broker answers a get_task when it has it all.                       *)
LEMMA RecvPayloadKeepsDown == UpInv /\ DownInv /\ RecvPayload => DownInv'
<1> SUFFICES ASSUME UpInv, DownInv, RecvPayload PROVE DownInv'
  OBVIOUS
<1> DEFINE p == Len(requests)
<1>1. p \in Nat /\ role \in Roles /\ requests \in Seq(Seq(Bytes))
  BY UpTypesOf
<1>2. UNCHANGED <<role, wBuf, wGot, down, acked>>
  BY DEF RecvPayload, worker
<1>3. \/ UNCHANGED <<requests, tx>>
      \/ /\ \E n \in 1..Len(up) : requests' = Append(requests, recvBuf \o Take(up, n))
         /\ p + 1 \in GetTask => QueueMessage(p + 1)
         /\ p + 1 \notin GetTask => UNCHANGED tx
  BY DEF RecvPayload
<1>4. CASE UNCHANGED <<requests, tx>>
  BY <1>2, <1>4 DEF DownInv, DownTypes, DownStream, AcksOnly, GotIntact, Queued, Unsent, tx,
                    Reply, Answers, GetTask, Acks, Requests
<1>5. ASSUME NEW n \in 1..Len(up), requests' = Append(requests, recvBuf \o Take(up, n)),
             p + 1 \in GetTask => QueueMessage(p + 1),
             p + 1 \notin GetTask => UNCHANGED tx
      PROVE  DownInv'
  <2>1. Len(requests') = p + 1
    <3>1. recvBuf \o Take(up, n) \in Seq(Bytes)
      BY BrokerCollects
    <3> QED BY <1>1, <1>5, <3>1, AppendProperties
  <2> HIDE DEF p
  <2>2. role.getTask \in SUBSET Messages
    BY <1>1, RoleType
  <2>3. acked \in Nat /\ AcksOnly
    BY DEF DownInv, DownTypes
  <2>4. Cardinality(UpTo(role.getTask, p)) \in Nat
    BY <2>2, UpToIsFinite
  <2>5. CASE p + 1 \in role.getTask
    <3>1. acked = 0 /\ AnswersOf(role) = role.getTask
      BY <1>1, <2>3, <2>5, RoleType DEF AcksOnly
    <3>2. Cardinality(UpTo(role.getTask, p + 1)) = Cardinality(UpTo(role.getTask, p)) + 1
      BY <1>1, <2>2, <2>5, UpToNext
    <3>3. Rank(role)[p + 1] = Queued + 1
      BY <2>2, <2>4, <2>5, <3>1, <3>2 DEF Rank, Queued, p
    <3>4. Queued' = Queued + 1
      BY <1>2, <2>1, <2>4, <3>1, <3>2 DEF Queued, p
    <3>5. QueueMessage(p + 1)
      BY <1>5, <2>5 DEF GetTask
    <3>6. AcksOnly' /\ acked' \in Nat
      BY <1>2, <2>3 DEF AcksOnly
    <3> QED BY <1>1, <1>2, <2>5, <3>1, <3>3, <3>4, <3>5, <3>6, QueueKeepsDown
  <2>6. CASE p + 1 \notin role.getTask
    <3>1. Cardinality(UpTo(role.getTask, p + 1)) = Cardinality(UpTo(role.getTask, p))
      BY <1>1, <2>2, <2>6, UpToNext
    <3>2. Queued' = Queued
      BY <1>2, <2>1, <3>1 DEF Queued, p
    <3>3. UNCHANGED <<sendBuf, sendOffset>>
      BY <1>5, <2>6 DEF GetTask, tx
    <3> QED BY <1>2, <3>2, <3>3
            DEF DownInv, DownTypes, DownStream, AcksOnly, GotIntact, Unsent,
                Reply, Answers, GetTask, Acks, Requests
  <2> QED BY <2>5, <2>6
<1> QED BY <1>3, <1>4, <1>5

LEMMA SendAckKeepsDown == UpInv /\ DownInv /\ SendAck => DownInv'
<1> SUFFICES ASSUME UpInv, DownInv, SendAck PROVE DownInv'
  OBVIOUS
<1> DEFINE k == role.sends + acked + 1
<1>1. role \in Roles /\ role.sends \in Nat /\ acked \in Nat
  BY UpTypesOf, DownTypesOf, RoleType
<1>2. Cardinality(Requests) = role.sends
  <2>1. Cardinality(1..role.sends) = IF 1 > role.sends THEN 0 ELSE role.sends - 1 + 1
    BY <1>1, FS_Interval
  <2> QED BY <1>1, <2>1 DEF Requests
<1>3. /\ k \in Acks /\ acked' = acked + 1 /\ QueueMessage(k)
      /\ UNCHANGED <<role, wBuf, wGot, down, requests>>
  BY <1>2 DEF SendAck, worker, rx
<1>4. k \in Messages \ (1 .. role.sends)
  BY <1>3 DEF Acks, Requests
<1>5. role.getTask = {} /\ Rank(role)[k] = k - role.sends
  BY <1>1, <1>4, RankOfAck
<1>6. k - role.sends = acked + 1
  BY <1>1
<1>7. k \in AnswersOf(role)
  BY <1>4 DEF AnswersOf
<1> HIDE DEF k
<1>8. Cardinality(UpTo(role.getTask, Len(requests))) = 0
  <2>1. UpTo(role.getTask, Len(requests)) = {}
    BY <1>5 DEF UpTo
  <2>2. Cardinality({}) = 0
    BY FS_EmptySet
  <2> QED BY <2>1, <2>2
<1>9. Queued = acked /\ Queued' = acked'
  BY <1>1, <1>3, <1>8 DEF Queued
<1>10. acked' \in Nat /\ AcksOnly'
  BY <1>1, <1>3, <1>5 DEF AcksOnly
<1>11. Rank(role)[k] = Queued + 1 /\ Queued' = Queued + 1
  BY <1>3, <1>5, <1>6, <1>9
<1>12. UNCHANGED <<role, wBuf, wGot, down>>
  BY <1>3
<1> QED BY <1>1, <1>3, <1>7, <1>10, <1>11, <1>12, QueueKeepsDown

LEMMA FlushSendKeepsDown == DownInv /\ FlushSend => DownInv'
<1> SUFFICES ASSUME DownInv, FlushSend PROVE DownInv'
  OBVIOUS
<1>1. /\ wBuf \in Seq(Bytes) /\ down \in Seq(Bytes) /\ sendBuf \in Seq(Bytes)
      /\ Unsent \in Seq(Bytes) /\ sendOffset \in 0..Len(sendBuf) /\ Len(sendBuf) \in Nat
      /\ Len(Unsent) = Len(sendBuf) - sendOffset
  BY DownTypesOf
<1>2. PICK n \in Accepted(down, Unsent) :
        /\ down' = down \o Take(Unsent, n)
        /\ IF sendOffset + n >= Len(sendBuf)
           THEN sendBuf' = <<>> /\ sendOffset' = 0 /\ armed' = FALSE
           ELSE sendOffset' = sendOffset + n /\ UNCHANGED <<sendBuf, armed>>
  BY DEF FlushSend
<1>3. UNCHANGED <<role, wBuf, wGot, requests, acked>>
  BY DEF FlushSend, worker, rx
<1>4. n \in 0..Len(Unsent) /\ n \in Nat
  BY <1>1 DEF Accepted
<1>5. Take(Unsent, n) \in Seq(Bytes)
  BY <1>1, <1>4, Cut
<1>6. down' \in Seq(Bytes)
  <2> DEFINE t == Take(Unsent, n)
  <2>1. t \in Seq(Bytes)
    BY <1>5
  <2>2. down \in Seq(Bytes)
    BY <1>1
  <2> HIDE DEF t
  <2>3. down \o t \in Seq(Bytes)
    BY <2>1, <2>2
  <2> QED BY <1>2, <2>3 DEF t
<1>7. /\ sendBuf' \in Seq(Bytes) /\ sendOffset' \in 0..Len(sendBuf')
      /\ Unsent' = Drop(Unsent, n)
  <2>1. CASE sendOffset + n >= Len(sendBuf)
    <3> DEFINE e == <<>>
    <3>1. e \in Seq(Bytes)
      OBVIOUS
    <3>2. Len(e) = 0
      OBVIOUS
    <3>3. sendBuf' = e /\ sendOffset' = 0
      BY <1>2, <2>1
    <3>4. Drop(e, Len(e)) = <<>>
      BY <3>1, DropAll
    <3>5. n = Len(Unsent)
      <4> HIDE DEF e
      <4>1. sendOffset \in Nat /\ Len(sendBuf) \in Nat /\ n \in Nat
        BY <1>1, <1>4
      <4>2. Len(Unsent) = Len(sendBuf) - sendOffset /\ n <= Len(Unsent)
        BY <1>1, <1>4
      <4> QED BY <2>1, <4>1, <4>2
    <3>6. Drop(Unsent, n) = <<>>
      BY <1>1, <3>5, DropAll
    <3>7. sendBuf' \in Seq(Bytes) /\ 0 \in 0..Len(e)
      BY <3>1, <3>2, <3>3
    <3> HIDE DEF e
    <3> QED BY <3>2, <3>3, <3>4, <3>6, <3>7 DEF Unsent
  <2>2. CASE ~(sendOffset + n >= Len(sendBuf))
    <3>1. sendBuf' = sendBuf /\ sendOffset' = sendOffset + n
      BY <1>2, <2>2
    <3>2. n \in 0..(Len(sendBuf) - sendOffset) /\ sendOffset + n \in 0..Len(sendBuf)
      BY <1>1, <1>4, <2>2
    <3>3. Drop(Drop(sendBuf, sendOffset), n) = Drop(sendBuf, sendOffset + n)
      BY <1>1, <3>2, DropDrop
    <3> QED BY <1>1, <3>1, <3>2, <3>3 DEF Unsent
  <2> QED BY <2>1, <2>2
<1>8. Three(wBuf', down', Unsent') = Three(wBuf, down, Unsent)
  <2>1. Three(wBuf, down \o Take(Unsent, n), Drop(Unsent, n)) = Three(wBuf, down, Unsent)
    BY <1>1, <1>4, MoveRight
  <2> QED BY <1>2, <1>3, <1>7, <2>1
<1>9. DownTypes'
  BY <1>3, <1>6, <1>7 DEF DownInv, DownTypes
<1>10. DownStream'
  BY <1>3, <1>8 DEF DownInv, DownStream, Queued
<1>11. AcksOnly' /\ GotIntact'
  BY <1>3 DEF DownInv, AcksOnly, GotIntact, Reply, Answers, GetTask, Acks, Requests
<1> QED BY <1>9, <1>10, <1>11 DEF DownInv


(* The worker, or the reader, reads: recv_exactly never asks beyond the    *)
(* frame, so that what it holds is one.                                    *)
LEMMA RecvExactlyKeepsDown == UpInv /\ DownInv /\ RecvExactly => DownInv'
<1> SUFFICES ASSUME UpInv, DownInv, RecvExactly PROVE DownInv'
  OBVIOUS
<1> DEFINE goal == IF Len(wBuf) < Header THEN Header ELSE Header + Unpack(Take(wBuf, Header))
           full(got) == /\ Len(got) > Header
                        /\ Len(got) = Header + Unpack(Take(got, Header))
<1>1. PICK n \in 1..Len(down) :
        /\ n <= goal - Len(wBuf)
        /\ down' = Drop(down, n)
        /\ wBuf' = IF full(wBuf \o Take(down, n)) THEN <<>> ELSE wBuf \o Take(down, n)
        /\ wGot' = IF full(wBuf \o Take(down, n))
                   THEN Append(wGot, Drop(wBuf \o Take(down, n), Header)) ELSE wGot
  BY DEF RecvExactly
<1>2. UNCHANGED <<role, requests, acked, sendBuf, sendOffset>>
  BY DEF RecvExactly, rx, tx
<1> DEFINE got == wBuf \o Take(down, n)
           d == Drop(down, n)
           s == Three(wBuf, down, Unsent)
           rest == Three(<<>>, d, Unsent)
           p == Len(wGot)
           A == AnswersOf(role)
           r == Rank(role)
<1>3. /\ wBuf \in Seq(Bytes) /\ down \in Seq(Bytes) /\ Unsent \in Seq(Bytes)
      /\ wGot \in Seq(Seq(Bytes)) /\ p \in Nat /\ DOMAIN wGot = 1..p
  BY DownTypesOf
<1>4. A \in SUBSET Messages /\ role \in Roles
  BY UpTypesOf, RoleType
<1>5. Len(down) \in Nat /\ Len(wBuf) \in Nat /\ n \in 0..Len(down) /\ n \in Nat
  BY <1>3, LenProperties
<1>6. got \in Seq(Bytes) /\ Len(got) = Len(wBuf) + n
  BY <1>3, <1>5, TakeOff
<1>7. d \in Seq(Bytes)
  BY <1>3, <1>5, Cut
<1>8. Three(got, d, Unsent) = s
  BY <1>3, <1>5, MoveLeft
<1>9. s \in Seq(Bytes) /\ Laid(s, wBuf, down, Unsent)
  BY <1>3, ThreeProperties
<1>10. Stream(s, r, A, p, 1, Queued)
  BY DEF DownInv, DownStream
<1> HIDE DEF A, p, r
<1>11. \E k \in A : Collected(s, got, rest, r, A, k, p, 1, Queued)
  BY <1>3, <1>4, <1>10, Collect
<1> HIDE DEF got, d, s, rest
<1>12. PICK k \in A : Collected(s, got, rest, r, A, k, p, 1, Queued)
  BY <1>11
<1>13. k \in Messages
  BY <1>4
<1>14. /\ Header \in Nat /\ Header >= 1 /\ FrameLen(k) \in Nat /\ FrameLen(k) > Header
       /\ Size[k] \in Nat /\ Size[k] >= 1 /\ FrameLen(k) = Header + Size[k]
  BY <1>13, FrameLenType
<1>15. \A i \in 1..FrameLen(k) : s[i] = <<k, i>>
  <2>1. \A i \in 1..(FrameLen(k) - 1 + 1) : s[i] = <<k, 1 + i - 1>>
    BY <1>12 DEF Collected, Reads
  <2> QED BY <1>14, <2>1
<1>16. ASSUME Len(wBuf) >= Header PROVE Unpack(Take(wBuf, Header)) = Size[k]
  <2>1. Header \in 0..Len(wBuf)
    BY <1>5, <1>14, <1>16
  <2>2. /\ Take(wBuf, Header) \in Seq(Bytes) /\ Len(Take(wBuf, Header)) = Header
        /\ \A i \in 1..Header : Take(wBuf, Header)[i] = wBuf[i]
    BY <1>3, <2>1, Cut
  <2>3. \A i \in 1..Header : Take(wBuf, Header)[i] = <<k, i>>
    <3> SUFFICES ASSUME NEW i \in 1..Header PROVE Take(wBuf, Header)[i] = <<k, i>>
      OBVIOUS
    <3>1. i \in 1..Len(wBuf) /\ i \in 1..FrameLen(k)
      BY <1>5, <1>14, <1>16
    <3>2. s[i] = wBuf[i]
      BY <1>9, <3>1 DEF Laid
    <3> QED BY <1>15, <2>2, <3>1, <3>2
  <2> QED BY <1>13, <2>2, <2>3, IsPrefix
<1>17. Len(got) <= FrameLen(k)
  <2>1. n <= goal - Len(wBuf)
    BY <1>1
  <2>2. CASE Len(wBuf) < Header
    BY <1>5, <1>6, <1>14, <2>1, <2>2
  <2>3. CASE ~(Len(wBuf) < Header)
    <3>1. goal = Header + Size[k]
      BY <1>5, <1>14, <1>16, <2>3
    <3> HIDE DEF goal
    <3> QED BY <1>5, <1>6, <1>14, <2>1, <3>1
  <2> QED BY <2>2, <2>3
<1> HIDE DEF goal
<1>18. \A i \in 1..Len(got) : got[i] = <<k, i>>
  <2>1. \A i \in 1..Len(got) : got[i] = <<k, 1 + i - 1>>
    BY <1>12, <1>14, <1>17 DEF Collected
  <2> QED BY <1>5, <1>6, <2>1
<1>19. got \in Seq(Bytes) /\ Len(got) \in Nat
  BY <1>5, <1>6
<1>20. ASSUME Len(got) > Header PROVE Unpack(Take(got, Header)) = Size[k]
  <2>1. Header \in 0..Len(got)
    BY <1>14, <1>19, <1>20
  <2>2. /\ Take(got, Header) \in Seq(Bytes) /\ Len(Take(got, Header)) = Header
        /\ \A i \in 1..Header : Take(got, Header)[i] = got[i]
    BY <1>19, <2>1, Cut
  <2>3. \A i \in 1..Header : Take(got, Header)[i] = <<k, i>>
    BY <1>14, <1>18, <1>19, <1>20, <2>2
  <2> QED BY <1>13, <2>2, <2>3, IsPrefix
<1>21. full(got) <=> Len(got) = FrameLen(k)
  BY <1>14, <1>19, <1>20
<1>22. /\ down' = d
       /\ wBuf' = IF Len(got) = FrameLen(k) THEN <<>> ELSE got
       /\ wGot' = IF Len(got) = FrameLen(k) THEN Append(wGot, Drop(got, Header)) ELSE wGot
  <2>1. /\ down' = d
        /\ wBuf' = IF full(got) THEN <<>> ELSE got
        /\ wGot' = IF full(got) THEN Append(wGot, Drop(got, Header)) ELSE wGot
    BY <1>1 DEF got, d
  <2> HIDE DEF full
  <2> QED BY <1>21, <2>1
<1> HIDE DEF full
<1>23. Unsent' = Unsent /\ Queued' = Queued
  BY <1>2 DEF Unsent, Queued
<1>24. sendBuf' \in Seq(Bytes) /\ acked' \in Nat /\ sendOffset' \in 0..Len(sendBuf')
  BY <1>2 DEF DownInv, DownTypes
<1>25. AcksOnly'
  BY <1>2 DEF DownInv, AcksOnly
<1>26. CASE Len(got) # FrameLen(k)
  <2>1. down' = d /\ wBuf' = got /\ wGot' = wGot
    BY <1>22, <1>26
  <2>2. DownStream'
    BY <1>2, <1>8, <1>10, <1>23, <2>1 DEF DownStream, p, A, r
  <2>3. DownTypes'
    BY <1>3, <1>6, <1>7, <1>24, <2>1 DEF DownTypes
  <2>4. GotIntact'
    BY <1>2, <2>1 DEF DownInv, GotIntact, Reply, Answers, GetTask, Acks, Requests
  <2> QED BY <1>25, <2>2, <2>3, <2>4 DEF DownInv
<1>27. CASE Len(got) = FrameLen(k)
  <2> DEFINE g == Drop(got, Header)
  <2>1. down' = d /\ wBuf' = <<>> /\ wGot' = Append(wGot, g)
    BY <1>22, <1>27
  <2>2. g \in Seq(Bytes) /\ Len(g) = Size[k] /\ \A i \in 1..Len(g) : g[i] = <<k, Header + i>>
    <3>1. Header \in 0..Len(got)
      BY <1>14, <1>27
    <3>2. g \in Seq(Bytes) /\ Len(g) = Len(got) - Header /\ \A i \in 1..(Len(got) - Header) : g[i] = got[Header + i]
      BY <1>19, <3>1, Cut
    <3> HIDE DEF g
    <3>3. ASSUME NEW i \in 1..Len(g) PROVE g[i] = <<k, Header + i>>
      <4>1. i \in 1..(Len(got) - Header) /\ Header + i \in 1..Len(got)
        BY <1>14, <1>27, <3>2
      <4> QED BY <1>18, <3>2, <4>1
    <3>4. Len(g) = Size[k]
      <4>1. Len(g) = Len(got) - Header
        BY <3>2
      <4> QED BY <1>14, <1>27, <4>1
    <3> QED BY <3>2, <3>3, <3>4
  <2>3. g = Payload(k)
    <3>1. g \in Seq(Bytes)
      BY <2>2
    <3> HIDE DEF g
    <3> QED BY <1>13, <2>2, <3>1, IsPayload
  <2> HIDE DEF g
  <2>4. /\ wGot' \in Seq(Seq(Bytes)) /\ Len(wGot') = p + 1
        /\ \A i \in 1..p : wGot'[i] = wGot[i]
        /\ wGot'[p + 1] = g
    BY <1>3, <2>1, <2>2, AppendProperties DEF p
  <2>5. Stream(rest, r, A, p + 1, 1, Queued)
    <3>1. 1 + Len(got) = FrameLen(k) + 1
      BY <1>14, <1>27
    <3> QED BY <1>12, <3>1 DEF Collected
  <2>6. DownStream'
    BY <1>2, <1>23, <2>1, <2>4, <2>5 DEF DownStream, rest, A, r
  <2>7. DownTypes'
    <3>1. <<>> \in Seq(Bytes)
      OBVIOUS
    <3> QED BY <1>7, <1>24, <2>1, <2>4, <3>1 DEF DownTypes
  <2>8. k = Reply(p + 1)
    <3>1. r[k] = p + 1
      BY <1>12 DEF Collected, Reads
    <3>2. k = CHOOSE l \in AnswersOf(role) : Cardinality(UpTo(AnswersOf(role), l)) = p + 1
      BY <1>4, <3>1, RankIsUnique DEF A, r
    <3>3. Answers = AnswersOf(role)
      BY DEF Answers, AnswersOf, GetTask, Acks, Requests
    <3> QED BY <3>2, <3>3 DEF Reply, UpTo
  <2>9. GotIntact'
    <3>1. DOMAIN wGot' = 1..(p + 1)
      <4>1. wGot' \in Seq(Seq(Bytes))
        BY <2>4
      <4>2. DOMAIN wGot' = 1..Len(wGot')
        BY <4>1, LenProperties
      <4> QED BY <2>4, <4>2
    <3>2. \A i : Reply(i)' = Reply(i)
      BY <1>2 DEF Reply, Answers, GetTask, Acks, Requests
    <3>3. \A i \in 1..p : wGot[i] = Payload(Reply(i))
      BY <1>3 DEF DownInv, GotIntact
    <3>4. \A i \in 1..(p + 1) : i \in 1..p \/ i = p + 1
      BY <1>3
    <3>5. \A i \in 1..(p + 1) : wGot'[i] = Payload(Reply(i))
      BY <2>3, <2>4, <2>8, <3>3, <3>4
    <3> QED BY <3>1, <3>2, <3>5 DEF GotIntact
  <2> QED BY <1>25, <2>6, <2>7, <2>9 DEF DownInv
<1> QED BY <1>26, <1>27

LEMMA OthersKeepDown ==
  ASSUME DownInv, UNCHANGED <<role, wBuf, wGot, down, sendBuf, sendOffset, acked, requests>>
  PROVE  DownInv'
BY DEF DownInv, DownTypes, DownStream, AcksOnly, GotIntact, Queued, Unsent,
       Reply, Answers, GetTask, Acks, Requests

LEMMA FramesNext == UpInv /\ DownInv /\ [Next]_vars => UpInv' /\ DownInv'
<1> SUFFICES ASSUME UpInv, DownInv, [Next]_vars PROVE UpInv' /\ DownInv'
  OBVIOUS
<1> DEFINE upvars == <<role, wOut, wNext, up, rx>>
           downvars == <<role, wBuf, wGot, down, sendBuf, sendOffset, acked, requests>>
<1>0. (UNCHANGED upvars => UpInv') /\ (UNCHANGED downvars => DownInv')
  BY OthersKeepUp, OthersKeepDown
<1>1. CASE WorkerSend
  <2>1. UNCHANGED downvars
    BY <1>1 DEF WorkerSend, rx, tx
  <2> QED BY <1>0, <1>1, <2>1, WorkerSendKeepsUp
<1>2. CASE SendAll
  <2>1. UNCHANGED downvars
    BY <1>2 DEF SendAll, rx, tx
  <2> QED BY <1>0, <1>2, <2>1, SendAllKeepsUp
<1>3. CASE RecvExactly
  <2>1. UNCHANGED upvars
    BY <1>3 DEF RecvExactly, rx
  <2> QED BY <1>0, <1>3, <2>1, RecvExactlyKeepsDown
<1>4. CASE RecvLength
  <2>1. UNCHANGED downvars
    BY <1>4 DEF RecvLength, worker, tx
  <2> QED BY <1>0, <1>4, <2>1, RecvLengthKeepsUp
<1>5. CASE RecvPayload
  BY <1>5, RecvPayloadKeepsUp, RecvPayloadKeepsDown
<1>6. CASE SendAck
  <2>1. UNCHANGED upvars
    BY <1>6 DEF SendAck, worker, rx
  <2> QED BY <1>0, <1>6, <2>1, SendAckKeepsDown
<1>7. CASE FlushSend
  <2>1. UNCHANGED upvars
    BY <1>7 DEF FlushSend, worker, rx
  <2> QED BY <1>0, <1>7, <2>1, FlushSendKeepsDown
<1>8. CASE WorkerClose \/ Poll \/ RecvWouldBlock \/ RecvClosed \/ FlushSendFails
  <2>1. UNCHANGED upvars /\ UNCHANGED downvars
    BY <1>8 DEF WorkerClose, Poll, RecvWouldBlock, RecvClosed, FlushSendFails, worker, rx, tx
  <2> QED BY <1>0, <2>1
<1>9. CASE UNCHANGED vars
  <2>1. UNCHANGED upvars /\ UNCHANGED downvars
    BY <1>9 DEF vars, worker, rx, tx
  <2> QED BY <1>0, <2>1
<1> QED BY <1>1, <1>2, <1>3, <1>4, <1>5, <1>6, <1>7, <1>8, <1>9 DEF Next, Broker, Worker

(* Whatever the lengths of the prefix and of the messages, however small   *)
(* the pipe and wherever the kernel cuts: either end takes for a message   *)
(* the next message the other end sent (recv_messages, flush_send,         *)
(* recv_message).                                                          *)
THEOREM MessagesIntact == Spec => []FramesIntact
<1>1. UpInv /\ DownInv => FramesIntact
  BY DEF UpInv, RequestsIntact, DownInv, GotIntact, FramesIntact
<1> QED BY <1>1, UpInvInit, DownInvInit, FramesNext, PTL DEF Spec
=============================================================================
