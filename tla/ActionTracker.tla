---------------------------- MODULE ActionTracker ----------------------------
(***************************************************************************)
(* One command of the web console (.tune/webui/action_tracker.py): the     *)
(* request that starts it, the process with its two pipes, a capture       *)
(* thread for each pipe, the monitor thread, the request that kills it and *)
(* the stream of server-sent events a browser follows it with (routes.py). *)
(* Line i of a stream is the number i.  A descendant of the process may    *)
(* hold the pipes open after the process has ended.                        *)
(***************************************************************************)
EXTENDS Integers, Sequences

CONSTANTS
  BufferSize,   \* maxlen of the two deques, 1000 in the code
  PipeSize,     \* lines a pipe holds
  MaxLines      \* bound: lines of a stream

ASSUME ActionTrackerAssumption ==
  BufferSize \in Nat \ {0} /\ PipeSize \in Nat \ {0} /\ MaxLines \in Nat

Streams == {"stdout", "stderr"}
Killed == -9
NoCode == -1000  \* no return code yet

VARIABLES
  status, returncode,
  registered,      \* the registry knows the tracker
  process,         \* [state, code, held]: held by a descendant's end of the pipes
  written,         \* lines that were written, by stream
  capture,         \* the capture threads: "none", "read", "log", "done"
  buffer, log,     \* stdout_buffer and stderr_buffer; lines in the log files
  monitor,         \* the monitor thread: its place
  late,            \* a join of the monitor thread timed out
  stream           \* [state, sent, seen]: the generator of stream_output

tracker == <<status, returncode, registered>>
trackerVars == <<tracker, process, written, capture, buffer, log, monitor, late, stream>>

Taken(s) == log[s] + (IF capture[s] = "log" THEN 1 ELSE 0)

TrackerInit ==
  /\ status = "queued" /\ returncode = NoCode /\ registered = TRUE
  /\ process = [state |-> "none", code |-> NoCode, held |-> FALSE]
  /\ written = [s \in Streams |-> 0] /\ log = [s \in Streams |-> 0]
  /\ capture = [s \in Streams |-> "none"]
  /\ buffer = [s \in Streams |-> <<>>]
  /\ monitor = "none" /\ late = FALSE
  /\ stream = [state |-> "none", sent |-> [s \in Streams |-> 0],
               seen |-> [s \in Streams |-> <<>>]]

-----------------------------------------------------------------------------
(* The request that runs the command.  Popen may raise: the status has     *)
(* been set by then, and no thread will ever change it.                    *)
start ==
  /\ status = "queued"
  /\ status' = "running"
  /\ \/ /\ process' = [process EXCEPT !.state = "running"]
        /\ capture' = [s \in Streams |-> "read"]
        /\ monitor' = "wait"
     \/ UNCHANGED <<process, capture, monitor>>
  /\ UNCHANGED <<returncode, registered, written, buffer, log, late, stream>>

(* The process and its descendants. *)
WriteLine(s) ==
  /\ process.state = "running" \/ process.held
  /\ written[s] < MaxLines /\ written[s] - Taken(s) < PipeSize
  /\ written' = [written EXCEPT ![s] = @ + 1]
  /\ UNCHANGED <<tracker, process, capture, buffer, log, monitor, late, stream>>

Ends(code) ==
  \E held \in BOOLEAN : process' = [state |-> "exited", code |-> code, held |-> held]

ProcessExits ==
  /\ process.state = "running"
  /\ \E code \in {0, 1} : Ends(code)
  /\ UNCHANGED <<tracker, written, capture, buffer, log, monitor, late, stream>>

DescendantEnds ==
  /\ process.held
  /\ process' = [process EXCEPT !.held = FALSE]
  /\ UNCHANGED <<tracker, written, capture, buffer, log, monitor, late, stream>>

-----------------------------------------------------------------------------
(* _capture_stream: a line goes to the buffer, then to the log file. *)

Append1000(q, line) ==
  LET all == Append(q, line)
  IN  IF Len(all) > BufferSize THEN Tail(all) ELSE all

Capture(s) ==
  /\ capture[s] = "read" /\ Taken(s) < written[s]
  /\ buffer' = [buffer EXCEPT ![s] = Append1000(@, Taken(s) + 1)]
  /\ capture' = [capture EXCEPT ![s] = "log"]
  /\ UNCHANGED <<tracker, process, written, log, monitor, late, stream>>

Log(s) ==
  /\ capture[s] = "log"
  /\ log' = [log EXCEPT ![s] = @ + 1]
  /\ capture' = [capture EXCEPT ![s] = "read"]
  /\ UNCHANGED <<tracker, process, written, buffer, monitor, late, stream>>

EndOfFile(s) ==
  /\ capture[s] = "read" /\ Taken(s) = written[s]
  /\ process.state = "exited" /\ ~process.held
  /\ capture' = [capture EXCEPT ![s] = "done"]
  /\ UNCHANGED <<tracker, process, written, buffer, log, monitor, late, stream>>

-----------------------------------------------------------------------------
(* _monitor_completion *)

MonitorWait ==
  /\ monitor = "wait" /\ process.state = "exited"
  /\ returncode' = process.code
  /\ monitor' = "stdout"
  /\ UNCHANGED <<status, registered, process, written, capture, buffer, log, late, stream>>

\* Fault: the capture threads are not waited for.
JoinNot(s) ==
  /\ monitor = s
  /\ monitor' = IF s = "stdout" THEN "stderr" ELSE "settle"
  /\ UNCHANGED <<tracker, process, written, capture, buffer, log, late, stream>>

(* join(timeout=1.0) returns when the thread has ended, or after a second. *)
Join(s) ==
  /\ monitor = s
  /\ late' = (late \/ capture[s] # "done")
  /\ monitor' = IF s = "stdout" THEN "stderr" ELSE "settle"
  /\ UNCHANGED <<tracker, process, written, capture, buffer, log, stream>>

\* Fault: an action that was killed stays so.
SettleUnlessKilled ==
  /\ monitor = "settle"
  /\ status' = IF status = "killed" THEN status
               ELSE IF returncode = 0 THEN "completed" ELSE "failed"
  /\ monitor' = "done"
  /\ UNCHANGED <<returncode, registered, process, written, capture, buffer, log,
                 late, stream>>

Settle ==
  /\ monitor = "settle"
  /\ status' = IF returncode = 0 THEN "completed" ELSE "failed"
  /\ monitor' = "done"
  /\ UNCHANGED <<returncode, registered, process, written, capture, buffer, log,
                 late, stream>>

-----------------------------------------------------------------------------
(* The requests. *)

\* Fault: the status is not looked at.
KillAnyway ==
  /\ registered /\ process.state # "none"
  /\ IF process.state = "running" THEN Ends(Killed) ELSE UNCHANGED process
  /\ status' = "killed" /\ returncode' = Killed
  /\ UNCHANGED <<registered, written, capture, buffer, log, monitor, late, stream>>

kill ==
  /\ registered /\ process.state # "none" /\ status = "running"
  /\ IF process.state = "running" THEN Ends(Killed) ELSE UNCHANGED process
  /\ status' = "killed" /\ returncode' = Killed
  /\ UNCHANGED <<registered, written, capture, buffer, log, monitor, late, stream>>

(* remove_action and clear_all_actions; the threads keep the tracker. *)
remove ==
  /\ registered /\ registered' = FALSE
  /\ UNCHANGED <<status, returncode, process, written, capture, buffer, log, monitor,
                 late, stream>>

Connect ==
  /\ stream.state = "none"
  /\ stream' = [stream EXCEPT !.state = IF registered THEN "open" ELSE "error"]
  /\ UNCHANGED <<tracker, process, written, capture, buffer, log, monitor, late>>

\* Fault: what is remembered is how many lines this turn sent.
PollForgets ==
  LET new(s) == SubSeq(buffer[s], stream.sent[s] + 1, Len(buffer[s]))
  IN  /\ stream.state = "open"
      /\ stream' = [state |-> IF status \in {"completed", "failed"} THEN "closed"
                              ELSE "open",
                    sent |-> [s \in Streams |-> Len(new(s))],
                    seen |-> [s \in Streams |-> stream.seen[s] \o new(s)]]
      /\ UNCHANGED <<tracker, process, written, capture, buffer, log, monitor, late>>

(* A turn of the loop: get_output under the lock, the lines not sent yet,  *)
(* and the status read with them.                                          *)
Poll ==
  LET new(s) == SubSeq(buffer[s], stream.sent[s] + 1, Len(buffer[s]))
  IN  /\ stream.state = "open"
      /\ stream' = [state |-> IF status \in {"completed", "failed"} THEN "closed"
                              ELSE "open",
                    sent |-> [s \in Streams |-> Len(buffer[s])],
                    seen |-> [s \in Streams |-> stream.seen[s] \o new(s)]]
      /\ UNCHANGED <<tracker, process, written, capture, buffer, log, monitor, late>>

-----------------------------------------------------------------------------
Environment ==
  ProcessExits \/ DescendantEnds \/ \E s \in Streams : WriteLine(s)

Requests == start \/ kill \/ remove \/ Connect

Monitor == MonitorWait \/ Settle \/ \E s \in Streams : Join(s)

CaptureThread(s) == Capture(s) \/ Log(s) \/ EndOfFile(s)

TrackerNext ==
  Environment \/ Requests \/ Monitor \/ Poll \/ \E s \in Streams : CaptureThread(s)

(* The threads run, a poll follows a tenth of a second after the last, and *)
(* a wait for a thread times out; nothing makes the process end.           *)
TrackerSpec ==
  /\ TrackerInit /\ [][TrackerNext]_trackerVars
  /\ WF_trackerVars(Monitor) /\ WF_trackerVars(Poll)
  /\ \A s \in Streams : WF_trackerVars(CaptureThread(s))

-----------------------------------------------------------------------------
(* The status of an action that is over and its return code agree, however *)
(* a kill and the end of the process fell together, and stay so.           *)
FinalAgrees ==
  monitor = "done" => status = IF returncode = 0 THEN "completed" ELSE "failed"

IsPrefixUpTo(q, n) == Len(q) <= n /\ \A i \in 1..Len(q) : q[i] = i

(* The stream shows lines in their order, none twice.  While the deque     *)
(* (routes.py sends by position in it) has dropped none, it shows them     *)
(* without a gap, and once it has closed with the status of the action, it *)
(* has shown every line, if the captures ended within their second.        *)
EverythingSeen ==
  \A s \in Streams :
    /\ \A i \in 1..(Len(stream.seen[s]) - 1) : stream.seen[s][i] < stream.seen[s][i + 1]
    /\ written[s] <= BufferSize => IsPrefixUpTo(stream.seen[s], written[s])
    /\ stream.state = "closed" /\ ~late /\ written[s] <= BufferSize
         => Len(stream.seen[s]) = written[s]

(* A stream that is open when the process ends closes: also after a kill,  *)
(* although the loop does not know the status "killed".                    *)
StreamEnds == (stream.state = "open" /\ process.state = "exited") ~> stream.state = "closed"
=============================================================================
