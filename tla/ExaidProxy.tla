----------------------------- MODULE ExaidProxy -----------------------------
(***************************************************************************)
(* A GPU worker and the process it benchmarks in (v3python/tune/exaid.py,  *)
(* SafeLineReader of utils.py, the command loop of testrun.py): commands   *)
(* down one pipe, lines back up another, a timeout per line, and a process *)
(* that may die or stop answering at any moment.  Calls are numbered; a    *)
(* line carries the number of the command it answers, which the code does  *)
(* not have.                                                               *)
(***************************************************************************)
EXTENDS Naturals, Sequences

CONSTANTS
  MaxCalls,        \* bound: calls of the GPU worker
  MaxHeat,         \* bound: OVERHEATING lines per command
  StderrCapacity   \* writes the stderr pipe holds; nobody reads it

ASSUME ExaidAssumption ==
  MaxCalls \in Nat /\ MaxHeat \in Nat /\ StderrCapacity \in Nat

VARIABLES
  pc,       \* where the caller is
  command,  \* its command
  call,     \* number of its call
  result,   \* how each call ended, in order
  process,  \* ExaidProxy._process: none, or what poll() would see of it
  code,     \* exit code of a process that ends
  stdin, stdout, stderr,  \* the pipes
  buffer,   \* SafeLineReader.buffer
  job, heat, half, stuck  \* the process: command in work, lines it has
                          \* printed, stopped in the middle of its answer,
                          \* blocked on stderr

caller == <<pc, command, call, result>>
worker == <<code, stderr, job, heat, half, stuck>>
vars == <<caller, process, stdin, stdout, buffer, worker>>

Commands == {"prepare_data", "probe", "benchmark"}
None == <<>>
Dead == {"closing", "exited", "crashed"}

\* A write to a pipe: a whole line, or the first half of one.
Piece(kind, n, end) == [kind |-> kind, call |-> n, end |-> end]

\* The first complete line of a buffer, or what there is of it.
LineEnd(b) == IF \E i \in DOMAIN b : b[i].end
                THEN CHOOSE i \in DOMAIN b :
                       b[i].end /\ \A j \in 1..(i - 1) : ~b[j].end
                ELSE Len(b)
HasLine(b) == \E i \in DOMAIN b : b[i].end

-----------------------------------------------------------------------------
(* The caller: ExaidWorker.prepare_data, probe, benchmark and exit. *)

Return(kind, n) ==
  /\ pc' = "idle"
  /\ result' = Append(result, [kind |-> kind, call |-> n])
  /\ UNCHANGED <<command, call>>

Goto(place) == pc' = place /\ UNCHANGED <<command, call, result>>

Call(c) ==
  /\ pc = "idle" /\ call < MaxCalls
  /\ pc' = "write" /\ command' = c /\ call' = call + 1
  /\ UNCHANGED <<result, process, stdin, stdout, buffer, worker>>

NewProcess ==
  /\ process' = "running" /\ code' = 0
  /\ stdout' = <<>> /\ stderr' = 0 /\ buffer' = <<>>
  /\ job' = None /\ heat' = 0 /\ half' = FALSE /\ stuck' = FALSE

(* The property `process' starts one if there is none; a dead one is kept, *)
(* and the write to its pipe raises BrokenPipeError.                       *)
Write ==
  LET request == [command |-> command, call |-> call]
  IN  /\ pc = "write"
      /\ \/ /\ process = "none" /\ NewProcess
            /\ stdin' = <<request>>
         \/ /\ process = "running"
            /\ stdin' = Append(stdin, request)
            /\ UNCHANGED <<process, stdout, buffer, worker>>
         \/ process \in Dead /\ UNCHANGED <<process, stdin, stdout, buffer, worker>>
      /\ IF process \in Dead THEN Return("BrokenPipe", call)
         ELSE Goto(IF command = "exit" THEN "join" ELSE "poll")

\* What readinfo and its caller make of a line.
Deliver(line) ==
  CASE line[1].kind = "heat"  -> Goto("poll")
    [] line[1].kind = "error" -> Return("NotOK", line[1].call)
    [] line[1].kind = "ok"    -> Return(IF line[Len(line)].end THEN "OK" ELSE "ValueError",
                                        line[1].call)

(* readline begins: a crash first, then a line left in the buffer. *)
Poll ==
  /\ pc = "poll"
  /\ IF process = "crashed" THEN Goto("reset") /\ UNCHANGED buffer
     ELSE IF HasLine(buffer)
       THEN /\ Deliver(SubSeq(buffer, 1, LineEnd(buffer)))
            /\ buffer' = SubSeq(buffer, LineEnd(buffer) + 1, Len(buffer))
     ELSE Goto("read") /\ UNCHANGED buffer
  /\ UNCHANGED <<process, stdin, stdout, worker>>

\* select says readable: some of the bytes are read.  A crash seen now takes
\* the answer with it.
Read ==
  /\ pc = "read"
  /\ \E k \in DOMAIN stdout :
       LET got == buffer \o SubSeq(stdout, 1, k)
       IN  /\ stdout' = SubSeq(stdout, k + 1, Len(stdout))
           /\ IF ~HasLine(got) THEN Goto("read") /\ buffer' = got
              ELSE /\ buffer' = SubSeq(got, LineEnd(got) + 1, Len(got))
                   /\ IF process = "crashed" THEN Goto("reset")
                      ELSE Deliver(SubSeq(got, 1, LineEnd(got)))
  /\ UNCHANGED <<process, stdin, worker>>

\* End of file: what is in the buffer passes for a last line.
Eof ==
  /\ pc = "read" /\ stdout = <<>> /\ process \in Dead
  /\ IF buffer = <<>> THEN Goto("reset") ELSE Deliver(buffer)
  /\ buffer' = <<>>
  /\ UNCHANGED <<process, stdin, stdout, worker>>

\* Fault: a process that is only slow is waited for, not killed.
TimeoutWaits ==
  /\ pc = "read" /\ (buffer # <<>> \/ (stdout = <<>> /\ process = "running"))
  /\ Goto("reset")
  /\ UNCHANGED <<process, stdin, stdout, buffer, worker>>

(* The deadline of this line passes: readinfo kills the process. *)
Timeout ==
  /\ pc = "read" /\ (buffer # <<>> \/ (stdout = <<>> /\ process = "running"))
  /\ process' = IF process = "exited" THEN process ELSE "crashed"
  /\ Goto("reset")
  /\ UNCHANGED <<stdin, stdout, buffer, worker>>

Forget == process' = "none" /\ stdin' = <<>> /\ stdout' = <<>> /\ buffer' = <<>>

\* Fault: the end of a process that timed out is not waited for.
ResetKept ==
  /\ pc = "reset" /\ process \in {"crashed", "exited"}
  /\ Return("OSError", call)
  /\ UNCHANGED <<process, stdin, stdout, buffer, worker>>

(* readinfo waits for the process, drops it and raises OSError. *)
Reset ==
  /\ pc = "reset" /\ process \in {"crashed", "exited"}
  /\ Forget /\ Return("OSError", call)
  /\ UNCHANGED worker

\* A process that ends in time is kept, one that is killed is not.
Join ==
  /\ pc = "join"
  /\ \/ process \in {"exited", "crashed"} /\ UNCHANGED <<process, stdin, stdout, buffer>>
     \/ process \in {"running", "closing"} /\ Forget
  /\ Return("exit", call)
  /\ UNCHANGED worker

-----------------------------------------------------------------------------
(* The process: main and CommandProcessor of testrun.py. *)

At(p) == process = "running" /\ ~stuck /\ p
Say(piece) == stdout' = Append(stdout, piece)

\* The next line of stdin; exit ends the loop.
Take ==
  /\ At(job = None) /\ stdin # <<>>
  /\ stdin' = Tail(stdin)
  /\ IF Head(stdin).command = "exit"
       THEN process' = "closing" /\ code' = 0 /\ UNCHANGED job
       ELSE job' = Head(stdin) /\ UNCHANGED <<process, code>>
  /\ heat' = 0
  /\ UNCHANGED <<caller, stdout, buffer, stderr, half, stuck>>

\* Fault: one OVERHEATING line of the loop of wait_gpu_temperature is OK.
OverheatingOk ==
  /\ At(job # None) /\ heat < MaxHeat /\ ~half
  /\ Say(Piece("ok", job.call, TRUE)) /\ heat' = heat + 1
  /\ UNCHANGED <<caller, process, stdin, buffer, code, stderr, job, half, stuck>>

\* wait_gpu_temperature prints while the GPU is hot.
Overheating ==
  /\ At(job # None) /\ heat < MaxHeat /\ ~half
  /\ Say(Piece("heat", job.call, TRUE)) /\ heat' = heat + 1
  /\ UNCHANGED <<caller, process, stdin, buffer, code, stderr, job, half, stuck>>

\* A full pipe blocks whoever writes to it for ever.
ToStderr ==
  IF stderr < StderrCapacity THEN stderr' = stderr + 1 /\ UNCHANGED stuck
                             ELSE stuck' = TRUE /\ UNCHANGED stderr

Warn ==
  /\ At(job # None) /\ ~half /\ ToStderr
  /\ UNCHANGED <<caller, process, stdin, stdout, buffer, code, job, heat, half>>

\* report_ok; only the answer of a probe is longer than a pipe.
ReportHalf ==
  /\ At(job # None) /\ job.command = "probe" /\ ~half
  /\ Say(Piece("ok", job.call, FALSE)) /\ half' = TRUE
  /\ UNCHANGED <<caller, process, stdin, buffer, code, stderr, job, heat, stuck>>

ReportOk ==
  /\ At(job # None)
  /\ Say(Piece("ok", job.call, TRUE)) /\ job' = None /\ half' = FALSE
  /\ UNCHANGED <<caller, process, stdin, buffer, code, stderr, heat, stuck>>

\* report_error: the word on stdout, the message on stderr.
ReportError ==
  /\ At(job # None) /\ ~half
  /\ Say(Piece("error", job.call, TRUE)) /\ job' = None /\ ToStderr
  /\ UNCHANGED <<caller, process, stdin, buffer, code, heat, half>>

\* An exception of a command, a GPU fault or a signal.
Crash ==
  /\ process = "running"
  /\ process' = "closing" /\ code' = 1
  /\ UNCHANGED <<caller, stdin, stdout, buffer, stderr, job, heat, half, stuck>>

\* The pipes of an ending process are closed before poll() sees its end.
Reap ==
  /\ process = "closing"
  /\ process' = IF code = 0 THEN "exited" ELSE "crashed"
  /\ UNCHANGED <<caller, stdin, stdout, buffer, worker>>

-----------------------------------------------------------------------------
Init ==
  /\ pc = "idle" /\ command = "none" /\ call = 0 /\ result = <<>>
  /\ process = "none" /\ code = 0 /\ stdin = <<>> /\ stdout = <<>> /\ stderr = 0
  /\ buffer = <<>> /\ job = None /\ heat = 0 /\ half = FALSE /\ stuck = FALSE

Caller == Write \/ Poll \/ Read \/ Eof \/ Timeout \/ Reset \/ Join
Worker == Take \/ Overheating \/ Warn \/ ReportHalf \/ ReportOk \/ ReportError \/ Crash \/ Reap

Next == (\E c \in Commands \cup {"exit"} : Call(c)) \/ Caller \/ Worker

(* A deadline passes and the kernel reaps; the process owes nothing. *)
Spec == Init /\ [][Next]_vars /\ WF_vars(Caller) /\ WF_vars(Reap)

-----------------------------------------------------------------------------
\* An answer, good or bad, is taken for the call it answers: no line that comes
\* too late, was left in a buffer or lay behind an OVERHEATING line is taken
\* for the answer to the next command.
AnswerBelongs ==
  \A n \in DOMAIN result :
    result[n].kind \in {"OK", "NotOK", "ValueError"} => result[n].call = n

\* After a failure that readinfo saw the next call finds a new process.  A death
\* it did not see, behind an answer or at a clean exit, it never finds: write
\* keeps the dead process, and every later call fails like the first.
DeathsSeenOrFatal ==
  \A n \in DOMAIN result : result[n].kind = "BrokenPipe" =>
    /\ n > 1 /\ result[n - 1].kind # "OSError"
    /\ \A k \in (n + 1)..Len(result) : result[k].kind = "BrokenPipe"

\* Every call returns or raises, though the process may hang in a command, in a
\* write to stderr or after half an answer.
CallEnds == pc # "idle" ~> pc = "idle"
=============================================================================
