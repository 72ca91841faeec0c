--------------------------- MODULE WebConsoleProofs ---------------------------
(***************************************************************************)
(* The two components of the web console that have threads: the command it *)
(* runs (ActionTracker), and the office hours of the workers               *)
(* (WorkerScheduler).                                                      *)
(***************************************************************************)
EXTENDS ActionTracker, WorkerScheduler, FiniteSetTheorems, WellFoundedInduction, TLAPS

-----------------------------------------------------------------------------
(***************************************************************************)
(* A command, for buffers, pipes and streams of any size: the final status *)
(* agrees with the return code, and the stream of events shows every line  *)
(* once and in order.                                                      *)
(***************************************************************************)

Final == {"completed", "failed"}

Types ==
  /\ written \in [Streams -> Nat] /\ log \in [Streams -> Nat]
  /\ capture \in [Streams -> {"none", "read", "log", "done"}]
  /\ buffer \in [Streams -> Seq(Nat)]
  /\ stream \in [state : {"none", "open", "closed", "error"},
                 sent : [Streams -> Nat], seen : [Streams -> Seq(Nat)]]
  /\ DOMAIN process = {"state", "code", "held"}

\* How far the threads are when the status says so.
Places ==
  /\ status = "queued" => monitor = "none" /\ \A s \in Streams : capture[s] = "none"
  /\ status \in Final => monitor = "done"
  /\ monitor = "done" => status = IF returncode = 0 THEN "completed" ELSE "failed"

\* A capture thread that has ended has taken all there will ever be; a monitor
\* whose joins did not time out has seen it end.
Captured ==
  /\ \A s \in Streams : Taken(s) <= written[s]
  /\ \A s \in Streams : capture[s] = "done" =>
       process.state = "exited" /\ ~process.held /\ Taken(s) = written[s]
  /\ monitor = "stderr" /\ ~late => capture["stdout"] = "done"
  /\ monitor \in {"settle", "done"} /\ ~late => \A s \in Streams : capture[s] = "done"

\* A buffer that holds the last lines of the n taken.
LastOf(q, n) ==
  /\ Len(q) <= BufferSize /\ Len(q) <= n /\ (n <= BufferSize => Len(q) = n)
  /\ \A i \in 1..Len(q) : q[i] = n - Len(q) + i

\* What was sent by position in such a buffer.
SentOf(seen, sent, q, n) ==
  /\ sent <= Len(q)
  /\ \A i \in 1..(Len(seen) - 1) : seen[i] < seen[i + 1]
  /\ \A i \in 1..Len(seen) : seen[i] <= n - Len(q) + sent
  /\ n <= BufferSize => Len(seen) = sent /\ \A i \in 1..Len(seen) : seen[i] = i

Buffers == \A s \in Streams : LastOf(buffer[s], Taken(s))
Sent == \A s \in Streams : SentOf(stream.seen[s], stream.sent[s], buffer[s], Taken(s))

\* A stream closes on a final status only, with all it could show.
Closed ==
  stream.state = "closed" =>
    /\ status \in Final
    /\ ~late => \A s \in Streams : stream.sent[s] = Len(buffer[s])

TrackerInv == Types /\ Places /\ Captured /\ Buffers /\ Sent /\ Closed

-----------------------------------------------------------------------------
(* The two operations on sequences. *)

\* A line captured into a bounded deque leaves the last lines in it.
LEMMA AppendKeepsLast ==
  ASSUME NEW q \in Seq(Nat), NEW n \in Nat, LastOf(q, n)
  PROVE  /\ Append1000(q, n + 1) \in Seq(Nat)
         /\ LastOf(Append1000(q, n + 1), n + 1)
         /\ Len(Append1000(q, n + 1)) >= Len(q)
         /\ n + 1 - Len(Append1000(q, n + 1)) >= n - Len(q)
         /\ n + 1 <= BufferSize => n + 1 - Len(Append1000(q, n + 1)) = 0
<1> DEFINE all == Append(q, n + 1)
<1>1. all \in Seq(Nat) /\ Len(all) = Len(q) + 1 /\ all # <<>>
  OBVIOUS
<1>2. Len(q) \in Nat /\ Len(q) <= n /\ Len(q) <= BufferSize
  BY DEF LastOf
<1>3. \A i \in 1..Len(all) : all[i] = n - Len(q) + i
  <2> SUFFICES ASSUME NEW i \in 1..Len(all)
               PROVE  all[i] = n - Len(q) + i
    OBVIOUS
  <2>1. CASE i \in 1..Len(q)
    <3>1. all[i] = q[i]
      BY <2>1
    <3> QED
      BY <2>1, <3>1 DEF LastOf
  <2>2. CASE i \notin 1..Len(q)
    <3>1. i = Len(q) + 1
      BY <1>1, <1>2, <2>2
    <3>2. all[i] = n + 1
      BY <3>1
    <3> QED
      BY <1>2, <3>1, <3>2
  <2> QED
    BY <2>1, <2>2
<1>4. CASE Len(all) > BufferSize
  <2> DEFINE rest == Tail(all)
  <2>1. Append1000(q, n + 1) = rest
    BY <1>4 DEF Append1000
  <2>2. rest \in Seq(Nat) /\ Len(rest) = Len(q)
    BY <1>1
  <2>3. \A i \in 1..Len(rest) : rest[i] = all[i + 1]
    BY <1>1
  <2>4. Len(q) = BufferSize /\ n >= BufferSize
    BY <1>1, <1>2, <1>4, ActionTrackerAssumption
  <2> HIDE DEF all, rest
  <2>5. \A i \in 1..Len(rest) : rest[i] = n + 1 - Len(rest) + i
    <3> SUFFICES ASSUME NEW i \in 1..Len(rest)
                 PROVE  rest[i] = n + 1 - Len(rest) + i
      OBVIOUS
    <3>1. i + 1 \in 1..Len(all)
      BY <1>1, <1>2, <2>2
    <3>2. all[i + 1] = n - Len(q) + (i + 1)
      BY <1>3, <3>1
    <3> QED
      BY <1>2, <2>2, <2>3, <3>2
  <2>6. LastOf(rest, n + 1)
    BY <1>2, <2>2, <2>4, <2>5, ActionTrackerAssumption DEF LastOf
  <2> QED
    BY <1>2, <2>1, <2>2, <2>4, <2>6, ActionTrackerAssumption
<1>5. CASE ~(Len(all) > BufferSize)
  <2>1. Append1000(q, n + 1) = all
    BY <1>5 DEF Append1000
  <2>2. n <= BufferSize => Len(q) = n
    BY DEF LastOf
  <2>3. Len(q) < BufferSize
    BY <1>1, <1>2, <1>5, ActionTrackerAssumption
  <2> HIDE DEF all
  <2>4. \A i \in 1..Len(all) : all[i] = n + 1 - Len(all) + i
    <3> SUFFICES ASSUME NEW i \in 1..Len(all)
                 PROVE  all[i] = n + 1 - Len(all) + i
      OBVIOUS
    <3>1. all[i] = n - Len(q) + i
      BY <1>3
    <3> QED
      BY <1>1, <1>2, <3>1
  <2>5. /\ Len(all) <= BufferSize /\ Len(all) <= n + 1
        /\ n + 1 <= BufferSize => Len(all) = n + 1
    BY <1>1, <1>2, <2>2, <2>3, ActionTrackerAssumption
  <2>6. LastOf(all, n + 1)
    BY <2>4, <2>5 DEF LastOf
  <2> QED
    BY <1>1, <1>2, <2>1, <2>2, <2>3, <2>6, ActionTrackerAssumption
<1> QED
  BY <1>4, <1>5

\* What was sent stays right when a line is captured.
LEMMA AppendKeepsSent ==
  ASSUME NEW q \in Seq(Nat), NEW n \in Nat, LastOf(q, n),
         NEW seen \in Seq(Nat), NEW sent \in Nat, SentOf(seen, sent, q, n)
  PROVE  SentOf(seen, sent, Append1000(q, n + 1), n + 1)
<1> DEFINE r == Append1000(q, n + 1)
<1>1. /\ r \in Seq(Nat) /\ LastOf(r, n + 1) /\ Len(r) >= Len(q)
      /\ n + 1 - Len(r) >= n - Len(q)
  BY AppendKeepsLast
<1> HIDE DEF r
<1>2. Len(r) \in Nat /\ Len(q) \in Nat /\ Len(seen) \in Nat
  BY <1>1
<1>3. \A i \in 1..Len(seen) : seen[i] <= n + 1 - Len(r) + sent
  <2> SUFFICES ASSUME NEW i \in 1..Len(seen)
               PROVE  seen[i] <= n + 1 - Len(r) + sent
    OBVIOUS
  <2>1. seen[i] \in Nat /\ seen[i] <= n - Len(q) + sent
    BY DEF SentOf
  <2> QED
    BY <1>1, <1>2, <2>1
<1>4. sent <= Len(q)
  BY DEF SentOf
<1>5. \A i \in 1..(Len(seen) - 1) : seen[i] < seen[i + 1]
  BY DEF SentOf
<1>6. n + 1 <= BufferSize => Len(seen) = sent /\ \A i \in 1..Len(seen) : seen[i] = i
  <2>1. n + 1 <= BufferSize => n <= BufferSize
    BY ActionTrackerAssumption
  <2> QED
    BY <2>1 DEF SentOf
<1>7. sent <= Len(r)
  BY <1>1, <1>2, <1>4
<1>8. SentOf(seen, sent, r, n + 1)
  BY <1>3, <1>5, <1>6, <1>7 DEF SentOf
<1> QED
  BY <1>8 DEF r

\* The lines sent next follow those sent before.
LEMMA PollKeepsSent ==
  ASSUME NEW q \in Seq(Nat), NEW n \in Nat, LastOf(q, n),
         NEW seen \in Seq(Nat), NEW sent \in Nat, SentOf(seen, sent, q, n)
  PROVE  /\ seen \o SubSeq(q, sent + 1, Len(q)) \in Seq(Nat)
         /\ SentOf(seen \o SubSeq(q, sent + 1, Len(q)), Len(q), q, n)
<1> DEFINE new == SubSeq(q, sent + 1, Len(q))
           all == seen \o new
<1>1. sent <= Len(q) /\ Len(q) \in Nat /\ Len(seen) \in Nat /\ Len(q) <= n
  BY DEF SentOf, LastOf
<1>2. new \in Seq(Nat) /\ Len(new) = Len(q) - sent
      /\ \A i \in 1..Len(new) : new[i] = q[sent + i]
  BY <1>1
<1>3. \A i \in 1..Len(new) : new[i] = n - Len(q) + sent + i
  BY <1>1, <1>2 DEF LastOf
<1> HIDE DEF new
<1>a. new \in Seq(Nat) /\ Len(new) \in Nat
  BY <1>2
<1>4. all \in Seq(Nat) /\ Len(all) = Len(seen) + Len(new)
  BY <1>a
<1>5. \A i \in 1..Len(seen) : all[i] = seen[i]
  BY <1>2
<1>6. \A i \in (Len(seen) + 1)..Len(all) : all[i] = n - Len(q) + sent + (i - Len(seen))
  <2> SUFFICES ASSUME NEW i \in (Len(seen) + 1)..Len(all)
               PROVE  all[i] = n - Len(q) + sent + (i - Len(seen))
    OBVIOUS
  <2>1. i - Len(seen) \in 1..Len(new)
    <3> HIDE DEF all
    <3> QED
      BY <1>1, <1>a, <1>4
  <2>2. all[i] = new[i - Len(seen)]
    BY <1>a, <1>4
  <2>3. new[i - Len(seen)] = n - Len(q) + sent + (i - Len(seen))
    BY <1>3, <2>1
  <2> QED
    BY <2>2, <2>3
<1> HIDE DEF all
<1>7. \A i \in 1..Len(seen) : seen[i] <= n - Len(q) + sent
  BY DEF SentOf
<1>8. \A i \in 1..Len(all) : all[i] <= n - Len(q) + Len(q)
  <2> SUFFICES ASSUME NEW i \in 1..Len(all)
               PROVE  all[i] <= n - Len(q) + Len(q)
    OBVIOUS
  <2>1. CASE i \in 1..Len(seen)
    <3>1. seen[i] \in Nat /\ seen[i] <= n - Len(q) + sent /\ all[i] = seen[i]
      BY <1>5, <1>7, <2>1
    <3> QED
      BY <1>1, <3>1
  <2>2. CASE i \notin 1..Len(seen)
    <3>1. i \in (Len(seen) + 1)..Len(all)
      BY <1>1, <1>2, <1>4, <2>2
    <3>2. all[i] = n - Len(q) + sent + (i - Len(seen))
      BY <1>6, <3>1
    <3>3. i - Len(seen) <= Len(q) - sent
      BY <1>1, <1>2, <1>4, <1>a, <3>1
    <3> QED
      BY <1>1, <1>4, <1>a, <3>2, <3>3
  <2> QED
    BY <2>1, <2>2
<1>9. \A i \in 1..(Len(all) - 1) : all[i] < all[i + 1]
  <2> SUFFICES ASSUME NEW i \in 1..(Len(all) - 1)
               PROVE  all[i] < all[i + 1]
    OBVIOUS
  <2>1. CASE i \in 1..(Len(seen) - 1)
    <3>1. i \in 1..Len(seen) /\ i + 1 \in 1..Len(seen)
      BY <1>1, <2>1
    <3>2. all[i] = seen[i] /\ all[i + 1] = seen[i + 1]
      BY <1>5, <3>1
    <3> QED
      BY <2>1, <3>2 DEF SentOf
  <2>2. CASE i = Len(seen)
    <3>1. i \in 1..Len(seen) /\ i + 1 \in (Len(seen) + 1)..Len(all)
      BY <1>1, <1>2, <1>4, <2>2
    <3>2. all[i] = seen[i] /\ seen[i] \in Nat /\ seen[i] <= n - Len(q) + sent
      BY <1>5, <1>7, <3>1
    <3>3. all[i + 1] = n - Len(q) + sent + 1
      BY <1>1, <1>6, <2>2, <3>1
    <3> QED
      BY <1>1, <3>2, <3>3
  <2>3. CASE i > Len(seen)
    <3> Len(all) \in Nat
      BY <1>4
    <3>1. i \in (Len(seen) + 1)..Len(all) /\ i + 1 \in (Len(seen) + 1)..Len(all)
      BY <1>1, <2>3
    <3>2. all[i] = n - Len(q) + sent + (i - Len(seen))
      BY <1>6, <3>1
    <3>3. all[i + 1] = n - Len(q) + sent + (i + 1 - Len(seen))
      BY <1>6, <3>1
    <3>4. i \in Nat
      BY <1>1, <2>3
    <3> QED
      BY <1>1, <3>2, <3>3, <3>4
  <2>4. Len(all) \in Nat
    BY <1>4
  <2> QED
    BY <1>1, <2>1, <2>2, <2>3, <2>4
<1>10. ASSUME n <= BufferSize
       PROVE  Len(all) = Len(q) /\ \A i \in 1..Len(all) : all[i] = i
  <2>1. Len(seen) = sent /\ (\A i \in 1..Len(seen) : seen[i] = i) /\ Len(q) = n
    BY <1>10 DEF SentOf, LastOf
  <2>2. Len(all) = Len(q)
    BY <1>1, <1>2, <1>4, <2>1
  <2> SUFFICES ASSUME NEW i \in 1..Len(all)
               PROVE  all[i] = i
    BY <2>2
  <2>3. CASE i \in 1..Len(seen)
    BY <1>5, <2>1, <2>3
  <2>4. CASE i \notin 1..Len(seen)
    <3>1. i \in (Len(seen) + 1)..Len(all)
      BY <1>1, <1>2, <1>4, <2>4
    <3> QED
      BY <1>1, <1>6, <2>1, <3>1
  <2> QED
    BY <2>3, <2>4
<1>11. SentOf(all, Len(q), q, n)
  BY <1>1, <1>8, <1>9, <1>10 DEF SentOf
<1> QED
  BY <1>4, <1>11 DEF all, new

-----------------------------------------------------------------------------
(* Which steps move what. *)

\* Lines taken: only a capture thread takes one, and it appends it.
LEMMA TakenMoves ==
  ASSUME TrackerInv, [TrackerNext]_trackerVars, NEW s \in Streams
  PROVE  \/ /\ Taken(s)' = Taken(s) /\ buffer'[s] = buffer[s]
            /\ capture[s] = "done" => capture'[s] = "done"
         \/ /\ Capture(s)
            /\ Taken(s)' = Taken(s) + 1 /\ buffer'[s] = Append1000(buffer[s], Taken(s) + 1)
<1> USE DEF TrackerInv, Types
<1>1. CASE start
  <2>1. capture[s] = "none"
    BY <1>1 DEF start, Places
  <2>2. capture'[s] # "log" /\ log' = log /\ buffer' = buffer
    BY <1>1, <2>1 DEF start
  <2> QED
    BY <2>1, <2>2 DEF Taken
<1>2. ASSUME NEW r \in Streams, Capture(r)
      PROVE  \/ /\ Taken(s)' = Taken(s) /\ buffer'[s] = buffer[s]
                /\ capture[s] = "done" => capture'[s] = "done"
             \/ /\ Capture(s)
                /\ Taken(s)' = Taken(s) + 1 /\ buffer'[s] = Append1000(buffer[s], Taken(s) + 1)
  <2>1. /\ capture[r] = "read" /\ log' = log
        /\ capture' = [capture EXCEPT ![r] = "log"]
        /\ buffer' = [buffer EXCEPT ![r] = Append1000(@, Taken(r) + 1)]
    BY <1>2 DEF Capture
  <2>2. CASE r = s
    <3>1. Taken(s) = log[s] /\ Taken(s)' = log[s] + 1
      BY <2>1, <2>2 DEF Taken
    <3>2. buffer'[s] = Append1000(buffer[s], Taken(s) + 1)
      BY <2>1, <2>2
    <3> QED
      BY <1>2, <2>2, <3>1, <3>2
  <2>3. CASE r # s
    <3>1. capture'[s] = capture[s] /\ buffer'[s] = buffer[s]
      BY <2>1, <2>3
    <3> QED
      BY <2>1, <3>1 DEF Taken
  <2> QED
    BY <2>2, <2>3
<1>3. ASSUME NEW r \in Streams, Log(r)
      PROVE  /\ Taken(s)' = Taken(s) /\ buffer'[s] = buffer[s]
             /\ capture[s] = "done" => capture'[s] = "done"
  BY <1>3 DEF Log, Taken
<1>4. ASSUME NEW r \in Streams, EndOfFile(r)
      PROVE  /\ Taken(s)' = Taken(s) /\ buffer'[s] = buffer[s]
             /\ capture[s] = "done" => capture'[s] = "done"
  BY <1>4 DEF EndOfFile, Taken
<1>5. CASE Environment \/ Monitor \/ kill \/ remove \/ Connect \/ Poll \/ UNCHANGED trackerVars
  <2>1. UNCHANGED <<capture, log, buffer>>
    BY <1>5 DEF Environment, ProcessExits, DescendantEnds, WriteLine, Monitor, MonitorWait,
                Settle, Join, kill, remove, Connect, Poll, trackerVars
  <2> QED
    BY <2>1 DEF Taken
<1>6. CASE \E r \in Streams : CaptureThread(r)
  <2>1. PICK r \in Streams : Capture(r) \/ Log(r) \/ EndOfFile(r)
    BY <1>6 DEF CaptureThread
  <2>2. CASE Capture(r)
    BY <1>2, <2>2
  <2>3. CASE Log(r)
    BY <1>3, <2>3
  <2>4. CASE EndOfFile(r)
    BY <1>4, <2>4
  <2> QED
    BY <2>1, <2>2, <2>3, <2>4
<1>7. \/ start \/ \E r \in Streams : CaptureThread(r)
      \/ Environment \/ Monitor \/ kill \/ remove \/ Connect \/ Poll \/ UNCHANGED trackerVars
  BY DEF TrackerNext, Requests
<1> QED
  BY <1>1, <1>5, <1>6, <1>7

\* The status and the monitor.
LEMMA PlacesKept ==
  ASSUME TrackerInv, [TrackerNext]_trackerVars
  PROVE  Places' /\ (status \in Final => status' = status)
<1>1. Places
  BY DEF TrackerInv
<1>2. CASE start
  BY <1>1, <1>2 DEF start, Places, Final
<1>3. CASE kill
  <2>1. monitor' = monitor /\ status = "running" /\ status' = "killed"
    BY <1>3 DEF kill
  <2>2. monitor # "done"
    BY <1>1, <2>1 DEF Places
  <2> QED
    BY <2>1, <2>2 DEF Places, Final
<1>4. CASE Monitor
  <2>1. CASE MonitorWait \/ \E s \in Streams : Join(s)
    <3>1. UNCHANGED status /\ monitor \notin {"none", "done"} /\ monitor' # "done"
      BY <2>1 DEF MonitorWait, Join, Streams, tracker
    <3> QED
      BY <1>1, <3>1 DEF Places, Final
  <2>2. CASE Settle
    BY <1>1, <2>2 DEF Settle, Places, Final
  <2> QED
    BY <1>4, <2>1, <2>2 DEF Monitor
<1>5. CASE \E s \in Streams : CaptureThread(s)
  <2>1. PICK s \in Streams : CaptureThread(s)
    BY <1>5
  <2>2. UNCHANGED <<status, returncode, monitor>> /\ capture[s] # "none"
    BY <2>1 DEF CaptureThread, Capture, Log, EndOfFile, tracker
  <2> QED
    BY <1>1, <2>2 DEF Places
<1>6. CASE Environment \/ remove \/ Connect \/ Poll \/ UNCHANGED trackerVars
  <2>1. UNCHANGED <<status, returncode, monitor, capture>>
    BY <1>6 DEF Environment, ProcessExits, DescendantEnds, WriteLine, remove, Connect, Poll,
                trackerVars, tracker
  <2> QED
    BY <1>1, <2>1 DEF Places
<1> QED
  BY <1>2, <1>3, <1>4, <1>5, <1>6 DEF TrackerNext, Requests

\* The steps that change each variable.
LEMMA Frames ==
  ASSUME [TrackerNext]_trackerVars
  PROVE  /\ written' = written \/ \E s \in Streams : WriteLine(s)
         /\ log' = log \/ \E s \in Streams : Log(s)
         /\ buffer' = buffer \/ \E s \in Streams : Capture(s)
         /\ capture' = capture \/ start \/ \E s \in Streams : CaptureThread(s)
         /\ stream' = stream \/ Connect \/ Poll
         /\ process' = process \/ start \/ kill \/ ProcessExits \/ DescendantEnds
         /\ monitor' = monitor \/ start \/ Monitor
         /\ late' = late \/ \E s \in Streams : Join(s)
<1>1. written' = written \/ \E s \in Streams : WriteLine(s)
  BY DEF TrackerNext, Requests, Environment, CaptureThread, Monitor, trackerVars, start, kill, remove,
         Connect, Poll, ProcessExits, DescendantEnds, Capture, Log, EndOfFile, MonitorWait,
         Settle, Join
<1>2. log' = log \/ \E s \in Streams : Log(s)
  BY DEF TrackerNext, Requests, Environment, CaptureThread, Monitor, trackerVars, start, kill, remove,
         Connect, Poll, ProcessExits, DescendantEnds, WriteLine, Capture, EndOfFile,
         MonitorWait, Settle, Join
<1>3. buffer' = buffer \/ \E s \in Streams : Capture(s)
  BY DEF TrackerNext, Requests, Environment, CaptureThread, Monitor, trackerVars, start, kill, remove,
         Connect, Poll, ProcessExits, DescendantEnds, WriteLine, Log, EndOfFile,
         MonitorWait, Settle, Join
<1>4. capture' = capture \/ start \/ \E s \in Streams : CaptureThread(s)
  BY DEF TrackerNext, Requests, Environment, Monitor, trackerVars, kill, remove, Connect,
         Poll, ProcessExits, DescendantEnds, WriteLine, MonitorWait, Settle, Join
<1>5. stream' = stream \/ Connect \/ Poll
  BY DEF TrackerNext, Requests, Environment, CaptureThread, Monitor, trackerVars, start, kill, remove,
         ProcessExits, DescendantEnds, WriteLine, Capture, Log, EndOfFile, MonitorWait,
         Settle, Join
<1>6. process' = process \/ start \/ kill \/ ProcessExits \/ DescendantEnds
  BY DEF TrackerNext, Requests, Environment, CaptureThread, Monitor, trackerVars, remove, Connect, Poll,
         WriteLine, Capture, Log, EndOfFile, MonitorWait, Settle, Join
<1>7. monitor' = monitor \/ start \/ Monitor
  BY DEF TrackerNext, Requests, Environment, CaptureThread, trackerVars, kill, remove, Connect,
         Poll, ProcessExits, DescendantEnds, WriteLine, Capture, Log, EndOfFile
<1>8. late' = late \/ \E s \in Streams : Join(s)
  BY DEF TrackerNext, Requests, Environment, CaptureThread, Monitor, trackerVars, start, kill, remove,
         Connect, Poll, ProcessExits, DescendantEnds, WriteLine, Capture, Log, EndOfFile,
         MonitorWait, Settle
<1> QED
  BY <1>1, <1>2, <1>3, <1>4, <1>5, <1>6, <1>7, <1>8

\* What the invariant says of one stream.
LEMMA TypedParts ==
  ASSUME TrackerInv, NEW s \in Streams
  PROVE  /\ written[s] \in Nat /\ Taken(s) \in Nat /\ buffer[s] \in Seq(Nat)
         /\ Len(buffer[s]) \in Nat
         /\ stream.seen[s] \in Seq(Nat) /\ stream.sent[s] \in Nat
         /\ LastOf(buffer[s], Taken(s))
         /\ SentOf(stream.seen[s], stream.sent[s], buffer[s], Taken(s))
<1>1. Types /\ Buffers /\ Sent
  BY DEF TrackerInv
<1>2. written[s] \in Nat /\ log[s] \in Nat /\ buffer[s] \in Seq(Nat)
  BY <1>1 DEF Types
<1>3. stream.seen[s] \in Seq(Nat) /\ stream.sent[s] \in Nat
  BY <1>1 DEF Types
<1>4. Taken(s) \in Nat /\ Len(buffer[s]) \in Nat
  BY <1>2 DEF Taken
<1> QED
  BY <1>1, <1>2, <1>3, <1>4 DEF Buffers, Sent

-----------------------------------------------------------------------------
LEMMA TypesKept ==
  ASSUME TrackerInv, [TrackerNext]_trackerVars
  PROVE  Types'
<1>1. written' \in [Streams -> Nat]
  <2>1. written \in [Streams -> Nat]
    BY DEF TrackerInv, Types
  <2>2. ASSUME NEW s \in Streams, WriteLine(s)
        PROVE  written' \in [Streams -> Nat]
    <3>1. written' = [written EXCEPT ![s] = @ + 1]
      BY <2>2 DEF WriteLine
    <3> QED
      BY <2>1, <3>1
  <2> QED
    BY <2>1, <2>2, Frames
<1>2. log' \in [Streams -> Nat]
  <2>1. log \in [Streams -> Nat]
    BY DEF TrackerInv, Types
  <2>2. ASSUME NEW s \in Streams, Log(s)
        PROVE  log' \in [Streams -> Nat]
    <3>1. log' = [log EXCEPT ![s] = @ + 1]
      BY <2>2 DEF Log
    <3> QED
      BY <2>1, <3>1
  <2> QED
    BY <2>1, <2>2, Frames
<1>3. capture' \in [Streams -> {"none", "read", "log", "done"}]
  <2>1. capture \in [Streams -> {"none", "read", "log", "done"}]
    BY DEF TrackerInv, Types
  <2>2. CASE start
    BY <2>1, <2>2 DEF start
  <2>3. ASSUME NEW s \in Streams, CaptureThread(s)
        PROVE  capture' \in [Streams -> {"none", "read", "log", "done"}]
    BY <2>1, <2>3 DEF CaptureThread, Capture, Log, EndOfFile
  <2> QED
    BY <2>1, <2>2, <2>3, Frames
<1>4. DOMAIN process' = {"state", "code", "held"}
  <2>1. DOMAIN process = {"state", "code", "held"}
    BY DEF TrackerInv, Types
  <2>2. CASE start
    BY <2>1, <2>2 DEF start
  <2>3. CASE kill
    BY <2>1, <2>3 DEF kill, Ends
  <2>4. CASE ProcessExits
    BY <2>4 DEF ProcessExits, Ends
  <2>5. CASE DescendantEnds
    BY <2>1, <2>5 DEF DescendantEnds
  <2> QED
    BY <2>1, <2>2, <2>3, <2>4, <2>5, Frames
<1>5. buffer' \in [Streams -> Seq(Nat)]
  <2>1. buffer \in [Streams -> Seq(Nat)]
    BY DEF TrackerInv, Types
  <2>2. ASSUME NEW s \in Streams, Capture(s)
        PROVE  buffer' \in [Streams -> Seq(Nat)]
    <3>1. buffer[s] \in Seq(Nat) /\ Taken(s) \in Nat /\ LastOf(buffer[s], Taken(s))
      BY TypedParts
    <3>2. Append1000(buffer[s], Taken(s) + 1) \in Seq(Nat)
      BY <3>1, AppendKeepsLast
    <3>3. buffer' = [buffer EXCEPT ![s] = Append1000(@, Taken(s) + 1)]
      BY <2>2 DEF Capture
    <3> QED
      BY <2>1, <3>2, <3>3
  <2> QED
    BY <2>1, <2>2, Frames
<1>6. stream' \in [state : {"none", "open", "closed", "error"},
                   sent : [Streams -> Nat], seen : [Streams -> Seq(Nat)]]
  <2>1. stream \in [state : {"none", "open", "closed", "error"},
                    sent : [Streams -> Nat], seen : [Streams -> Seq(Nat)]]
    BY DEF TrackerInv, Types
  <2>2. CASE Poll
    <3>1. ASSUME NEW s \in Streams
          PROVE  /\ Len(buffer[s]) \in Nat
                 /\ stream.seen[s] \o SubSeq(buffer[s], stream.sent[s] + 1, Len(buffer[s]))
                      \in Seq(Nat)
      BY TypedParts, PollKeepsSent
    <3> QED
      BY <2>2, <3>1 DEF Poll
  <2>3. CASE Connect
    BY <2>1, <2>3 DEF Connect
  <2> QED
    BY <2>1, <2>2, <2>3, Frames
<1> QED
  BY <1>1, <1>2, <1>3, <1>4, <1>5, <1>6 DEF Types

\* A thread that has ended has ended, and a join that timed out has timed out.
LEMMA DoneStays ==
  ASSUME TrackerInv, [TrackerNext]_trackerVars
  PROVE  /\ late => late'
         /\ \A s \in Streams : capture[s] = "done" =>
              capture'[s] = "done" /\ Taken(s)' = Taken(s) /\ buffer'[s] = buffer[s]
<1>1. late => late'
  BY Frames DEF Join
<1>2. ASSUME NEW s \in Streams, capture[s] = "done"
      PROVE  capture'[s] = "done" /\ Taken(s)' = Taken(s) /\ buffer'[s] = buffer[s]
  <2>1. ~Capture(s)
    BY <1>2 DEF Capture
  <2> QED
    BY <1>2, <2>1, TakenMoves
<1> QED
  BY <1>1, <1>2

\* After the end of file nothing writes: neither the process nor a descendant.
LEMMA EndedStays ==
  ASSUME TrackerInv, [TrackerNext]_trackerVars, NEW s \in Streams, capture[s] = "done"
  PROVE  process' = process /\ written' = written
<1>1. /\ process.state = "exited" /\ ~process.held
      /\ status = "queued" => capture[s] = "none"
  BY DEF TrackerInv, Captured, Places
<1>2. ~start
  BY <1>1 DEF start
<1>3. process' = process
  <2>1. ~ProcessExits /\ ~DescendantEnds
    BY <1>1 DEF ProcessExits, DescendantEnds
  <2>2. kill => process' = process
    BY <1>1 DEF kill
  <2> QED
    BY <1>2, <2>1, <2>2, Frames
<1>4. written' = written
  <2>1. \A r \in Streams : ~WriteLine(r)
    BY <1>1 DEF WriteLine
  <2> QED
    BY <2>1, Frames
<1> QED
  BY <1>3, <1>4

LEMMA CapturedKept ==
  ASSUME TrackerInv, [TrackerNext]_trackerVars
  PROVE  Captured'
<1>1. ASSUME NEW s \in Streams
      PROVE  Taken(s)' <= written'[s]
  <2>1. /\ Taken(s) <= written[s] /\ Taken(s) \in Nat /\ written[s] \in Nat
        /\ written \in [Streams -> Nat]
    BY TypedParts DEF TrackerInv, Captured, Types
  <2>2. written[s] <= written'[s] /\ written'[s] \in Nat
    <3>1. ASSUME NEW r \in Streams, WriteLine(r)
          PROVE  written[s] <= written'[s] /\ written'[s] \in Nat
      <4>1. written' = [written EXCEPT ![r] = @ + 1]
        BY <3>1 DEF WriteLine
      <4> QED
        BY <2>1, <4>1
    <3> QED
      BY <2>1, <3>1, Frames
  <2>3. CASE Taken(s)' = Taken(s)
    BY <2>1, <2>2, <2>3
  <2>4. CASE Capture(s) /\ Taken(s)' = Taken(s) + 1
    <3>1. Taken(s) < written[s]
      BY <2>4 DEF Capture
    <3> QED
      BY <2>1, <2>2, <2>4, <3>1
  <2> QED
    BY <2>3, <2>4, TakenMoves
<1>2. ASSUME NEW s \in Streams, capture'[s] = "done"
      PROVE  process'.state = "exited" /\ ~process'.held /\ Taken(s)' = written'[s]
  <2>1. CASE capture[s] = "done"
    <3>1. process.state = "exited" /\ ~process.held /\ Taken(s) = written[s]
      BY <2>1 DEF TrackerInv, Captured
    <3>2. process' = process /\ written' = written /\ Taken(s)' = Taken(s)
      BY <2>1, EndedStays, DoneStays
    <3> QED
      BY <3>1, <3>2
  <2>2. CASE capture[s] # "done"
    <3>1. capture \in [Streams -> {"none", "read", "log", "done"}]
      BY DEF TrackerInv, Types
    <3>2. ~start
      BY <1>2, <2>2 DEF start
    <3>3. PICK r \in Streams : CaptureThread(r)
      BY <1>2, <2>2, <3>2, Frames
    <3>4. EndOfFile(s)
      BY <1>2, <2>2, <3>1, <3>3 DEF CaptureThread, Capture, Log, EndOfFile
    <3>5. /\ capture[s] = "read" /\ Taken(s) = written[s]
          /\ process.state = "exited" /\ ~process.held
          /\ UNCHANGED <<process, written, log>>
      BY <3>4 DEF EndOfFile
    <3>6. Taken(s)' = Taken(s)
      BY <1>2, <3>5 DEF Taken
    <3> QED
      BY <3>5, <3>6
  <2> QED
    BY <2>1, <2>2
<1>3. ASSUME monitor' = "stderr", ~late'
      PROVE  capture'["stdout"] = "done"
  <2>1. "stdout" \in Streams /\ ~late
    BY <1>3, DoneStays DEF Streams
  <2>2. capture["stdout"] = "done"
    <3>1. CASE monitor = "stderr"
      BY <2>1, <3>1 DEF TrackerInv, Captured
    <3>2. CASE monitor # "stderr"
      <4>1. Monitor
        BY <1>3, <3>2, Frames DEF start
      <4>2. PICK s \in Streams : Join(s)
        BY <1>3, <3>2, <4>1 DEF Monitor, MonitorWait, Settle
      <4>3. s = "stdout"
        BY <1>3, <4>2 DEF Join
      <4> QED
        BY <1>3, <4>2, <4>3 DEF Join
    <3> QED
      BY <3>1, <3>2
  <2> QED
    BY <2>1, <2>2, DoneStays
<1>4. ASSUME monitor' \in {"settle", "done"}, ~late', NEW r \in Streams
      PROVE  capture'[r] = "done"
  <2>1. ~late
    BY <1>4, DoneStays
  <2>2. CASE monitor \in {"settle", "done"}
    <3>1. capture[r] = "done"
      BY <2>1, <2>2 DEF TrackerInv, Captured
    <3> QED
      BY <3>1, DoneStays
  <2>3. CASE monitor \notin {"settle", "done"}
    <3>1. Monitor
      BY <1>4, <2>3, Frames DEF start
    <3>2. PICK s \in Streams : Join(s)
      BY <1>4, <2>3, <3>1 DEF Monitor, MonitorWait, Settle
    <3>3. s = "stderr" /\ monitor = "stderr"
      BY <1>4, <3>2 DEF Join, Streams
    <3>4. capture["stderr"] = "done"
      BY <1>4, <3>2, <3>3 DEF Join
    <3>5. capture["stdout"] = "done"
      BY <2>1, <3>3 DEF TrackerInv, Captured
    <3>6. capture[r] = "done"
      BY <3>4, <3>5 DEF Streams
    <3> QED
      BY <3>6, DoneStays
  <2> QED
    BY <2>2, <2>3
<1> QED
  BY <1>1, <1>2, <1>3, <1>4 DEF Captured

LEMMA BuffersKept ==
  ASSUME TrackerInv, [TrackerNext]_trackerVars
  PROVE  Buffers'
<1>1. ASSUME NEW s \in Streams
      PROVE  LastOf(buffer'[s], Taken(s)')
  <2>1. CASE Taken(s)' = Taken(s) /\ buffer'[s] = buffer[s]
    BY <2>1, TypedParts
  <2>2. CASE Taken(s)' = Taken(s) + 1 /\ buffer'[s] = Append1000(buffer[s], Taken(s) + 1)
    BY <2>2, TypedParts, AppendKeepsLast
  <2> QED
    BY <2>1, <2>2, TakenMoves
<1> QED
  BY <1>1 DEF Buffers, LastOf

LEMMA SentKept ==
  ASSUME TrackerInv, [TrackerNext]_trackerVars
  PROVE  Sent'
<1>1. ASSUME NEW s \in Streams
      PROVE  SentOf(stream'.seen[s], stream'.sent[s], buffer'[s], Taken(s)')
  <2>1. CASE Poll
    <3>1. /\ stream'.sent[s] = Len(buffer[s])
          /\ stream'.seen[s] = stream.seen[s]
               \o SubSeq(buffer[s], stream.sent[s] + 1, Len(buffer[s]))
      BY <2>1 DEF Poll
    <3>2. buffer' = buffer /\ Taken(s)' = Taken(s)
      BY <2>1 DEF Poll, Taken
    <3> QED
      BY <3>1, <3>2, TypedParts, PollKeepsSent
  <2>2. CASE stream'.sent = stream.sent /\ stream'.seen = stream.seen
    <3>1. CASE Taken(s)' = Taken(s) /\ buffer'[s] = buffer[s]
      BY <2>2, <3>1, TypedParts
    <3>2. CASE Taken(s)' = Taken(s) + 1 /\ buffer'[s] = Append1000(buffer[s], Taken(s) + 1)
      BY <2>2, <3>2, TypedParts, AppendKeepsSent
    <3> QED
      BY <3>1, <3>2, TakenMoves
  <2>3. CASE Connect
    <3>1. stream \in [state : {"none", "open", "closed", "error"},
                      sent : [Streams -> Nat], seen : [Streams -> Seq(Nat)]]
      BY DEF TrackerInv, Types
    <3>2. stream'.sent = stream.sent /\ stream'.seen = stream.seen
      BY <2>3, <3>1 DEF Connect
    <3> QED
      BY <2>2, <3>2
  <2> QED
    BY <2>1, <2>2, <2>3, Frames
<1> QED
  BY <1>1 DEF Sent, SentOf

LEMMA ClosedKept ==
  ASSUME TrackerInv, [TrackerNext]_trackerVars
  PROVE  Closed'
<1> SUFFICES ASSUME stream'.state = "closed"
             PROVE  /\ status' \in Final
                    /\ ~late' => \A s \in Streams : stream'.sent[s] = Len(buffer'[s])
  BY DEF Closed
<1>1. CASE Poll
  <2>1. status \in Final /\ status' = status /\ buffer' = buffer
    BY <1>1 DEF Poll, Final, tracker
  <2>2. \A s \in Streams : stream'.sent[s] = Len(buffer[s])
    BY <1>1 DEF Poll
  <2> QED
    BY <2>1, <2>2
<1>2. CASE stream' = stream
  <2>1. status \in Final /\ status' = status
    BY <1>2, PlacesKept DEF TrackerInv, Closed
  <2>2. ASSUME ~late', NEW s \in Streams
        PROVE  stream'.sent[s] = Len(buffer'[s])
    <3>1. ~late
      BY <2>2, DoneStays
    <3>2. monitor = "done"
      BY <2>1 DEF TrackerInv, Places
    <3>3. capture[s] = "done"
      BY <3>1, <3>2 DEF TrackerInv, Captured
    <3>4. stream.sent[s] = Len(buffer[s])
      BY <1>2, <3>1 DEF TrackerInv, Closed
    <3> QED
      BY <1>2, <3>3, <3>4, DoneStays
  <2> QED
    BY <2>1, <2>2
<1>3. CASE Connect
  <2>1. stream \in [state : {"none", "open", "closed", "error"},
                    sent : [Streams -> Nat], seen : [Streams -> Seq(Nat)]]
    BY DEF TrackerInv, Types
  <2> QED
    BY <1>3, <2>1 DEF Connect
<1> QED
  BY <1>1, <1>2, <1>3, Frames

-----------------------------------------------------------------------------
LEMMA TrackerInvInit == TrackerInit => TrackerInv
<1> SUFFICES ASSUME TrackerInit
             PROVE  TrackerInv
  OBVIOUS
<1>1. Types
  BY DEF TrackerInit, Types
<1>2. Places
  BY DEF TrackerInit, Places, Final
<1>3. \A s \in Streams : Taken(s) = 0
  BY DEF TrackerInit, Taken
<1>4. Captured
  BY <1>3 DEF TrackerInit, Captured
<1>5. Buffers
  BY <1>3, ActionTrackerAssumption DEF TrackerInit, Buffers, LastOf
<1>6. Sent
  BY <1>3, ActionTrackerAssumption DEF TrackerInit, Sent, SentOf
<1>7. Closed
  BY DEF TrackerInit, Closed
<1> QED
  BY <1>1, <1>2, <1>4, <1>5, <1>6, <1>7 DEF TrackerInv

LEMMA TrackerInvStep == TrackerInv /\ [TrackerNext]_trackerVars => TrackerInv'
  BY TypesKept, PlacesKept, CapturedKept, BuffersKept, SentKept, ClosedKept DEF TrackerInv

LEMMA TrackerInvHolds == TrackerSpec => []TrackerInv
  BY TrackerInvInit, TrackerInvStep, PTL DEF TrackerSpec

\* When the monitor is done the status and the return code of the action say
\* the same, in whatever order kill() and _monitor_completion wrote them.
THEOREM StatusAgrees == TrackerSpec => []FinalAgrees
<1>1. TrackerInv => FinalAgrees
  BY DEF TrackerInv, Places, FinalAgrees
<1> QED
  BY <1>1, TrackerInvHolds, PTL

\* stream_output shows lines in order and none twice; without a gap while the
\* deque has dropped none; and all of them once it has closed, if the joins of
\* _monitor_completion did not time out.
THEOREM StreamComplete == TrackerSpec => []EverythingSeen
<1>1. ASSUME TrackerInv
      PROVE  EverythingSeen
  <2> SUFFICES ASSUME NEW s \in Streams
               PROVE  /\ \A i \in 1..(Len(stream.seen[s]) - 1) :
                           stream.seen[s][i] < stream.seen[s][i + 1]
                      /\ written[s] <= BufferSize
                           => IsPrefixUpTo(stream.seen[s], written[s])
                      /\ stream.state = "closed" /\ ~late /\ written[s] <= BufferSize
                           => Len(stream.seen[s]) = written[s]
    BY DEF EverythingSeen
  <2>1. /\ LastOf(buffer[s], Taken(s))
        /\ SentOf(stream.seen[s], stream.sent[s], buffer[s], Taken(s))
        /\ written[s] \in Nat /\ Taken(s) \in Nat /\ Len(buffer[s]) \in Nat
        /\ stream.sent[s] \in Nat
    BY <1>1, TypedParts
  <2>2. Taken(s) <= written[s]
    BY <1>1 DEF TrackerInv, Captured
  <2>3. written[s] <= BufferSize => Taken(s) <= BufferSize
    BY <2>1, <2>2, ActionTrackerAssumption
  <2>4. \A i \in 1..(Len(stream.seen[s]) - 1) : stream.seen[s][i] < stream.seen[s][i + 1]
    BY <2>1 DEF SentOf
  <2>5. ASSUME written[s] <= BufferSize
        PROVE  /\ IsPrefixUpTo(stream.seen[s], written[s])
               /\ Len(stream.seen[s]) = stream.sent[s] /\ Len(buffer[s]) = Taken(s)
    <3>1. /\ Len(stream.seen[s]) = stream.sent[s]
          /\ \A i \in 1..Len(stream.seen[s]) : stream.seen[s][i] = i
      BY <2>1, <2>3, <2>5 DEF SentOf
    <3>2. stream.sent[s] <= Len(buffer[s]) /\ Len(buffer[s]) = Taken(s)
      BY <2>1, <2>3, <2>5 DEF SentOf, LastOf
    <3>3. Len(stream.seen[s]) <= written[s]
      BY <2>1, <2>2, <3>1, <3>2
    <3> QED
      BY <3>1, <3>2, <3>3 DEF IsPrefixUpTo
  <2>6. ASSUME stream.state = "closed", ~late, written[s] <= BufferSize
        PROVE  Len(stream.seen[s]) = written[s]
    <3>1. status \in Final /\ stream.sent[s] = Len(buffer[s])
      BY <1>1, <2>6 DEF TrackerInv, Closed
    <3>2. monitor = "done"
      BY <1>1, <3>1 DEF TrackerInv, Places
    <3>3. capture[s] = "done"
      BY <1>1, <2>6, <3>2 DEF TrackerInv, Captured
    <3>4. Taken(s) = written[s]
      BY <1>1, <3>3 DEF TrackerInv, Captured
    <3> QED
      BY <2>5, <2>6, <3>1, <3>4
  <2> QED
    BY <2>4, <2>5, <2>6
<1> QED
  BY <1>1, TrackerInvHolds, PTL

-----------------------------------------------------------------------------
(***************************************************************************)
(* The timers of the office hours, for any number of hosts and of threads, *)
(* any schedules and any length of the day and the week: a host has one    *)
(* timer, keeps one once it is armed, and its worker runs just when its    *)
(* schedule allows it.  The first two rest on which timer objects the      *)
(* dictionary, the threads and the running timers know (Identified): the   *)
(* timer that Arm cancels is one of its own host, and the only one.  The   *)
(* last rests on what a timer meets (OnTarget) and what does not happen    *)
(* before it fires (Lasts), and on which of a host's transitions are late. *)
(***************************************************************************)
-----------------------------------------------------------------------------
(* The calendar: a week is like any other.                                 *)

Week == TicksPerDay * Days

LEMMA ProductNat == ASSUME NEW a \in Nat, NEW b \in Nat PROVE a * b \in Nat
  OBVIOUS

LEMMA DivFloor ==
  ASSUME NEW x \in Nat, NEW d \in Nat \ {0}
  PROVE  /\ x \div d \in Nat /\ x % d \in 0..(d - 1)
         /\ x = (x \div d) * d + (x % d)
  OBVIOUS

LEMMA DivUnique ==
  ASSUME NEW q \in Nat, NEW d \in Nat \ {0}, NEW r \in 0..(d - 1)
  PROVE  (q * d + r) \div d = q /\ (q * d + r) % d = r
<1> DEFINE x == q * d + r
           e == x \div d
           f == x % d
<1>1. q * d \in Nat /\ x \in Nat
  BY ProductNat
<1>2. e \in Nat /\ f \in 0..(d - 1) /\ q * d + r = e * d + f /\ e * d \in Nat
  <2>1. e \in Nat /\ f \in 0..(d - 1) /\ x = e * d + f
    BY <1>1, DivFloor
  <2> HIDE DEF e, f
  <2> QED BY <2>1, ProductNat
<1> HIDE DEF e, f
<1>3. ~(q < e)
  <2> SUFFICES ASSUME q < e PROVE FALSE
    OBVIOUS
  <2>1. (e - q - 1) * d \in Nat
    BY <1>2, ProductNat
  <2>2. (e - q - 1) * d = e * d - q * d - d
    BY <1>2
  <2> HIDE DEF x
  <2> QED BY <1>1, <1>2, <2>1, <2>2
<1>4. ~(e < q)
  <2> SUFFICES ASSUME e < q PROVE FALSE
    OBVIOUS
  <2>1. (q - e - 1) * d \in Nat
    BY <1>2, ProductNat
  <2>2. (q - e - 1) * d = q * d - e * d - d
    BY <1>2
  <2> HIDE DEF x
  <2> QED BY <1>1, <1>2, <2>1, <2>2
<1>5. e = q
  BY <1>2, <1>3, <1>4
<1>6. f = r
  BY <1>1, <1>2, <1>5
<1> QED BY <1>5, <1>6 DEF e, f

LEMMA ShiftMod ==
  ASSUME NEW q \in Nat, NEW d \in Nat \ {0}, NEW v \in Nat
  PROVE  (q * d + v) % d = v % d /\ (q * d + v) \div d = q + v \div d
<1> DEFINE e == v \div d
           f == v % d
<1>1. e \in Nat /\ f \in 0..(d - 1) /\ v = e * d + f
  BY DivFloor
<1> HIDE DEF e, f
<1>2. q * d + v = (q + e) * d + f /\ q + e \in Nat
  <2>1. q * d \in Nat /\ e * d \in Nat /\ (q + e) * d = q * d + e * d
    BY <1>1, ProductNat
  <2> QED BY <1>1, <2>1
<1>3. ((q + e) * d + f) \div d = q + e /\ ((q + e) * d + f) % d = f
  BY <1>1, <1>2, DivUnique
<1> QED BY <1>2, <1>3 DEF e, f

LEMMA Weekly ==
  ASSUME NEW q \in Nat, NEW t \in Nat, NEW s
  PROVE  /\ is_allowed_now(q * Week + t, s) <=> is_allowed_now(t, s)
         /\ AtBoundary(q * Week + t, s) <=> AtBoundary(t, s)
<1> DEFINE u == q * Week + t
<1>1. TicksPerDay \in Nat \ {0} /\ Days \in Nat \ {0}
  BY WorkerSchedulerAssumption
<1>2. q * Days \in Nat /\ u = (q * Days) * TicksPerDay + t
  BY <1>1, ProductNat DEF Week
<1>3. u % TicksPerDay = t % TicksPerDay /\ u \div TicksPerDay = q * Days + t \div TicksPerDay
  <2> HIDE DEF u
  <2> QED BY <1>1, <1>2, ShiftMod
<1>4. (u \div TicksPerDay) % Days = (t \div TicksPerDay) % Days
  <2>1. t \div TicksPerDay \in Nat
    BY <1>1, DivFloor
  <2>2. (q * Days + (t \div TicksPerDay)) % Days = (t \div TicksPerDay) % Days
    BY <1>1, <2>1, ShiftMod
  <2> QED BY <1>3, <2>2
<1>5. time(u) = time(t) /\ (is_weekday(u) <=> is_weekday(t))
  BY <1>3, <1>4 DEF time, is_weekday
<1> HIDE DEF u
<1> QED BY <1>5 DEF is_allowed_now, AtBoundary, u

LEMMA NextWeek ==
  ASSUME NEW t \in Nat, NEW k \in Nat, NEW s
  PROVE  /\ t % Week \in 0..(Week - 1)
         /\ is_allowed_now((t % Week) + k, s) <=> is_allowed_now(t + k, s)
         /\ AtBoundary((t % Week) + k, s) <=> AtBoundary(t + k, s)
<1> DEFINE q == t \div Week
           u == t % Week
<1>1. Week \in Nat \ {0}
  BY WorkerSchedulerAssumption DEF Week
<1>2. q \in Nat /\ u \in 0..(Week - 1) /\ t = q * Week + u
  BY <1>1, DivFloor
<1> HIDE DEF q, u
<1>3. u + k \in Nat /\ q * Week + (u + k) = t + k
  BY <1>1, <1>2, ProductNat
<1>4. /\ is_allowed_now(t + k, s) <=> is_allowed_now(u + k, s)
      /\ AtBoundary(t + k, s) <=> AtBoundary(u + k, s)
  BY <1>2, <1>3, Weekly
<1> QED BY <1>2, <1>4 DEF u

(* The guard of the property, in any week.                                 *)
LEMMA RegularEachWeek ==
  ASSUME NEW s, ChangesAtBoundaries(s), NEW t \in Nat
  PROVE  /\ \/ is_allowed_now(t, s) <=> is_allowed_now(t + 1, s)
            \/ AtBoundary(t, s)
            \/ AtBoundary(t + 1, s) /\ (is_allowed_now(t + 1, s) <=> is_allowed_now(t + 2, s))
         /\ ~(AtBoundary(t, s) /\ AtBoundary(t + 1, s))
<1> DEFINE u == t % Week
<1>1. /\ u \in 0..(Week - 1)
      /\ is_allowed_now(u + 0, s) <=> is_allowed_now(t + 0, s)
      /\ is_allowed_now(u + 1, s) <=> is_allowed_now(t + 1, s)
      /\ is_allowed_now(u + 2, s) <=> is_allowed_now(t + 2, s)
      /\ AtBoundary(u + 0, s) <=> AtBoundary(t + 0, s)
      /\ AtBoundary(u + 1, s) <=> AtBoundary(t + 1, s)
  BY NextWeek
<1> HIDE DEF u
<1>2. Week \in Nat \ {0}
  BY WorkerSchedulerAssumption DEF Week
<1>3. u + 0 = u /\ t + 0 = t
  BY <1>1, <1>2
<1>4. /\ \/ is_allowed_now(u, s) <=> is_allowed_now(u + 1, s)
         \/ AtBoundary(u, s)
         \/ AtBoundary(u + 1, s) /\ (is_allowed_now(u + 1, s) <=> is_allowed_now(u + 2, s))
      /\ ~(AtBoundary(u, s) /\ AtBoundary(u + 1, s))
  BY <1>1 DEF ChangesAtBoundaries, Week
<1> QED BY <1>1, <1>3, <1>4

-----------------------------------------------------------------------------
(* The next transition. *)

LEMMA AllowedIsBoolean == \A t, s : is_allowed_now(t, s) \in BOOLEAN
  BY DEF is_allowed_now

LEMMA MinIsLeast ==
  ASSUME NEW S \in SUBSET Nat, S # {}
  PROVE  Min(S) \in S /\ \A x \in S : Min(S) <= x
<1> DEFINE R == {ss \in Nat \X Nat : ss[1] < ss[2]}
<1>1. OpToRel(<, Nat) = R
  BY Zenon DEF OpToRel
<1>2. IsWellFoundedOn(R, Nat)
  BY <1>1, NatLessThanWellFounded
<1>3. PICK x \in S : \A y \in S : ~ (<<y, x>> \in R)
  <2> HIDE DEF R
  <2> QED BY <1>2, WFMin
<1>4. \A y \in S : x <= y
  <2> SUFFICES ASSUME NEW y \in S, y < x PROVE FALSE
    OBVIOUS
  <2>1. <<y, x>> \in R
    OBVIOUS
  <2> QED BY <1>3, <2>1
<1> QED BY <1>4 DEF Min

TimesOfDay(s) == Boundaries(s) \subseteq 0..(TicksPerDay - 1)

(* A boundary that is not more than Days days ahead is a candidate.        *)
LEMMA CandidateIf ==
  ASSUME NEW s, TimesOfDay(s), NEW t \in Nat, NEW c \in Nat, t < c,
         AtBoundary(c, s), c \div TicksPerDay <= (t \div TicksPerDay) + Days
  PROVE  c \in Candidates(t, s)
<1> DEFINE e == c \div TicksPerDay
           f == t \div TicksPerDay
           b == c % TicksPerDay
<1>1. TicksPerDay \in Nat \ {0} /\ Days \in Nat \ {0}
  BY WorkerSchedulerAssumption
<1>2. e \in Nat /\ f \in Nat /\ b \in Boundaries(s) /\ c = e * TicksPerDay + b
  BY <1>1, DivFloor DEF AtBoundary, time
<1>3. f <= e
  <2>1. /\ t % TicksPerDay \in 0..(TicksPerDay - 1) /\ b \in 0..(TicksPerDay - 1)
        /\ t = f * TicksPerDay + (t % TicksPerDay)
    BY <1>1, DivFloor
  <2> DEFINE g == t % TicksPerDay
  <2>2. g \in 0..(TicksPerDay - 1) /\ t = f * TicksPerDay + g
    BY <2>1
  <2> HIDE DEF e, f, g, b
  <2> SUFFICES ASSUME e < f PROVE FALSE
    BY <1>2
  <2>3. (f - e - 1) * TicksPerDay \in Nat
    BY <1>1, <1>2, ProductNat
  <2>4. /\ (f - e - 1) * TicksPerDay = f * TicksPerDay - e * TicksPerDay - TicksPerDay
        /\ f * TicksPerDay \in Nat /\ e * TicksPerDay \in Nat
    BY <1>1, <1>2
  <2> QED BY <1>1, <1>2, <2>1, <2>2, <2>3, <2>4
<1>4. c = (f + (e - f)) * TicksPerDay + b /\ e - f \in 0..Days
  BY <1>1, <1>2, <1>3
<1> HIDE DEF e, b
<1> QED BY <1>2, <1>4 DEF Candidates, f

(* What a candidate is.                                                    *)
LEMMA CandidateIs ==
  ASSUME NEW s, TimesOfDay(s), NEW t \in Nat, NEW c \in Candidates(t, s)
  PROVE  /\ c \in Nat /\ t < c /\ AtBoundary(c, s)
         /\ c \div TicksPerDay <= (t \div TicksPerDay) + Days
<1> DEFINE f == t \div TicksPerDay
<1>1. TicksPerDay \in Nat \ {0} /\ Days \in Nat \ {0} /\ f \in Nat
  BY WorkerSchedulerAssumption, DivFloor
<1>2. PICK d \in 0..Days, b \in Boundaries(s) : c = (f + d) * TicksPerDay + b /\ t < c
  BY DEF Candidates
<1>3. b \in 0..(TicksPerDay - 1) /\ f + d \in Nat
  BY <1>1, <1>2 DEF TimesOfDay
<1> HIDE DEF f
<1>4. c \in Nat /\ c \div TicksPerDay = f + d /\ c % TicksPerDay = b
  <2>1. (f + d) * TicksPerDay \in Nat
    BY <1>1, <1>3, ProductNat
  <2>2. c \in Nat
    BY <1>1, <1>2, <1>3, <2>1
  <2> QED BY <1>1, <1>2, <1>3, <2>2, DivUnique
<1> QED BY <1>1, <1>2, <1>4 DEF AtBoundary, time, f

LEMMA DivMonotone ==
  ASSUME NEW x \in Nat, NEW y \in Nat, x <= y, NEW d \in Nat \ {0}
  PROVE  x \div d \in Nat /\ y \div d \in Nat /\ x \div d <= y \div d
<1> DEFINE e == x \div d
           f == y \div d
           g == x % d
           h == y % d
<1>1. /\ e \in Nat /\ g \in 0..(d - 1) /\ x = e * d + g
      /\ f \in Nat /\ h \in 0..(d - 1) /\ y = f * d + h
  BY DivFloor
<1> HIDE DEF e, f, g, h
<1>2. e <= f
  <2> SUFFICES ASSUME f < e PROVE FALSE
    BY <1>1
  <2>1. (e - f - 1) * d \in Nat /\ e * d \in Nat /\ f * d \in Nat
    BY <1>1, ProductNat
  <2>2. (e - f - 1) * d = e * d - f * d - d
    BY <1>1
  <2> QED BY <1>1, <2>1, <2>2
<1> QED BY <1>1, <1>2 DEF e, f

LEMMA TransitionAhead ==
  ASSUME NEW s, TimesOfDay(s), NEW t \in Nat
  PROVE  /\ next_transition(t, s) \in Nat /\ t < next_transition(t, s)
         /\ next_transition(t, s) \div TicksPerDay <= (t \div TicksPerDay) + Days
         /\ Changes(t, s) # {} => next_transition(t, s) \in Changes(t, s)
         /\ \A c \in Changes(t, s) : next_transition(t, s) <= c
         /\ Changes(t, s) = {} => next_transition(t, s) = t + TicksPerDay
<1>1. CASE Changes(t, s) # {}
  <2>1. Changes(t, s) \subseteq Nat
    BY CandidateIs DEF Changes
  <2>2. Min(Changes(t, s)) \in Changes(t, s) /\ \A c \in Changes(t, s) : Min(Changes(t, s)) <= c
    BY <1>1, <2>1, MinIsLeast
  <2>3. next_transition(t, s) = Min(Changes(t, s))
    BY <1>1 DEF next_transition
  <2>4. next_transition(t, s) \in Candidates(t, s)
    BY <2>2, <2>3 DEF Changes
  <2> QED BY <1>1, <2>2, <2>3, <2>4, CandidateIs
<1>2. CASE Changes(t, s) = {}
  <2>1. next_transition(t, s) = t + TicksPerDay
    BY <1>2 DEF next_transition
  <2>2. TicksPerDay \in Nat \ {0} /\ Days \in Nat \ {0} /\ t \div TicksPerDay \in Nat
    BY WorkerSchedulerAssumption, DivFloor
  <2>3. (1 * TicksPerDay + t) \div TicksPerDay = 1 + (t \div TicksPerDay)
    BY <2>2, ShiftMod
  <2>4. 1 * TicksPerDay + t = t + TicksPerDay
    BY <2>2
  <2> QED BY <1>2, <2>1, <2>2, <2>3, <2>4
<1> QED BY <1>1, <1>2

(* From an instant whose next tick changes the state only at a boundary,   *)
(* the state of a schedule that is regular lasts until the transition, and *)
(* beyond it when nothing changes for a week.                              *)
LEMMA NothingBefore ==
  ASSUME NEW s, TimesOfDay(s), ChangesAtBoundaries(s), NEW t \in Nat,
         (is_allowed_now(t, s) <=> is_allowed_now(t + 1, s)) \/ AtBoundary(t + 1, s),
         NEW v \in Nat, t <= v,
         v < next_transition(t, s) \/ (Changes(t, s) = {} /\ v <= next_transition(t, s))
  PROVE  is_allowed_now(v, s) <=> is_allowed_now(t, s)
<1> DEFINE A(u) == is_allowed_now(u, s)
           j == v - t
           bad == {i \in Nat : i <= j /\ ~(A(t + i) <=> A(t))}
           n == next_transition(t, s)
<1> SUFFICES ASSUME ~(A(v) <=> A(t)) PROVE FALSE
  OBVIOUS
<1>1. j \in bad
  BY j \in Nat /\ t + j = v
<1> DEFINE i == Min(bad)
<1>2. i \in bad /\ \A k \in bad : i <= k
  BY <1>1, MinIsLeast
<1> HIDE DEF i
<1>3. i \in Nat /\ i <= j /\ ~(A(t + i) <=> A(t)) /\ i # 0
  BY <1>2
<1>4. A(t + (i - 1)) <=> A(t)
  BY <1>2, <1>3
<1> DEFINE u == t + (i - 1)
<1>5. u \in Nat /\ t <= u /\ u + 1 = t + i /\ (A(u) <=> A(t)) /\ ~(A(u + 1) <=> A(t))
  BY <1>3, <1>4
<1>6. n \in Nat /\ (u + 1 < n \/ (Changes(t, s) = {} /\ u + 1 <= n))
  BY <1>3, <1>5, TransitionAhead
<1> HIDE DEF u, A, bad
<1>7. /\ \/ A(u) <=> A(u + 1)
         \/ AtBoundary(u, s)
         \/ AtBoundary(u + 1, s) /\ (A(u + 1) <=> A(u + 2))
      /\ ~(AtBoundary(u, s) /\ AtBoundary(u + 1, s))
  BY <1>5, RegularEachWeek DEF A
<1>8. PICK c \in {u, u + 1} : t < c /\ AtBoundary(c, s) /\ ~(A(c + 1) <=> A(t))
  <2>1. CASE AtBoundary(u + 1, s)
    <3>1. (A(u + 1) <=> A(u + 2)) /\ u + 2 = (u + 1) + 1
      BY <1>5, <1>7, <2>1
    <3> QED BY <1>5, <2>1, <3>1
  <2>2. CASE AtBoundary(u, s) /\ ~AtBoundary(u + 1, s)
    <3>1. u # t
      BY <1>5, <2>2 DEF A
    <3> QED BY <1>5, <2>2, <3>1
  <2> QED BY <1>5, <1>7, <2>1, <2>2
<1>9. c \in Nat /\ (c < n \/ (Changes(t, s) = {} /\ c <= n))
  BY <1>5, <1>6, <1>8
<1>10. c \in Changes(t, s)
  <2>1. c <= n /\ n \in Nat /\ n \div TicksPerDay <= (t \div TicksPerDay) + Days
    BY <1>9, TransitionAhead
  <2>2. TicksPerDay \in Nat \ {0} /\ Days \in Nat \ {0} /\ t \div TicksPerDay \in Nat
    BY WorkerSchedulerAssumption, DivFloor
  <2>3. /\ c \div TicksPerDay \in Nat /\ n \div TicksPerDay \in Nat
        /\ c \div TicksPerDay <= n \div TicksPerDay
    BY <1>9, <2>1, <2>2, DivMonotone
  <2>4. c \div TicksPerDay <= (t \div TicksPerDay) + Days
    BY <2>1, <2>2, <2>3
  <2>5. c \in Candidates(t, s)
    BY <1>8, <1>9, <2>4, CandidateIf
  <2> QED BY <1>8, <2>5 DEF Changes, A
<1> QED BY <1>9, <1>10, TransitionAhead

-----------------------------------------------------------------------------
(* A timer m, or the thread r of one that fired, at an instant t under a   *)
(* schedule s.                                                             *)

(* The transition of m is one at a boundary, to the state behind it.       *)
OnTarget(m, t, s) ==
  /\ AtBoundary(t + m.left, s)
  /\ m.action = "START" <=> is_allowed_now(t + m.left + 1, s)

(* Until m fires the state stays, and beyond if it only looks again.       *)
Lasts(m, t, s) ==
  \A j \in 0..m.left :
    j < m.left \/ m.fallback => (is_allowed_now(t + j, s) <=> is_allowed_now(t, s))

(* What may change with the next tick, a timer set now will meet.          *)
Timely(t, s) == (is_allowed_now(t, s) <=> is_allowed_now(t + 1, s)) \/ AtBoundary(t + 1, s)

(* The transition r was due a tick ago, or is now: the state behind its    *)
(* boundary is the one it brings, and no other boundary follows at once.   *)
Right(r, t, s) ==
  /\ r.timer \in {0, 1} /\ ~AtBoundary(t + (1 - r.timer), s)
  /\ r.action = "START" <=> is_allowed_now(t + (1 - r.timer), s)

LEMMA FiredIsRight ==
  ASSUME NEW s, ChangesAtBoundaries(s), NEW t \in Nat,
         NEW m, m.left = 0, OnTarget(m, t, s), NEW r, r.timer = 0, r.action = m.action
  PROVE  Right(r, t, s)
<1>1. AtBoundary(t, s) /\ t + m.left = t /\ t + m.left + 1 = t + 1 /\ t + (1 - r.timer) = t + 1
  BY DEF OnTarget
<1>2. ~AtBoundary(t + 1, s)
  BY <1>1, RegularEachWeek
<1> QED BY <1>1, <1>2 DEF OnTarget, Right

LEMMA RightIsTimely ==
  ASSUME NEW s, ChangesAtBoundaries(s), NEW t \in Nat, NEW r, r.timer = 1, Right(r, t, s)
  PROVE  Timely(t, s) /\ (r.action = "START" <=> is_allowed_now(t, s))
<1>1. t + (1 - r.timer) = t
  OBVIOUS
<1> QED BY <1>1, RegularEachWeek DEF Right, Timely

LEMMA LastingIsTimely ==
  ASSUME NEW s, NEW t \in Nat, NEW m, m.left \in Nat \ {0}, Lasts(m, t, s),
         ~m.fallback => OnTarget(m, t, s)
  PROVE  Timely(t, s)
<1>1. CASE 1 < m.left \/ m.fallback
  BY <1>1 DEF Lasts, Timely
<1>2. CASE m.left = 1 /\ ~m.fallback
  BY <1>2 DEF OnTarget, Timely
<1> QED BY <1>1, <1>2

LEMMA NextTick ==
  ASSUME NEW t \in Nat, NEW s
  PROVE  /\ (t + 1) % Week \in Nat
         /\ \A k \in Nat :
              /\ is_allowed_now(((t + 1) % Week) + k, s) <=> is_allowed_now(t + 1 + k, s)
              /\ AtBoundary(((t + 1) % Week) + k, s) <=> AtBoundary(t + 1 + k, s)
<1> DEFINE v == t + 1
<1>1. v \in Nat /\ v = t + 1
  OBVIOUS
<1> HIDE DEF v
<1>2. \A k \in Nat : /\ v % Week \in 0..(Week - 1)
                     /\ is_allowed_now((v % Week) + k, s) <=> is_allowed_now(v + k, s)
                     /\ AtBoundary((v % Week) + k, s) <=> AtBoundary(v + k, s)
  BY <1>1, NextWeek
<1>3. v % Week \in Nat
  <2>1. Week \in Nat \ {0}
    BY WorkerSchedulerAssumption DEF Week
  <2> QED BY <1>1, <2>1, DivFloor
<1> QED BY <1>2, <1>3 DEF v

LEMMA TargetTicks ==
  ASSUME NEW s, NEW t \in Nat, NEW m, m.left \in Nat \ {0}, OnTarget(m, t, s),
         NEW n, n.left = m.left - 1, n.action = m.action
  PROVE  OnTarget(n, (t + 1) % Week, s)
<1> DEFINE u == (t + 1) % Week
<1>1. u \in Nat /\ \A k \in Nat :
        /\ is_allowed_now(u + k, s) <=> is_allowed_now(t + 1 + k, s)
        /\ AtBoundary(u + k, s) <=> AtBoundary(t + 1 + k, s)
  BY NextTick
<1> HIDE DEF u
<1>2. /\ n.left \in Nat /\ n.left + 1 \in Nat
      /\ t + 1 + n.left = t + m.left /\ t + 1 + (n.left + 1) = t + m.left + 1
      /\ u + (n.left + 1) = u + n.left + 1
  BY <1>1
<1>3. OnTarget(n, u, s)
  BY <1>1, <1>2 DEF OnTarget
<1> QED BY <1>3 DEF u

LEMMA LastingTicks ==
  ASSUME NEW s, NEW t \in Nat, NEW m, m.left \in Nat \ {0}, Lasts(m, t, s),
         NEW n, n.left = m.left - 1, n.fallback = m.fallback, n.left # 0
  PROVE  /\ Lasts(n, (t + 1) % Week, s)
         /\ is_allowed_now((t + 1) % Week, s) <=> is_allowed_now(t, s)
<1> DEFINE u == (t + 1) % Week
<1>1. u \in Nat /\ \A k \in Nat : is_allowed_now(u + k, s) <=> is_allowed_now(t + 1 + k, s)
  BY NextTick
<1> HIDE DEF u
<1>2. \A j \in 0..n.left : j < n.left \/ n.fallback =>
        (is_allowed_now(u + j, s) <=> is_allowed_now(t, s))
  <2> SUFFICES ASSUME NEW j \in 0..n.left, j < n.left \/ n.fallback
               PROVE  is_allowed_now(u + j, s) <=> is_allowed_now(t, s)
    OBVIOUS
  <2>1. j \in Nat /\ t + 1 + j = t + (j + 1) /\ j + 1 \in 0..m.left
        /\ (j + 1 < m.left \/ m.fallback)
    OBVIOUS
  <2> QED BY <1>1, <2>1 DEF Lasts
<1>3. is_allowed_now(u, s) <=> is_allowed_now(t, s)
  <2>1. u + 0 = u /\ 0 \in 0..n.left /\ 0 < n.left
    BY <1>1
  <2> QED BY <1>2, <2>1
<1> QED BY <1>2, <1>3 DEF Lasts, u

LEMMA RightTicks ==
  ASSUME NEW s, NEW t \in Nat, NEW r, r.timer = 0, Right(r, t, s),
         NEW q, q.timer = 1, q.action = r.action
  PROVE  Right(q, (t + 1) % Week, s)
<1> DEFINE u == (t + 1) % Week
<1>1. u \in Nat /\ \A k \in Nat :
        /\ is_allowed_now(u + k, s) <=> is_allowed_now(t + 1 + k, s)
        /\ AtBoundary(u + k, s) <=> AtBoundary(t + 1 + k, s)
  BY NextTick
<1> HIDE DEF u
<1>2. t + (1 - r.timer) = t + 1 + 0 /\ u + (1 - q.timer) = u + 0
  BY <1>1
<1> QED BY <1>1, <1>2 DEF Right, u

(* A new timer is on target, and nothing changes before it.                *)
LEMMA NewIsOnTarget ==
  ASSUME NEW s, TimesOfDay(s), NEW t \in Nat, Changes(t, s) # {},
         NEW m, m.left = next_transition(t, s) - t,
         m.action = (IF is_allowed_now(t, s) THEN "STOP" ELSE "START")
  PROVE  OnTarget(m, t, s)
<1> DEFINE n == next_transition(t, s)
<1>1. n \in Nat /\ t < n /\ n \in Changes(t, s)
  BY TransitionAhead
<1> HIDE DEF n
<1>2. AtBoundary(n, s) /\ ~(is_allowed_now(n + 1, s) <=> is_allowed_now(t, s))
  <2>1. n \in Candidates(t, s)
    BY <1>1 DEF Changes
  <2> QED BY <1>1, <2>1, CandidateIs, AllowedIsBoolean DEF Changes
<1>3. m.left = n - t
  BY DEF n
<1>4. t + m.left = n /\ t + m.left + 1 = n + 1
  BY <1>1, <1>3
<1> QED BY <1>2, <1>4 DEF OnTarget

LEMMA NewLasts ==
  ASSUME NEW s, TimesOfDay(s), ChangesAtBoundaries(s), NEW t \in Nat, Timely(t, s),
         NEW m, m.left = next_transition(t, s) - t, m.fallback <=> Changes(t, s) = {}
  PROVE  Lasts(m, t, s)
<1> DEFINE n == next_transition(t, s)
<1>1. n \in Nat /\ t < n
  BY TransitionAhead
<1> SUFFICES ASSUME NEW j \in 0..m.left, j < m.left \/ m.fallback
             PROVE  is_allowed_now(t + j, s) <=> is_allowed_now(t, s)
  BY DEF Lasts
<1>2. j \in Nat
  BY <1>1
<1>3. t + j < n \/ (Changes(t, s) = {} /\ t + j <= n)
  <2> HIDE DEF n
  <2>1. m.left = n - t
    BY DEF n
  <2>2. CASE j < m.left
    BY <1>1, <1>2, <2>1, <2>2
  <2>3. CASE m.fallback
    BY <1>1, <1>2, <2>1, <2>3
  <2> QED BY <2>2, <2>3
<1>4. (is_allowed_now(t, s) <=> is_allowed_now(t + 1, s)) \/ AtBoundary(t + 1, s)
  BY DEF Timely
<1>5. t + j \in Nat /\ t <= t + j
  BY <1>2
<1> QED BY <1>3, <1>4, <1>5, NothingBefore

-----------------------------------------------------------------------------
(* The timers. *)

(* What NewTimer makes, and what a thread is about.                        *)
TimerFields == {"host", "id", "action", "left", "fallback", "edits"}
TimerOK(m)  == DOMAIN m = TimerFields /\ m.host \in Hosts /\ m.id \in Nat

Storing == {x \in Slots : thread[x].pc = "store"}

ThreadOK(t) ==
  /\ DOMAIN t = {"pc", "host", "action", "timer"}
  /\ t.pc \in {"idle", "wkctl", "arm", "store"}
  /\ t.pc # "idle" => t.host \in Hosts
  /\ t.pc = "store" => TimerOK(t.timer) /\ t.timer.host = t.host

Shape ==
  /\ IsFiniteSet(live) /\ \A m \in live : TimerOK(m)
  /\ DOMAIN thread = Slots /\ \A x \in Slots : ThreadOK(thread[x])
  /\ timers \in [Hosts -> Nat \cup {None}]

(* A timer that runs, or that a thread is to store, has an id of its own,  *)
(* and the dictionary has the id of a running timer under its host only.   *)
Identified ==
  /\ \A m, n \in live : m.id = n.id => m = n
  /\ \A x \in Storing : /\ \A m \in live : m.id # thread[x].timer.id
                        /\ \A h \in Hosts : timers[h] # thread[x].timer.id
                        /\ \A y \in Storing : thread[y].timer.id = thread[x].timer.id => x = y
  /\ \A m \in live, h \in Hosts : timers[h] = m.id => m.host = h

(* Of a host that was never armed twice at a time, the dictionary has the  *)
(* running timer, and none runs while a thread is to store the next.       *)
Single ==
  \A h \in Hosts \ overlapped :
    /\ \A x, y \in Arming(h) : x = y
    /\ \A m \in live : m.host = h => timers[h] = m.id
    /\ \A x \in Storing : thread[x].host = h => \A m \in live : m.host # h

TimersInv == Shape /\ Identified /\ Single /\ StaysArmed

-----------------------------------------------------------------------------
(* There is an id for another timer.                                       *)

LEMMA ImageIsFinite ==
  ASSUME NEW S, IsFiniteSet(S), NEW f, DOMAIN f = S
  PROVE  /\ IsFiniteSet({f[x] : x \in S})
         /\ Cardinality({f[x] : x \in S}) <= Cardinality(S)
<1> DEFINE T == {f[x] : x \in S}
           g == [x \in S |-> f[x]]
<1>1. g \in Surjection(S, T)
  BY DEF Surjection
<1> QED BY <1>1, FS_Surjection

LEMMA UnionIsBounded ==
  ASSUME NEW S, NEW T, IsFiniteSet(S), IsFiniteSet(T),
         NEW m \in Nat, NEW n \in Nat, Cardinality(S) <= m, Cardinality(T) <= n
  PROVE  IsFiniteSet(S \cup T) /\ Cardinality(S \cup T) <= m + n
<1>1. /\ IsFiniteSet(S \cup T) /\ IsFiniteSet(S \cap T)
      /\ Cardinality(S \cup T) = Cardinality(S) + Cardinality(T) - Cardinality(S \cap T)
  BY FS_Union, FS_Intersection
<1>2. Cardinality(S) \in Nat /\ Cardinality(T) \in Nat /\ Cardinality(S \cap T) \in Nat
  BY <1>1, FS_CardinalityType
<1> QED BY <1>1, <1>2

LEMMA UnknownIsNew ==
  ASSUME Shape
  PROVE  Unknown \in Nat /\ ~Known(Unknown)
<1> DEFINE n1 == Cardinality(live)
           n2 == Cardinality(Slots)
           n3 == Cardinality(Hosts)
           f1 == [m \in live |-> m.id]
           f2 == [x \in Slots |-> thread[x].timer.id]
           f3 == [h \in Hosts |-> timers[h]]
           I1 == {f1[m] : m \in live}
           I2 == {f2[x] : x \in Slots}
           I3 == {f3[h] : h \in Hosts}
           pool == 1..(n1 + n2 + n3 + 1)
<1>1. n1 \in Nat /\ n2 \in Nat /\ n3 \in Nat
  BY WorkerSchedulerAssumption, FS_CardinalityType DEF Shape
<1>2. /\ IsFiniteSet(I1) /\ Cardinality(I1) <= n1
      /\ IsFiniteSet(I2) /\ Cardinality(I2) <= n2
      /\ IsFiniteSet(I3) /\ Cardinality(I3) <= n3
  <2>1. DOMAIN f1 = live /\ DOMAIN f2 = Slots /\ DOMAIN f3 = Hosts
    OBVIOUS
  <2>2. IsFiniteSet(live) /\ IsFiniteSet(Slots) /\ IsFiniteSet(Hosts)
    BY WorkerSchedulerAssumption DEF Shape
  <2> HIDE DEF f1, f2, f3
  <2> QED BY <2>1, <2>2, ImageIsFinite
<1>3. \A i : Known(i) => i \in (I1 \cup I2) \cup I3
  BY DEF Known
<1> HIDE DEF I1, I2, I3, n1, n2, n3
<1>4. IsFiniteSet((I1 \cup I2) \cup I3) /\ Cardinality((I1 \cup I2) \cup I3) <= n1 + n2 + n3
  <2>1. IsFiniteSet(I1 \cup I2) /\ Cardinality(I1 \cup I2) <= n1 + n2
    BY <1>1, <1>2, UnionIsBounded
  <2>2. n1 + n2 \in Nat
    BY <1>1
  <2> QED BY <1>1, <1>2, <2>1, <2>2, UnionIsBounded
<1>5. \E i \in pool : ~Known(i)
  <2> SUFFICES ASSUME \A i \in pool : Known(i) PROVE FALSE
    OBVIOUS
  <2>1. pool \subseteq (I1 \cup I2) \cup I3
    BY <1>3
  <2>2. Cardinality(pool) = n1 + n2 + n3 + 1
    BY <1>1, FS_Interval
  <2>3. Cardinality(pool) <= Cardinality((I1 \cup I2) \cup I3)
    BY <1>4, <2>1, FS_Subset
  <2>4. Cardinality((I1 \cup I2) \cup I3) \in Nat
    BY <1>4, FS_CardinalityType
  <2> QED BY <1>1, <1>4, <2>2, <2>3, <2>4
<1>6. Unknown \in pool /\ ~Known(Unknown)
  BY <1>5 DEF Unknown, n1, n2, n3
<1> QED BY <1>1, <1>6


-----------------------------------------------------------------------------
(* The actions, one thread at a time.                                      *)

(* Nothing but thread x differs, and x is still a thread.                  *)
OnlyThread(x) ==
  /\ DOMAIN thread' = Slots /\ ThreadOK(thread'[x])
  /\ \A y \in Slots \ {x} : thread'[y] = thread[y]

LEMMA TimersInvInit == Init => TimersInv
<1> SUFFICES ASSUME Init PROVE TimersInv
  OBVIOUS
<1> USE DEF Init
<1>1. \A x \in Slots : thread[x] = Idle
  OBVIOUS
<1>2. Shape
  <2>1. IsFiniteSet(live)
    BY FS_EmptySet
  <2>2. \A x \in Slots : ThreadOK(thread[x])
    BY <1>1 DEF ThreadOK, Idle
  <2> QED BY <2>1, <2>2 DEF Shape
<1>3. Storing = {} /\ \A h \in Hosts : Arming(h) = {}
  BY <1>1 DEF Storing, Arming, Idle
<1>4. Identified /\ Single
  BY <1>3 DEF Identified, Single
<1>5. StaysArmed
  BY DEF StaysArmed
<1> QED BY <1>2, <1>4, <1>5 DEF TimersInv

LEMMA TickKeeps == TimersInv /\ Tick => TimersInv'
<1> SUFFICES ASSUME TimersInv, Tick PROVE TimersInv'
  OBVIOUS
<1> DEFINE f == [m \in live |-> [m EXCEPT !.left = @ - 1]]
<1>0. Shape
  BY DEF TimersInv
<1>1. live' = {f[m] : m \in live}
  BY DEF Tick
<1>2. \A m \in live : TimerOK(f[m]) /\ f[m].id = m.id /\ f[m].host = m.host
  <2> SUFFICES ASSUME NEW m \in live PROVE TimerOK(f[m]) /\ f[m].id = m.id /\ f[m].host = m.host
    OBVIOUS
  <2>1. DOMAIN m = TimerFields /\ m.host \in Hosts /\ m.id \in Nat
    BY <1>0 DEF Shape, TimerOK
  <2>2. f[m] = [i \in TimerFields |-> IF i = "left" THEN m.left - 1 ELSE m[i]]
    BY <2>1
  <2> QED BY <2>1, <2>2 DEF TimerOK, TimerFields
<1>3. IsFiniteSet({f[m] : m \in live})
  <2>1. IsFiniteSet(live) /\ DOMAIN f = live
    BY <1>0 DEF Shape
  <2> HIDE DEF f
  <2> QED BY <2>1, ImageIsFinite
<1> HIDE DEF f
<1>4. /\ \A n \in live' : TimerOK(n) /\ \E m \in live : n = f[m] /\ n.id = m.id /\ n.host = m.host
      /\ \A m \in live : f[m] \in live'
  BY <1>1, <1>2
<1>5. \A x \in Slots : /\ ThreadOK(thread'[x])
                       /\ thread'[x].pc = thread[x].pc /\ thread'[x].host = thread[x].host
                       /\ thread[x].pc # "wkctl" => thread'[x] = thread[x]
  <2> SUFFICES ASSUME NEW x \in Slots
               PROVE  /\ ThreadOK(thread'[x])
                      /\ thread'[x].pc = thread[x].pc /\ thread'[x].host = thread[x].host
                      /\ thread[x].pc # "wkctl" => thread'[x] = thread[x]
    OBVIOUS
  <2>1. ThreadOK(thread[x])
    BY <1>0 DEF Shape
  <2>2. thread'[x] = IF thread[x].pc = "wkctl"
                       THEN [thread[x] EXCEPT !.timer = @ + 1] ELSE thread[x]
    BY DEF Tick
  <2> QED BY <2>1, <2>2 DEF ThreadOK
<1>6. Shape'
  <2>1. DOMAIN thread' = Slots /\ timers' = timers
    BY DEF Tick
  <2> QED BY <1>0, <1>1, <1>3, <1>4, <1>5, <2>1 DEF Shape
<1>7. /\ Storing' = Storing /\ \A x \in Storing : thread'[x] = thread[x]
      /\ \A h \in Hosts : Arming(h)' = Arming(h)
  BY <1>5 DEF Storing, Arming
<1>8. timers' = timers /\ overlapped' = overlapped
  BY DEF Tick
<1>9. Identified'
  BY <1>4, <1>7, <1>8 DEF TimersInv, Identified
<1>10. Single'
  BY <1>4, <1>7, <1>8 DEF TimersInv, Single, Storing
<1>11. StaysArmed'
  BY <1>2, <1>4, <1>5, <1>8 DEF TimersInv, StaysArmed
<1> QED BY <1>6, <1>9, <1>10, <1>11 DEF TimersInv


LEMMA FireKeeps ==
  ASSUME TimersInv, NEW x \in Slots, NEW m \in live, Fire(m, x)
  PROVE  TimersInv'
<1>0. Shape /\ Identified /\ Single /\ StaysArmed
  BY DEF TimersInv
<1>1. TimerOK(m) /\ ThreadOK(thread[x]) /\ DOMAIN thread = Slots
  BY <1>0 DEF Shape
<1>2. /\ thread[x] = Idle
      /\ thread' = [thread EXCEPT ![x] = [pc |-> "wkctl", host |-> m.host,
                                          action |-> m.action, timer |-> 0]]
      /\ live' = live \ {m} /\ timers' = timers /\ overlapped' = overlapped
  BY DEF Fire
<1>3. OnlyThread(x) /\ thread'[x].pc = "wkctl" /\ thread'[x].host = m.host
  BY <1>1, <1>2 DEF OnlyThread, ThreadOK, TimerOK
<1>4. Shape'
  <2>1. IsFiniteSet(live')
    BY <1>0, <1>2, FS_Difference DEF Shape
  <2> QED BY <1>0, <1>2, <1>3, <2>1 DEF Shape, OnlyThread
<1>5. /\ Storing' = Storing /\ \A y \in Storing : thread'[y] = thread[y]
      /\ \A h \in Hosts : Arming(h)' = Arming(h)
  BY <1>2, <1>3 DEF OnlyThread, Storing, Arming, Idle
<1>6. Identified'
  BY <1>0, <1>2, <1>5 DEF Identified
<1>7. Single'
  BY <1>0, <1>2, <1>5 DEF Single, Storing
<1>8. StaysArmed'
  <2> SUFFICES ASSUME NEW k \in Hosts, timers[k] # None
               PROVE  \/ \E n \in live' : n.host = k
                      \/ \E y \in Slots : thread'[y].host = k
    BY <1>2 DEF StaysArmed
  <2>1. Idle.host \notin Hosts
    BY WorkerSchedulerAssumption DEF Idle
  <2>2. CASE \E n \in live : n.host = k
    BY <1>2, <1>3, <2>2
  <2>3. CASE \E y \in Slots : thread[y].host = k
    BY <1>2, <1>3, <2>1, <2>3 DEF OnlyThread
  <2> QED BY <1>0, <2>2, <2>3 DEF StaysArmed
<1> QED BY <1>4, <1>6, <1>7, <1>8 DEF TimersInv

(* A thread that begins to arm h, while the timers stay as they are.       *)
LEMMA BeginsToArm ==
  ASSUME TimersInv, NEW x \in Slots, NEW h \in Hosts,
         OnlyThread(x), thread[x].pc \notin {"arm", "store"},
         thread[x].pc = "idle" => thread[x].host \notin Hosts,
         thread[x].pc = "wkctl" => thread[x].host = h,
         thread'[x].pc = "arm", thread'[x].host = h, Overlaps(h),
         live' = live, timers' = timers
  PROVE  TimersInv'
<1>0. Shape /\ Identified /\ Single /\ StaysArmed
  BY DEF TimersInv
<1>1. Shape'
  BY <1>0 DEF Shape, OnlyThread
<1>2. /\ Storing' = Storing /\ \A y \in Storing : thread'[y] = thread[y]
      /\ \A k \in Hosts : Arming(k)' = IF k = h THEN Arming(k) \cup {x} ELSE Arming(k)
  BY DEF OnlyThread, Storing, Arming
<1>3. Identified'
  BY <1>0, <1>2 DEF Identified
<1>4. /\ \A k \in Hosts \ overlapped' : k \in Hosts \ overlapped
      /\ h \notin overlapped' => Arming(h) = {}
  BY DEF Overlaps
<1>5. Single'
  BY <1>0, <1>2, <1>4 DEF Single, Storing
<1>6. ThreadOK(thread[x])
  BY <1>0 DEF Shape
<1>7. StaysArmed'
  BY <1>0, <1>6 DEF StaysArmed, OnlyThread, ThreadOK
<1> QED BY <1>1, <1>3, <1>5, <1>7 DEF TimersInv

LEMMA WkctlKeeps ==
  ASSUME TimersInv, NEW x \in Slots, Wkctl(x)
  PROVE  TimersInv'
<1> DEFINE h == thread[x].host
<1>1. ThreadOK(thread[x]) /\ DOMAIN thread = Slots
  BY DEF TimersInv, Shape
<1>2. /\ thread[x].pc = "wkctl"
      /\ thread' = [thread EXCEPT ![x].pc = "arm", ![x].timer = None]
      /\ Overlaps(h) /\ live' = live /\ timers' = timers
  BY DEF Wkctl
<1>3. OnlyThread(x) /\ thread'[x].pc = "arm" /\ thread'[x].host = h /\ h \in Hosts
  BY <1>1, <1>2 DEF OnlyThread, ThreadOK
<1> HIDE DEF h
<1> QED BY <1>2, <1>3, BeginsToArm DEF h

LEMMA ArmScheduledKeeps ==
  ASSUME TimersInv, NEW x \in Slots, NEW h \in Hosts, ArmScheduled(h, x)
  PROVE  TimersInv'
<1>1. DOMAIN thread = Slots
  BY DEF TimersInv, Shape
<1>2. /\ thread[x] = Idle
      /\ thread' = [thread EXCEPT ![x] = [Idle EXCEPT !.pc = "arm", !.host = h]]
      /\ Overlaps(h) /\ live' = live /\ timers' = timers
  BY DEF ArmScheduled
<1>3. OnlyThread(x) /\ thread'[x].pc = "arm" /\ thread'[x].host = h
  BY <1>1, <1>2 DEF OnlyThread, ThreadOK, Idle
<1>4. thread[x].pc = "idle" /\ thread[x].host \notin Hosts
  BY <1>2, WorkerSchedulerAssumption DEF Idle
<1> QED BY <1>2, <1>3, <1>4, BeginsToArm

(* The timer cancelled is one of the thread's host, and the only one.      *)
LEMMA ArmKeeps ==
  ASSUME TimersInv, NEW x \in Slots, Arm(x)
  PROVE  TimersInv'
<1> DEFINE h == thread[x].host
           new == NewTimer(h)
<1>0. Shape /\ Identified /\ Single /\ StaysArmed
  BY DEF TimersInv
<1>1. ThreadOK(thread[x]) /\ DOMAIN thread = Slots
  BY <1>0 DEF Shape
<1>2. /\ thread[x].pc = "arm"
      /\ thread' = [thread EXCEPT ![x].pc = "store", ![x].timer = new]
      /\ live' = {m \in live : m.id # timers[h]}
      /\ timers' = timers /\ overlapped' = overlapped
  BY DEF Arm
<1>3. h \in Hosts
  BY <1>1, <1>2 DEF ThreadOK
<1>4. /\ TimerOK(new) /\ new.host = h
      /\ \A m \in live : m.id # new.id
      /\ \A y \in Storing : thread[y].timer.id # new.id
      /\ \A k \in Hosts : timers[k] # new.id
  <2>1. Unknown \in Nat /\ ~Known(Unknown)
    BY <1>0, UnknownIsNew
  <2>2. TimerOK(new) /\ new.host = h /\ new.id = Unknown
    BY <1>3, <2>1 DEF NewTimer, TimerOK, TimerFields
  <2> QED BY <2>1, <2>2 DEF Known, Storing
<1> HIDE DEF new
<1>5. OnlyThread(x) /\ thread'[x].pc = "store" /\ thread'[x].host = h /\ thread'[x].timer = new
  BY <1>1, <1>2, <1>3, <1>4 DEF OnlyThread, ThreadOK
<1> HIDE DEF h
<1>6. Shape'
  <2>1. live' \subseteq live /\ IsFiniteSet(live')
    BY <1>0, <1>2, FS_Subset DEF Shape
  <2> QED BY <1>0, <1>1, <1>2, <1>5, <2>1 DEF Shape, OnlyThread
<1>7. /\ Storing' = Storing \cup {x} /\ x \notin Storing
      /\ \A y \in Storing : thread'[y] = thread[y]
      /\ \A k \in Hosts : Arming(k)' = Arming(k)
      /\ x \in Arming(h)
  BY <1>2, <1>5 DEF OnlyThread, Storing, Arming, h
<1>8. Identified'
  <2>1. /\ \A m, n \in live' : m.id = n.id => m = n
        /\ \A m \in live', k \in Hosts : timers'[k] = m.id => m.host = k
    BY <1>0, <1>2 DEF Identified
  <2>2. ASSUME NEW y \in Storing'
        PROVE  /\ \A m \in live' : m.id # thread'[y].timer.id
               /\ \A k \in Hosts : timers'[k] # thread'[y].timer.id
               /\ \A z \in Storing' : thread'[z].timer.id = thread'[y].timer.id => y = z
    <3>1. CASE y = x
      BY <1>2, <1>4, <1>5, <1>7, <3>1
    <3>2. CASE y # x
      <4>1. y \in Storing /\ thread'[y] = thread[y]
        BY <1>7, <2>2, <3>2
      <4>2. /\ \A m \in live : m.id # thread[y].timer.id
            /\ \A k \in Hosts : timers[k] # thread[y].timer.id
            /\ \A z \in Storing : thread[z].timer.id = thread[y].timer.id => y = z
        BY <1>0, <4>1 DEF Identified
      <4>3. thread[y].timer.id # new.id
        BY <1>4, <4>1
      <4>4. \A z \in Storing' : thread'[z].timer.id = thread'[y].timer.id => y = z
        BY <1>5, <1>7, <4>1, <4>2, <4>3
      <4> QED BY <1>2, <4>1, <4>2, <4>4
    <3> QED BY <3>1, <3>2
  <2> QED BY <2>1, <2>2 DEF Identified
<1>9. Single'
  <2> SUFFICES ASSUME NEW k \in Hosts \ overlapped
               PROVE  /\ \A y, z \in Arming(k)' : y = z
                      /\ \A m \in live' : m.host = k => timers'[k] = m.id
                      /\ \A y \in Storing' : thread'[y].host = k => \A m \in live' : m.host # k
    BY <1>2 DEF Single
  <2>1. /\ \A y, z \in Arming(k)' : y = z
        /\ \A m \in live' : m.host = k => timers'[k] = m.id
    BY <1>0, <1>2, <1>7 DEF Single
  <2>2. ASSUME NEW y \in Storing', thread'[y].host = k, NEW m \in live'
        PROVE  m.host # k
    <3>1. CASE y = x
      BY <1>0, <1>2, <1>5, <3>1, <2>2 DEF Single
    <3>2. CASE y # x
      BY <1>0, <1>2, <1>7, <3>2, <2>2 DEF Single
    <3> QED BY <3>1, <3>2
  <2> QED BY <2>1, <2>2
<1>10. StaysArmed'
  <2> SUFFICES ASSUME NEW k \in Hosts, timers[k] # None
               PROVE  \/ \E m \in live' : m.host = k
                      \/ \E y \in Slots : thread'[y].host = k
    BY <1>2 DEF StaysArmed
  <2>1. CASE k = h
    BY <1>5, <2>1
  <2>2. CASE k # h
    BY <1>0, <1>2, <1>3, <1>5, <2>2 DEF StaysArmed, Identified, OnlyThread, h
  <2> QED BY <2>1, <2>2
<1> QED BY <1>6, <1>8, <1>9, <1>10 DEF TimersInv


(* The timer that starts is the one the dictionary gets.                   *)
LEMMA StoreKeeps ==
  ASSUME TimersInv, NEW x \in Slots, Store(x)
  PROVE  TimersInv'
<1> DEFINE m == thread[x].timer
           h == thread[x].host
<1>0. Shape /\ Identified /\ Single /\ StaysArmed
  BY DEF TimersInv
<1>1. ThreadOK(thread[x]) /\ DOMAIN thread = Slots
  BY <1>0 DEF Shape
<1>2. /\ thread[x].pc = "store"
      /\ live' = live \cup {m} /\ timers' = [timers EXCEPT ![m.host] = m.id]
      /\ thread' = [thread EXCEPT ![x] = Idle] /\ overlapped' = overlapped
  BY DEF Store
<1>3. TimerOK(m) /\ m.host = h /\ h \in Hosts /\ x \in Storing /\ x \in Arming(h)
  BY <1>1, <1>2 DEF ThreadOK, Storing, Arming, TimerOK
<1>4. /\ \A n \in live : n.id # m.id
      /\ \A k \in Hosts : timers[k] # m.id
      /\ \A y \in Storing : thread[y].timer.id = m.id => y = x
  BY <1>0, <1>3 DEF Identified
<1>5. OnlyThread(x) /\ thread'[x] = Idle
  BY <1>1, <1>2 DEF OnlyThread, ThreadOK, Idle
<1> HIDE DEF m, h
<1>6. /\ \A k \in Hosts : timers'[k] = IF k = h THEN m.id ELSE timers[k]
      /\ timers' \in [Hosts -> Nat \cup {None}]
  BY <1>0, <1>2, <1>3 DEF Shape, TimerOK
<1>7. Shape'
  <2>1. IsFiniteSet(live')
    BY <1>0, <1>2, FS_AddElement DEF Shape
  <2> QED BY <1>0, <1>2, <1>3, <1>5, <1>6, <2>1 DEF Shape, OnlyThread
<1>8. /\ Storing' = Storing \ {x} /\ \A y \in Storing' : thread'[y] = thread[y]
      /\ \A k \in Hosts : Arming(k)' \subseteq Arming(k) /\ x \notin Arming(k)'
  BY <1>5 DEF OnlyThread, Storing, Arming, Idle
<1>9. Identified'
  <2>1. \A n, o \in live' : n.id = o.id => n = o
    BY <1>0, <1>2, <1>4 DEF Identified
  <2>2. ASSUME NEW n \in live', NEW k \in Hosts, timers'[k] = n.id
        PROVE  n.host = k
    BY <1>0, <1>2, <1>3, <1>4, <1>6, <2>2 DEF Identified
  <2>3. ASSUME NEW y \in Storing'
        PROVE  /\ \A n \in live' : n.id # thread'[y].timer.id
               /\ \A k \in Hosts : timers'[k] # thread'[y].timer.id
               /\ \A z \in Storing' : thread'[z].timer.id = thread'[y].timer.id => y = z
    <3>1. y \in Storing /\ y # x /\ thread'[y] = thread[y]
      BY <1>8
    <3>2. /\ \A n \in live : n.id # thread[y].timer.id
          /\ \A k \in Hosts : timers[k] # thread[y].timer.id
          /\ \A z \in Storing : thread[z].timer.id = thread[y].timer.id => y = z
      BY <1>0, <3>1 DEF Identified
    <3>3. m.id # thread[y].timer.id
      BY <1>4, <3>1
    <3> QED BY <1>2, <1>6, <1>8, <3>1, <3>2, <3>3
  <2> QED BY <2>1, <2>2, <2>3 DEF Identified
<1>10. Single'
  <2> SUFFICES ASSUME NEW k \in Hosts \ overlapped
               PROVE  /\ \A y, z \in Arming(k)' : y = z
                      /\ \A n \in live' : n.host = k => timers'[k] = n.id
                      /\ \A y \in Storing' : thread'[y].host = k => \A n \in live' : n.host # k
    BY <1>2 DEF Single
  <2>1. /\ \A y, z \in Arming(k) : y = z
        /\ \A n \in live : n.host = k => timers[k] = n.id
        /\ \A y \in Storing : thread[y].host = k => \A n \in live : n.host # k
    BY <1>0 DEF Single
  <2>2. \A y, z \in Arming(k)' : y = z
    BY <1>8, <2>1
  <2>3. \A n \in live' : n.host = k => timers'[k] = n.id
    BY <1>2, <1>3, <1>6, <2>1 DEF h
  <2>4. ASSUME NEW y \in Storing', thread'[y].host = k, NEW n \in live'
        PROVE  n.host # k
    <3>1. y \in Storing /\ y # x /\ thread[y].host = k
      BY <1>8, <2>4
    <3>2. k # h
      <4>1. y \in Arming(k)
        BY <3>1 DEF Storing, Arming
      <4> QED BY <1>3, <2>1, <3>1, <4>1
    <3> QED BY <1>2, <1>3, <2>1, <3>1, <3>2
  <2> QED BY <2>2, <2>3, <2>4
<1>11. StaysArmed'
  <2> SUFFICES ASSUME NEW k \in Hosts, timers'[k] # None
               PROVE  \/ \E n \in live' : n.host = k
                      \/ \E y \in Slots : thread'[y].host = k
    BY DEF StaysArmed
  <2>1. CASE k = h
    BY <1>2, <1>3, <2>1
  <2>2. CASE k # h
    BY <1>0, <1>2, <1>5, <1>6, <2>2 DEF StaysArmed, OnlyThread, h
  <2> QED BY <2>1, <2>2
<1> QED BY <1>7, <1>9, <1>10, <1>11 DEF TimersInv

-----------------------------------------------------------------------------
(* A set in which any two members are equal has at most one.               *)
LEMMA AtMostOne ==
  ASSUME NEW S, \A m, n \in S : m = n
  PROVE  Cardinality(S) <= 1
<1>1. CASE S = {}
  BY <1>1, FS_EmptySet
<1>2. CASE S # {}
  <2>1. PICK m \in S : S = {m}
    BY <1>2
  <2>2. Cardinality({m}) = 1
    BY FS_Singleton
  <2> QED BY <2>1, <2>2
<1> QED BY <1>1, <1>2

LEMMA TimersInvImplies == TimersInv => OneTimer /\ StaysArmed
<1> SUFFICES ASSUME TimersInv, NEW h \in Hosts \ overlapped
             PROVE  Cardinality({m \in live : m.host = h}) <= 1
  BY DEF OneTimer, TimersInv
<1>1. \A m, n \in {o \in live : o.host = h} : m = n
  BY DEF TimersInv, Identified, Single
<1> QED BY <1>1, AtMostOne

LEMMA TimersInvNext == TimersInv /\ [Next]_vars => TimersInv'
<1> SUFFICES ASSUME TimersInv, [Next]_vars PROVE TimersInv'
  OBVIOUS
<1>1. CASE Tick
  BY <1>1, TickKeeps
<1>2. ASSUME NEW x \in Slots, Wkctl(x) PROVE TimersInv'
  BY <1>2, WkctlKeeps
<1>3. ASSUME NEW x \in Slots, Arm(x) PROVE TimersInv'
  BY <1>3, ArmKeeps
<1>4. ASSUME NEW x \in Slots, Store(x) PROVE TimersInv'
  BY <1>4, StoreKeeps
<1>5. ASSUME NEW x \in Slots, NEW m \in live, Fire(m, x) PROVE TimersInv'
  BY <1>5, FireKeeps
<1>6. ASSUME NEW x \in Slots, NEW h \in Hosts, ArmScheduled(h, x) PROVE TimersInv'
  BY <1>6, ArmScheduledKeeps
<1>7. CASE UNCHANGED <<timers, live, thread, overlapped>>
  BY <1>7 DEF TimersInv, Shape, Identified, Single, StaysArmed, Storing, Arming
<1>8. Edit => UNCHANGED <<timers, live, thread, overlapped>>
  BY DEF Edit
<1>9. CASE \/ \E h \in Hosts : save_worker_schedule(h) \/ delete_worker_schedule(h)
           \/ save_default_schedule
  BY <1>7, <1>8, <1>9 DEF save_worker_schedule, delete_worker_schedule, save_default_schedule
<1>10. CASE UNCHANGED vars
  BY <1>7, <1>10 DEF vars
<1> QED BY <1>1, <1>2, <1>3, <1>4, <1>5, <1>6, <1>9, <1>10 DEF Next


-----------------------------------------------------------------------------
(* The schedule a host follows. *)

TimeOfDay(b) == b \in 0..(TicksPerDay - 1) \cup {None}
HoursOK(s)   == TimeOfDay(s.start) /\ TimeOfDay(s.end)

(* What the clock, the requests and the timers count, and that a host that *)
(* follows its schedule was armed.                                         *)
Counts ==
  /\ now \in 0..(Week - 1) /\ edits \in Nat
  /\ DOMAIN stored = Hosts /\ (\A h \in Hosts : HoursOK(stored[h])) /\ HoursOK(default)
  /\ \A m \in live : m.left \in Nat /\ m.edits \in 0..edits /\ timers[m.host] # None
  /\ \A x \in Storing : /\ thread[x].timer.left \in Nat \ {0}
                        /\ thread[x].timer.edits \in 0..edits
  /\ \A x \in Slots : /\ thread[x].pc = "wkctl" => thread[x].timer \in Nat
                      /\ thread[x].pc = "idle" => thread[x].host = None
  /\ followed \subseteq {h \in Hosts : timers[h] # None}

Current(m)  == m.edits = edits /\ ~m.fallback
Targeted(m) == Current(m) => OnTarget(m, now, Merged(m.host))
Targets     == /\ \A m \in live : Targeted(m)
               /\ \A x \in Storing : Targeted(thread[x].timer)

Due(h)       == \E m \in live : m.host = h /\ m.left = 0
Switching(h) == {x \in Slots : thread[x].pc = "wkctl" /\ thread[x].host = h}
Covers(m, h) == m.edits = edits /\ Lasts(m, now, Merged(h))

(* No two transitions of a host begin at one instant.                      *)
InTurn(h) == \A x \in Switching(h) : thread[x].timer = 0 => ~Due(h)

(* A transition that is not late is right, or another follows it.          *)
Switches(h) ==
  \A x \in Switching(h) :
    \/ thread[x].timer \in {0, 1} => Right(thread[x], now, Merged(h))
    \/ \E y \in Switching(h) : thread[y].timer < thread[x].timer

(* Between two transitions the worker is as the schedule says unless the   *)
(* next is due, and the timer, once it is set, comes before the change.    *)
Waits(h) ==
  /\ Due(h) \/ (h \in working <=> is_allowed_now(now, Merged(h)))
  /\ \A x \in Arming(h) : \/ thread[x].pc = "arm" /\ (Timely(now, Merged(h)) \/ Due(h))
                          \/ thread[x].pc = "store" /\ Covers(thread[x].timer, h)
  /\ Arming(h) = {} => \A m \in live : m.host = h => m.left = 0 \/ Covers(m, h)

Follows(h) ==
  ChangesAtBoundaries(Merged(h)) => Switches(h) /\ (Switching(h) = {} => Waits(h))

FollowsInv ==
  /\ Counts /\ Targets
  /\ \A h \in Hosts \ overlapped : InTurn(h)
  /\ \A h \in followed \ overlapped : Follows(h)

Inv == TimersInv /\ FollowsInv

LEMMA MergedTimes ==
  ASSUME Counts, NEW h \in Hosts PROVE TimesOfDay(Merged(h))
<1>1. TimeOfDay(default.start) /\ TimeOfDay(default.end)
      /\ TimeOfDay(stored[h].start) /\ TimeOfDay(stored[h].end)
  BY DEF Counts, HoursOK
<1>2. TimeOfDay(Merged(h).start) /\ TimeOfDay(Merged(h).end)
  BY <1>1 DEF Merged, Or
<1> QED BY <1>2, WorkerSchedulerAssumption DEF TimesOfDay, Boundaries, TimeOfDay, Or

LEMMA SameMerged ==
  ASSUME UNCHANGED <<stored, default>> PROVE \A h : Merged(h)' = Merged(h)
  BY DEF Merged

(* A step that is not about host k.                                        *)
LEMMA OthersFollow ==
  ASSUME NEW k \in Hosts, UNCHANGED <<now, database>>,
         \A m : m.host = k => (m \in live' <=> m \in live),
         \A x \in Slots : thread'[x] = thread[x] \/ (thread[x].host # k /\ thread'[x].host # k),
         k \in working' <=> k \in working
  PROVE  /\ InTurn(k) => InTurn(k)'
         /\ Follows(k) => Follows(k)'
<1>1. now' = now /\ edits' = edits /\ Merged(k)' = Merged(k)
  BY SameMerged DEF database
<1>2. /\ Due(k)' <=> Due(k)
      /\ Switching(k)' = Switching(k) /\ \A x \in Switching(k) : thread'[x] = thread[x]
      /\ Arming(k)' = Arming(k) /\ \A x \in Arming(k) : thread'[x] = thread[x]
  BY DEF Due, Switching, Arming
<1>3. InTurn(k) => InTurn(k)'
  BY <1>2 DEF InTurn
<1>4. Switches(k) => Switches(k)'
  BY <1>1, <1>2 DEF Switches
<1>5. Waits(k) => Waits(k)'
  BY <1>1, <1>2 DEF Waits, Covers
<1> QED BY <1>1, <1>2, <1>3, <1>4, <1>5 DEF Follows

LEMMA InitFollows == Init => FollowsInv
<1> SUFFICES ASSUME Init PROVE FollowsInv
  OBVIOUS
<1>1. \A x \in Slots : thread[x] = Idle
  BY DEF Init
<1>2. Storing = {} /\ \A h \in Hosts : Switching(h) = {}
  BY <1>1 DEF Storing, Switching, Idle
<1>3. Counts
  <2>1. now \in 0..(Week - 1)
    BY WorkerSchedulerAssumption DEF Init, Week
  <2>2. \A s \in Schedules : HoursOK(s)
    BY WorkerSchedulerAssumption DEF HoursOK, TimeOfDay
  <2>3. DOMAIN stored = Hosts /\ (\A h \in Hosts : HoursOK(stored[h])) /\ HoursOK(default)
    BY <2>2 DEF Init
  <2> QED BY <1>1, <1>2, <2>1, <2>3 DEF Init, Counts, Idle
<1>4. Targets /\ \A h \in Hosts : InTurn(h)
  BY <1>2 DEF Init, Targets, InTurn
<1>5. followed = {}
  BY DEF Init
<1> QED BY <1>3, <1>4, <1>5 DEF FollowsInv

(* A tick brings every timer and every running transition one tick on.     *)
LEMMA TickFollows == Inv /\ Tick => FollowsInv'
<1> SUFFICES ASSUME Inv, Tick PROVE FollowsInv'
  OBVIOUS
<1> DEFINE f == [m \in live |-> [m EXCEPT !.left = @ - 1]]
<1>0. /\ Shape /\ StaysArmed /\ Counts /\ Targets
      /\ \A h \in followed \ overlapped : Follows(h)
  BY DEF Inv, FollowsInv, TimersInv
<1>1. /\ \A m \in live : m.left \in Nat \ {0}
      /\ \A x \in Slots : thread[x].pc \in {"idle", "wkctl"}
      /\ now' = (now + 1) % Week /\ live' = {f[m] : m \in live}
      /\ \A x \in Slots : thread'[x] = IF thread[x].pc = "wkctl"
                                         THEN [thread[x] EXCEPT !.timer = @ + 1] ELSE thread[x]
      /\ UNCHANGED <<database, timers, working, followed, overlapped>>
  BY <1>0 DEF Tick, Week, Counts
<1>2. \A m \in live :
        /\ f[m].id = m.id /\ f[m].host = m.host /\ f[m].edits = m.edits
        /\ f[m].fallback = m.fallback /\ f[m].action = m.action /\ f[m].left = m.left - 1
  <2> SUFFICES ASSUME NEW m \in live
               PROVE  /\ f[m].id = m.id /\ f[m].host = m.host /\ f[m].edits = m.edits
                      /\ f[m].fallback = m.fallback /\ f[m].action = m.action
                      /\ f[m].left = m.left - 1
    OBVIOUS
  <2>1. DOMAIN m = TimerFields
    BY <1>0 DEF Shape, TimerOK
  <2>2. f[m] = [m EXCEPT !.left = @ - 1]
    OBVIOUS
  <2> HIDE DEF f
  <2> QED BY <2>1, <2>2 DEF TimerFields
<1> HIDE DEF f
<1>3. \A x \in Slots :
        /\ thread'[x].pc = thread[x].pc /\ thread'[x].host = thread[x].host
        /\ thread[x].pc = "wkctl" =>
             /\ thread'[x].action = thread[x].action
             /\ thread[x].timer \in Nat /\ thread'[x].timer = thread[x].timer + 1
  <2> SUFFICES ASSUME NEW x \in Slots
               PROVE  /\ thread'[x].pc = thread[x].pc /\ thread'[x].host = thread[x].host
                      /\ thread[x].pc = "wkctl" =>
                           /\ thread'[x].action = thread[x].action
                           /\ thread[x].timer \in Nat /\ thread'[x].timer = thread[x].timer + 1
    OBVIOUS
  <2>1. DOMAIN thread[x] = {"pc", "host", "action", "timer"}
    BY <1>0 DEF Shape, ThreadOK
  <2>2. thread[x].pc = "wkctl" => thread[x].timer \in Nat
    BY <1>0 DEF Counts
  <2> QED BY <1>1, <2>1, <2>2
<1>4. /\ Storing' = {} /\ \A h : Arming(h)' = {}
      /\ \A h : Switching(h)' = Switching(h)
  BY <1>1, <1>3 DEF Storing, Arming, Switching
<1>5. /\ now \in Nat /\ now' \in 0..(Week - 1)
      /\ edits' = edits /\ \A h : Merged(h)' = Merged(h)
  <2>1. now \in Nat /\ now + 1 \in Nat /\ Week \in Nat \ {0}
    BY <1>0, WorkerSchedulerAssumption DEF Counts, Week
  <2>2. (now + 1) % Week \in 0..(Week - 1)
    BY <2>1, DivFloor
  <2> QED BY <1>1, <2>1, <2>2, SameMerged DEF database
<1>6. Counts'
  <2>1. \A m \in live' : m.left \in Nat /\ m.edits \in 0..edits /\ timers[m.host] # None
    BY <1>0, <1>1, <1>2 DEF Counts
  <2>2. \A x \in Slots : /\ thread'[x].pc = "wkctl" => thread'[x].timer \in Nat
                         /\ thread'[x].pc = "idle" => thread'[x].host = None
    BY <1>0, <1>3 DEF Counts
  <2> QED BY <1>0, <1>1, <1>4, <1>5, <2>1, <2>2 DEF Counts, database
<1>7. Targets'
  <2> SUFFICES ASSUME NEW m \in live, m.edits = edits /\ ~m.fallback
               PROVE  OnTarget(f[m], now', Merged(m.host))
    BY <1>1, <1>2, <1>4, <1>5 DEF Targets, Targeted, Current
  <2>1. OnTarget(m, now, Merged(m.host))
    BY <1>0 DEF Targets, Targeted, Current
  <2> QED BY <1>1, <1>2, <1>5, <2>1, TargetTicks
<1>8. \A h \in Hosts \ overlapped' : InTurn(h)'
  BY <1>3, <1>4 DEF InTurn, Switching
<1>9. \A h \in followed' \ overlapped' : Follows(h)'
  <2> SUFFICES ASSUME NEW h \in followed \ overlapped, ChangesAtBoundaries(Merged(h))
               PROVE  Switches(h)' /\ (Switching(h)' = {} => Waits(h)')
    BY <1>1, <1>5 DEF Follows
  <2> DEFINE s == Merged(h)
  <2>0. Switches(h) /\ (Switching(h) = {} => Waits(h))
    BY <1>0 DEF Follows
  <2>1. Switches(h)'
    <3> SUFFICES ASSUME NEW x \in Switching(h)
                 PROVE  \/ thread'[x].timer \in {0, 1} => Right(thread'[x], now', s)
                        \/ \E y \in Switching(h) : thread'[y].timer < thread'[x].timer
      BY <1>4, <1>5 DEF Switches
    <3>1. /\ x \in Slots /\ thread[x].timer \in Nat /\ thread'[x].timer = thread[x].timer + 1
          /\ thread'[x].action = thread[x].action
      BY <1>3 DEF Switching
    <3>2. CASE thread[x].timer = 0 /\ Right(thread[x], now, s)
      BY <1>1, <1>5, <3>1, <3>2, RightTicks
    <3>3. CASE thread[x].timer # 0
      BY <3>1, <3>3
    <3>4. CASE \E y \in Switching(h) : thread[y].timer < thread[x].timer
      <4>1. PICK y \in Switching(h) : thread[y].timer < thread[x].timer
        BY <3>4
      <4>2. thread[y].timer \in Nat /\ thread'[y].timer = thread[y].timer + 1
        BY <1>3 DEF Switching
      <4> QED BY <3>1, <4>1, <4>2
    <3> QED BY <2>0, <3>2, <3>3, <3>4 DEF Switches
  <2>2. ASSUME Switching(h) = {} PROVE Waits(h)'
    <3>1. Arming(h) = {} /\ \A x \in Slots : thread[x].host # h
      BY <1>0, <1>1, <2>2, WorkerSchedulerAssumption DEF Arming, Switching, Counts
    <3>2. /\ Due(h) \/ (h \in working <=> is_allowed_now(now, s))
          /\ \A m \in live : m.host = h => m.left = 0 \/ Covers(m, h)
      BY <2>0, <2>2, <3>1 DEF Waits
    <3>3. ~Due(h)
      BY <1>1 DEF Due
    <3>4. ASSUME NEW m \in live, m.host = h, m.left # 1, NEW n, n = f[m]
          PROVE  Covers(n, h)' /\ (is_allowed_now(now', s) <=> is_allowed_now(now, s))
      <4>1. m.edits = edits /\ Lasts(m, now, s) /\ m.left \in Nat \ {0}
        BY <1>1, <3>2, <3>4 DEF Covers
      <4>2. n.left = m.left - 1 /\ n.left # 0 /\ n.fallback = m.fallback /\ n.edits = m.edits
        BY <1>2, <3>4, <4>1
      <4>3. /\ Lasts(n, (now + 1) % Week, s)
            /\ is_allowed_now((now + 1) % Week, s) <=> is_allowed_now(now, s)
        BY <1>5, <4>1, <4>2, LastingTicks
      <4> QED BY <1>1, <1>5, <4>1, <4>2, <4>3 DEF Covers
    <3>5. PICK m \in live : m.host = h
      BY <1>0, <3>1 DEF StaysArmed, Counts
    <3>6. Due(h)' \/ (h \in working <=> is_allowed_now(now', s))
      <4>1. CASE m.left = 1
        BY <1>1, <1>2, <3>5, <4>1 DEF Due
      <4>2. CASE m.left # 1
        BY <3>2, <3>3, <3>4, <3>5, <4>2
      <4> QED BY <4>1, <4>2
    <3>7. \A n \in live' : n.host = h => n.left = 0 \/ Covers(n, h)'
      <4> SUFFICES ASSUME NEW n \in live', n.host = h PROVE n.left = 0 \/ Covers(n, h)'
        OBVIOUS
      <4>1. PICK o \in live : n = f[o]
        BY <1>1
      <4> QED BY <1>1, <1>2, <3>4, <4>1
    <3> QED BY <1>1, <1>4, <1>5, <3>6, <3>7 DEF Waits
  <2> QED BY <1>4, <2>1, <2>2
<1> QED BY <1>6, <1>7, <1>8, <1>9 DEF FollowsInv

(* The transition that begins is right, and it is the latest of its host.  *)
LEMMA FireFollows ==
  ASSUME Inv, NEW x \in Slots, NEW m \in live, Fire(m, x)
  PROVE  FollowsInv'
<1> DEFINE h == m.host
           r == [pc |-> "wkctl", host |-> m.host, action |-> m.action, timer |-> 0]
<1>0. /\ Shape /\ Identified /\ Single /\ Counts /\ Targets
      /\ \A k \in Hosts \ overlapped : InTurn(k)
      /\ \A k \in followed \ overlapped : Follows(k)
  BY DEF Inv, FollowsInv, TimersInv
<1>1. /\ m.left = 0 /\ thread[x] = Idle /\ live' = live \ {m}
      /\ thread' = [thread EXCEPT ![x] = r]
      /\ followed' = IF m.fallback \/ m.edits # edits THEN followed \ {h} ELSE followed \cup {h}
      /\ UNCHANGED <<now, database, timers, working, overlapped>>
  BY DEF Fire
<1>2. /\ DOMAIN thread = Slots /\ h \in Hosts /\ now \in Nat
      /\ \A h1 : Merged(h1)' = Merged(h1) /\ edits' = edits
  <2>1. Week \in Nat \ {0}
    BY WorkerSchedulerAssumption DEF Week
  <2> QED BY <1>0, <1>1, <2>1, SameMerged DEF Shape, TimerOK, Counts, database
<1>3. thread'[x] = r /\ \A y \in Slots \ {x} : thread'[y] = thread[y]
  BY <1>1, <1>2
<1>4. /\ r.pc = "wkctl" /\ r.host = h /\ r.action = m.action /\ r.timer = 0
      /\ thread[x].pc = "idle" /\ thread[x].host \notin Hosts
  BY <1>1, WorkerSchedulerAssumption DEF Idle
<1> HIDE DEF r, h
<1>5. /\ Storing' = Storing /\ (\A y \in Storing : thread'[y] = thread[y])
      /\ Switching(h)' = Switching(h) \cup {x} /\ x \notin Switching(h)
  BY <1>3, <1>4 DEF Storing, Switching
<1>6. Counts'
  <2>1. timers[h] # None
    BY <1>0 DEF Counts, h
  <2> QED BY <1>0, <1>1, <1>2, <1>3, <1>4, <1>5, <2>1 DEF Counts, database
<1>7. Targets'
  BY <1>0, <1>1, <1>2, <1>5 DEF Targets, Targeted, Current
<1>8. ASSUME NEW k \in Hosts, k # h
      PROVE  (InTurn(k) => InTurn(k)') /\ (Follows(k) => Follows(k)')
  <2>1. \A n : n.host = k => (n \in live' <=> n \in live)
    BY <1>1, <1>8 DEF h
  <2>2. \A y \in Slots : thread'[y] = thread[y] \/ (thread[y].host # k /\ thread'[y].host # k)
    BY <1>3, <1>4, <1>8
  <2> QED BY <1>1, <2>1, <2>2, OthersFollow
<1>9. h \notin overlapped => \A y \in Switching(h) : thread[y].timer \in Nat \ {0}
  BY <1>0, <1>1, <1>2 DEF InTurn, Due, Switching, Counts, h
<1>10. \A k \in Hosts \ overlapped' : InTurn(k)'
  <2> SUFFICES ASSUME h \notin overlapped PROVE InTurn(h)'
    BY <1>0, <1>1, <1>8
  <2>1. ~Due(h)'
    BY <1>0, <1>1, <1>2 DEF Due, Single, Identified, h
  <2> QED BY <2>1 DEF InTurn
<1>11. \A k \in followed' \ overlapped' : Follows(k)'
  <2>1. ASSUME NEW k \in followed' \ overlapped', k # h PROVE Follows(k)'
    <3>1. k \in followed \ overlapped /\ k \in Hosts
      BY <1>0, <1>1, <2>1 DEF Counts
    <3> QED BY <1>0, <1>8, <2>1, <3>1
  <2>2. ASSUME h \in followed' \ overlapped', ChangesAtBoundaries(Merged(h)) PROVE Switches(h)'
    <3>1. Right(r, now, Merged(h))
      <4>1. OnTarget(m, now, Merged(h))
        BY <1>0, <1>1, <2>2 DEF Targets, Targeted, Current, h
      <4> QED BY <1>1, <1>2, <1>4, <2>2, <4>1, FiredIsRight
    <3>2. ASSUME NEW y \in Switching(h)'
          PROVE  \/ thread'[y].timer \in {0, 1} => Right(thread'[y], now, Merged(h))
                 \/ thread'[x].timer < thread'[y].timer
      <4>1. CASE y = x
        BY <1>3, <3>1, <4>1
      <4>2. CASE y # x
        <5>1. thread[y].timer \in Nat \ {0} /\ thread'[y] = thread[y]
          BY <1>1, <1>3, <1>5, <1>9, <2>2, <3>2, <4>2 DEF Switching
        <5> QED BY <1>3, <1>4, <5>1
      <4> QED BY <4>1, <4>2
    <3> QED BY <1>1, <1>2, <1>5, <3>2 DEF Switches
  <2>3. ASSUME h \in followed' \ overlapped' PROVE Follows(h)'
    BY <1>2, <1>5, <2>2, <2>3 DEF Follows
  <2> QED BY <2>1, <2>3
<1> QED BY <1>6, <1>7, <1>10, <1>11 DEF FollowsInv

(* The worker is as the last transition says: the latest that runs is      *)
(* right, and with it the state and the timer that will be set.            *)
LEMMA WkctlFollows ==
  ASSUME Inv, NEW x \in Slots, Wkctl(x), NEW h, thread[x].host = h
  PROVE  FollowsInv'
<1> DEFINE on == thread[x].action = "START"
<1>0. /\ Shape /\ Counts /\ Targets
      /\ \A k \in Hosts \ overlapped : InTurn(k)
      /\ \A k \in followed \ overlapped : Follows(k)
  BY DEF Inv, FollowsInv, TimersInv
<1>1. /\ thread[x].pc = "wkctl" /\ thread[x].timer \in Nat \ {0}
      /\ thread' = [thread EXCEPT ![x].pc = "arm", ![x].timer = None]
      /\ overlapped' = IF Arming(h) # {} THEN overlapped \cup {h} ELSE overlapped
      /\ UNCHANGED <<now, database, timers, live>>
  BY <1>0 DEF Wkctl, Overlaps, Counts
<1>2. /\ followed' \subseteq followed
      /\ \A k \in Hosts \ {h} : k \in working' <=> k \in working
      /\ h \in followed' => thread[x].timer = 1 /\ (h \in working' <=> on)
  BY DEF Wkctl
<1>3. /\ DOMAIN thread = Slots /\ ThreadOK(thread[x]) /\ h \in Hosts /\ now \in Nat
      /\ \A h1 : Merged(h1)' = Merged(h1) /\ edits' = edits
  <2>1. Week \in Nat \ {0}
    BY WorkerSchedulerAssumption DEF Week
  <2> QED BY <1>0, <1>1, <2>1, SameMerged DEF Shape, ThreadOK, Counts, database
<1>4. /\ thread'[x].pc = "arm" /\ thread'[x].host = h
      /\ \A y \in Slots \ {x} : thread'[y] = thread[y]
  BY <1>1, <1>3 DEF ThreadOK
<1> HIDE DEF on
<1>5. /\ Storing' = Storing /\ (\A y \in Storing : thread'[y] = thread[y])
      /\ x \in Switching(h) /\ Switching(h)' = Switching(h) \ {x}
      /\ \A y \in Switching(h) \ {x} : thread'[y] = thread[y]
      /\ Arming(h)' = Arming(h) \cup {x}
  BY <1>1, <1>4 DEF Storing, Switching, Arming
<1>6. Counts'
  BY <1>0, <1>1, <1>2, <1>3, <1>4, <1>5 DEF Counts, database
<1>7. Targets'
  BY <1>0, <1>1, <1>3, <1>5 DEF Targets, Targeted, Current
<1>8. ASSUME NEW k \in Hosts, k # h
      PROVE  (InTurn(k) => InTurn(k)') /\ (Follows(k) => Follows(k)')
  <2>1. \A y \in Slots : thread'[y] = thread[y] \/ (thread[y].host # k /\ thread'[y].host # k)
    BY <1>4, <1>8
  <2> QED BY <1>1, <1>2, <1>8, <2>1, OthersFollow
<1>9. \A k \in Hosts \ overlapped' : InTurn(k)' /\ k \notin overlapped
  <2>1. Due(h)' <=> Due(h)
    BY <1>1 DEF Due
  <2>2. InTurn(h) => InTurn(h)'
    BY <1>5, <2>1 DEF InTurn
  <2> QED BY <1>0, <1>1, <1>8, <2>2
<1>10. ASSUME h \in followed' \ overlapped', ChangesAtBoundaries(Merged(h))
       PROVE  Switches(h)' /\ (Switching(h)' = {} => Waits(h)')
  <2>1. Arming(h) = {} /\ h \in followed \ overlapped
    BY <1>1, <1>2, <1>10
  <2>2. Switches(h)
    BY <1>0, <1>10, <2>1 DEF Follows
  <2>3. thread[x].timer = 1 /\ (h \in working' <=> on)
    BY <1>2, <1>10
  <2>4. Switches(h)'
    <3> SUFFICES ASSUME NEW y \in Switching(h) \ {x}
                 PROVE  \/ thread[y].timer \in {0, 1} => Right(thread[y], now, Merged(h))
                        \/ \E z \in Switching(h) \ {x} : thread[z].timer < thread[y].timer
      BY <1>1, <1>3, <1>5 DEF Switches
    <3>1. thread[y].timer \in Nat
      BY <1>0 DEF Counts, Switching
    <3> QED BY <2>2, <2>3, <3>1 DEF Switches
  <2>5. ASSUME Switching(h)' = {} PROVE Waits(h)'
    <3>1. Switching(h) = {x}
      BY <1>5, <2>5
    <3>2. Right(thread[x], now, Merged(h))
      BY <2>2, <2>3, <3>1 DEF Switches
    <3>3. Timely(now, Merged(h)) /\ (on <=> is_allowed_now(now, Merged(h)))
      BY <1>3, <1>10, <2>3, <3>2, RightIsTimely DEF on
    <3>4. Arming(h)' = {x}
      BY <1>5, <2>1
    <3> QED BY <1>1, <1>3, <1>4, <2>3, <3>3, <3>4 DEF Waits
  <2> QED BY <2>4, <2>5
<1>11. \A k \in followed' \ overlapped' : Follows(k)'
  <2>1. ASSUME NEW k \in followed' \ overlapped', k # h PROVE Follows(k)'
    <3>1. k \in followed \ overlapped /\ k \in Hosts
      BY <1>0, <1>2, <1>9, <2>1 DEF Counts
    <3> QED BY <1>0, <1>8, <2>1, <3>1
  <2>2. ASSUME h \in followed' \ overlapped' PROVE Follows(h)'
    BY <1>3, <1>10, <2>2 DEF Follows
  <2> QED BY <2>1, <2>2
<1> QED BY <1>6, <1>7, <1>9, <1>11 DEF FollowsInv

(* A request finds the timer of the host, which shows that a timer set now *)
(* is in time.                                                             *)
LEMMA ArmScheduledFollows ==
  ASSUME Inv, NEW x \in Slots, NEW h \in Hosts, ArmScheduled(h, x)
  PROVE  FollowsInv'
<1>0. /\ Shape /\ StaysArmed /\ Counts /\ Targets
      /\ \A k \in Hosts \ overlapped : InTurn(k)
      /\ \A k \in followed \ overlapped : Follows(k)
  BY DEF Inv, FollowsInv, TimersInv
<1>1. /\ thread[x] = Idle
      /\ thread' = [thread EXCEPT ![x] = [Idle EXCEPT !.pc = "arm", !.host = h]]
      /\ overlapped' = IF Arming(h) # {} THEN overlapped \cup {h} ELSE overlapped
      /\ UNCHANGED <<now, database, timers, live, working, followed>>
  BY DEF ArmScheduled, Overlaps
<1>2. /\ DOMAIN thread = Slots /\ now \in Nat
      /\ \A h1 : Merged(h1)' = Merged(h1) /\ edits' = edits
  <2>1. Week \in Nat \ {0}
    BY WorkerSchedulerAssumption DEF Week
  <2> QED BY <1>0, <1>1, <2>1, SameMerged DEF Shape, Counts, database
<1>3. /\ thread[x].pc = "idle" /\ thread[x].host \notin Hosts
      /\ thread'[x].pc = "arm" /\ thread'[x].host = h
      /\ \A y \in Slots \ {x} : thread'[y] = thread[y]
  BY <1>1, <1>2, WorkerSchedulerAssumption DEF Idle
<1>4. /\ Storing' = Storing /\ (\A y \in Storing : thread'[y] = thread[y])
      /\ Switching(h)' = Switching(h) /\ \A y \in Switching(h) : thread'[y] = thread[y]
      /\ Arming(h)' = Arming(h) \cup {x}
  BY <1>3 DEF Storing, Switching, Arming
<1>5. Counts'
  BY <1>0, <1>1, <1>2, <1>3, <1>4 DEF Counts, database
<1>6. Targets'
  BY <1>0, <1>1, <1>2, <1>4 DEF Targets, Targeted, Current
<1>7. ASSUME NEW k \in Hosts, k # h
      PROVE  (InTurn(k) => InTurn(k)') /\ (Follows(k) => Follows(k)')
  <2>1. \A y \in Slots : thread'[y] = thread[y] \/ (thread[y].host # k /\ thread'[y].host # k)
    BY <1>3, <1>7
  <2> QED BY <1>1, <2>1, OthersFollow
<1>8. Due(h)' <=> Due(h)
  BY <1>1 DEF Due
<1>9. \A k \in Hosts \ overlapped' : InTurn(k)' /\ k \notin overlapped
  <2>1. InTurn(h) => InTurn(h)'
    BY <1>4, <1>8 DEF InTurn
  <2> QED BY <1>0, <1>1, <1>7, <2>1
<1>10. ASSUME h \in followed' \ overlapped', ChangesAtBoundaries(Merged(h))
       PROVE  Switches(h)' /\ (Switching(h)' = {} => Waits(h)')
  <2>1. Arming(h) = {} /\ h \in followed \ overlapped
    BY <1>1, <1>10
  <2>2. Switches(h) /\ (Switching(h) = {} => Waits(h))
    BY <1>0, <1>10, <2>1 DEF Follows
  <2>3. Switches(h)'
    BY <1>1, <1>2, <1>4, <2>2 DEF Switches
  <2>4. ASSUME Switching(h)' = {} PROVE Waits(h)'
    <3>1. \A y \in Slots : thread[y].host # h
      BY <1>0, <1>4, <2>1, <2>4, WorkerSchedulerAssumption
      DEF Shape, ThreadOK, Counts, Switching, Arming
    <3>2. PICK m \in live : m.host = h
      BY <1>0, <2>1, <3>1 DEF StaysArmed, Counts
    <3>3. /\ Due(h) \/ (h \in working <=> is_allowed_now(now, Merged(h)))
          /\ m.left = 0 \/ Covers(m, h)
      BY <1>4, <2>1, <2>2, <2>4, <3>2 DEF Waits
    <3>4. Timely(now, Merged(h)) \/ Due(h)
      <4>1. CASE m.left = 0
        BY <3>2, <4>1 DEF Due
      <4>2. CASE m.left # 0
        <5>1. m.left \in Nat \ {0} /\ m.edits = edits /\ Lasts(m, now, Merged(h))
          BY <1>0, <3>3, <4>2 DEF Counts, Covers
        <5>2. ~m.fallback => OnTarget(m, now, Merged(h))
          BY <1>0, <3>2, <5>1 DEF Targets, Targeted, Current
        <5> QED BY <1>2, <5>1, <5>2, LastingIsTimely
      <4> QED BY <4>1, <4>2
    <3>5. Arming(h)' = {x}
      BY <1>4, <2>1
    <3> QED BY <1>1, <1>2, <1>3, <1>8, <3>3, <3>4, <3>5 DEF Waits
  <2> QED BY <2>3, <2>4
<1>11. \A k \in followed' \ overlapped' : Follows(k)'
  <2>1. ASSUME NEW k \in followed' \ overlapped', k # h PROVE Follows(k)'
    <3>1. k \in followed \ overlapped /\ k \in Hosts
      BY <1>0, <1>1, <1>9, <2>1 DEF Counts
    <3> QED BY <1>0, <1>7, <2>1, <3>1
  <2>2. ASSUME h \in followed' \ overlapped' PROVE Follows(h)'
    BY <1>2, <1>10, <2>2 DEF Follows
  <2> QED BY <2>1, <2>2
<1> QED BY <1>5, <1>6, <1>9, <1>11 DEF FollowsInv

(* The new timer is on target, and comes before the next change if it is   *)
(* set in time; one that is due is not cancelled unnoticed.                *)
LEMMA ArmFollows ==
  ASSUME Inv, NEW x \in Slots, Arm(x), NEW h, thread[x].host = h
  PROVE  FollowsInv'
<1> DEFINE s == Merged(h)
<1>0. /\ Shape /\ Identified /\ Single /\ Counts /\ Targets
      /\ \A k \in Hosts \ overlapped : InTurn(k)
      /\ \A k \in followed \ overlapped : Follows(k)
  BY DEF Inv, FollowsInv, TimersInv
<1>1. /\ thread[x].pc = "arm"
      /\ thread' = [thread EXCEPT ![x].pc = "store", ![x].timer = NewTimer(h)]
      /\ live' = {m \in live : m.id # timers[h]}
      /\ followed' = IF \E m \in live : m.id = timers[h] /\ m.left = 0
                     THEN followed \ {h} ELSE followed
      /\ UNCHANGED <<now, database, timers, working, overlapped>>
  BY DEF Arm
<1>2. /\ DOMAIN thread = Slots /\ ThreadOK(thread[x]) /\ h \in Hosts /\ now \in Nat
      /\ edits \in Nat /\ edits' = edits /\ \A h1 : Merged(h1)' = Merged(h1)
  <2>1. Week \in Nat \ {0}
    BY WorkerSchedulerAssumption DEF Week
  <2> QED BY <1>0, <1>1, <2>1, SameMerged DEF Shape, ThreadOK, Counts, database
<1>3. PICK m : m = NewTimer(h)
  OBVIOUS
<1>4. /\ m.host = h /\ m.edits = edits /\ m.left \in Nat \ {0}
      /\ ~m.fallback => OnTarget(m, now, s)
      /\ ChangesAtBoundaries(s) /\ Timely(now, s) => Lasts(m, now, s)
  <2>1. /\ m.host = h /\ m.edits = edits /\ m.left = next_transition(now, s) - now
        /\ m.fallback <=> Changes(now, s) = {}
        /\ m.action = (IF is_allowed_now(now, s) THEN "STOP" ELSE "START")
    BY <1>3 DEF NewTimer
  <2>2. TimesOfDay(s)
    BY <1>0, <1>2, MergedTimes
  <2> HIDE DEF s
  <2>3. next_transition(now, s) \in Nat /\ now < next_transition(now, s)
    BY <1>2, <2>2, TransitionAhead
  <2>4. m.left \in Nat \ {0}
    BY <1>2, <2>1, <2>3
  <2>5. ~m.fallback => OnTarget(m, now, s)
    BY <1>2, <2>1, <2>2, NewIsOnTarget
  <2>6. ChangesAtBoundaries(s) /\ Timely(now, s) => Lasts(m, now, s)
    BY <1>2, <2>1, <2>2, NewLasts
  <2> QED BY <2>1, <2>4, <2>5, <2>6
<1>5. /\ thread'[x].pc = "store" /\ thread'[x].host = h /\ thread'[x].timer = m
      /\ \A y \in Slots \ {x} : thread'[y] = thread[y]
  BY <1>1, <1>2, <1>3 DEF ThreadOK
<1>6. /\ Storing' = Storing \cup {x} /\ x \notin Storing
      /\ \A y \in Storing : thread'[y] = thread[y]
      /\ Switching(h)' = Switching(h) /\ \A y \in Switching(h) : thread'[y] = thread[y]
      /\ Arming(h)' = Arming(h) /\ x \in Arming(h)
  BY <1>1, <1>5 DEF Storing, Switching, Arming
<1>7. Counts'
  <2>1. \A y \in Storing' : /\ thread'[y].timer.left \in Nat \ {0}
                            /\ thread'[y].timer.edits \in 0..edits
    BY <1>0, <1>2, <1>4, <1>5, <1>6 DEF Counts
  <2> QED BY <1>0, <1>1, <1>2, <1>5, <2>1 DEF Counts, database
<1>8. Targets'
  <2>1. \A y \in Storing' : ~thread'[y].timer.fallback /\ thread'[y].timer.edits = edits =>
          OnTarget(thread'[y].timer, now, Merged(thread'[y].timer.host))
    BY <1>0, <1>4, <1>5, <1>6 DEF Targets, Targeted, Current
  <2> QED BY <1>0, <1>1, <1>2, <2>1 DEF Targets, Targeted, Current
<1>9. ASSUME NEW k \in Hosts, k # h
      PROVE  (InTurn(k) => InTurn(k)') /\ (Follows(k) => Follows(k)')
  <2>1. \A n : n.host = k => (n \in live' <=> n \in live)
    BY <1>0, <1>1, <1>2, <1>9 DEF Identified
  <2>2. \A y \in Slots : thread'[y] = thread[y] \/ (thread[y].host # k /\ thread'[y].host # k)
    BY <1>5, <1>9
  <2> QED BY <1>1, <2>1, <2>2, OthersFollow
<1>10. \A k \in Hosts \ overlapped' : InTurn(k)'
  <2>1. Due(h)' => Due(h)
    BY <1>1 DEF Due
  <2>2. InTurn(h) => InTurn(h)'
    BY <1>6, <2>1 DEF InTurn
  <2> QED BY <1>0, <1>1, <1>9, <2>2
<1>11. ASSUME h \in followed' \ overlapped', ChangesAtBoundaries(s)
       PROVE  Switches(h)' /\ (Switching(h)' = {} => Waits(h)')
  <2>1. h \in followed \ overlapped
    BY <1>1, <1>11
  <2>2. Switches(h) /\ (Switching(h) = {} => Waits(h))
    BY <1>0, <1>11, <2>1 DEF Follows
  <2>3. Switches(h)'
    <3> HIDE DEF s
    <3>1. \A y \in Switching(h)' : thread'[y] = thread[y] /\ y \in Switching(h)
      BY <1>6
    <3>2. Merged(h)' = Merged(h) /\ now' = now
      BY <1>1, <1>2
    <3> QED BY <1>6, <2>2, <3>1, <3>2 DEF Switches
  <2>4. ASSUME Switching(h)' = {} PROVE Waits(h)'
    <3>1. ~Due(h)
      BY <1>0, <1>1, <1>2, <1>11 DEF Due, Single
    <3>2. /\ h \in working <=> is_allowed_now(now, s)
          /\ Timely(now, s)
      BY <1>1, <1>6, <2>2, <2>4, <3>1 DEF Waits
    <3>3. Arming(h)' = {x}
      BY <1>0, <1>2, <1>6, <1>11, <2>1 DEF Single
    <3>4. thread'[x].pc = "store" /\ Covers(thread[x].timer, h)'
      BY <1>1, <1>2, <1>4, <1>5, <1>11, <3>2 DEF Covers
    <3> QED BY <1>1, <1>2, <3>2, <3>3, <3>4 DEF Waits
  <2> QED BY <2>3, <2>4
<1>12. \A k \in followed' \ overlapped' : Follows(k)'
  <2>1. ASSUME NEW k \in followed' \ overlapped', k # h PROVE Follows(k)'
    <3>1. k \in followed \ overlapped /\ k \in Hosts
      BY <1>0, <1>1, <2>1 DEF Counts
    <3> QED BY <1>0, <1>9, <2>1, <3>1
  <2>2. ASSUME h \in followed' \ overlapped' PROVE Follows(h)'
    BY <1>2, <1>11, <2>2 DEF Follows
  <2> QED BY <2>1, <2>2
<1> QED BY <1>7, <1>8, <1>10, <1>12 DEF FollowsInv

(* The timer that starts is the only one, and comes before the change.     *)
LEMMA StoreFollows ==
  ASSUME Inv, NEW x \in Slots, Store(x), NEW h, thread[x].host = h, NEW m, thread[x].timer = m
  PROVE  FollowsInv'
<1>0. /\ Shape /\ Single /\ Counts /\ Targets
      /\ \A k \in Hosts \ overlapped : InTurn(k)
      /\ \A k \in followed \ overlapped : Follows(k)
  BY DEF Inv, FollowsInv, TimersInv
<1>1. /\ thread[x].pc = "store" /\ live' = live \cup {m}
      /\ timers' = [timers EXCEPT ![m.host] = m.id]
      /\ thread' = [thread EXCEPT ![x] = Idle]
      /\ UNCHANGED <<now, database, working, followed, overlapped>>
  BY DEF Store
<1>2. /\ DOMAIN thread = Slots /\ ThreadOK(thread[x])
      /\ \A h1 : Merged(h1)' = Merged(h1) /\ edits' = edits
  BY <1>0, <1>1, SameMerged DEF Shape, database
<1>3. /\ h \in Hosts /\ m.host = h /\ m.id \in Nat /\ x \in Storing /\ x \in Arming(h)
      /\ m.left \in Nat \ {0} /\ m.edits \in 0..edits
  <2>1. TimerOK(m) /\ m.host = h /\ x \in Storing /\ x \in Arming(h)
    BY <1>1, <1>2 DEF ThreadOK, Storing, Arming
  <2> QED BY <1>0, <2>1 DEF Counts, TimerOK
<1>4. /\ thread'[x] = Idle /\ Idle.pc = "idle" /\ Idle.host = None
      /\ \A y \in Slots \ {x} : thread'[y] = thread[y]
      /\ None \notin Nat /\ None \notin Hosts
  BY <1>1, <1>2, WorkerSchedulerAssumption DEF Idle
<1>5. /\ Storing' = Storing \ {x} /\ (\A y \in Storing' : thread'[y] = thread[y])
      /\ Switching(h)' = Switching(h) /\ (\A y \in Switching(h) : thread'[y] = thread[y])
      /\ Arming(h)' = Arming(h) \ {x}
  BY <1>1, <1>4 DEF Storing, Switching, Arming
<1>6. Counts'
  <2>1. \A k \in Hosts : /\ timers[k] # None => timers'[k] # None
                         /\ timers'[h] # None
    BY <1>0, <1>1, <1>3, <1>4 DEF Shape
  <2>2. \A n \in live' : n.left \in Nat /\ n.edits \in 0..edits /\ timers'[n.host] # None
    BY <1>0, <1>1, <1>3, <2>1 DEF Counts, Shape, TimerOK
  <2>3. \A y \in Slots : /\ thread'[y].pc = "wkctl" => thread'[y].timer \in Nat
                         /\ thread'[y].pc = "idle" => thread'[y].host = None
    BY <1>0, <1>4 DEF Counts
  <2>4. \A y \in Storing' : /\ thread'[y].timer.left \in Nat \ {0}
                            /\ thread'[y].timer.edits \in 0..edits
    BY <1>0, <1>5 DEF Counts
  <2> QED BY <1>0, <1>1, <1>2, <2>1, <2>2, <2>3, <2>4 DEF Counts, database
<1>7. Targets'
  <2>1. Targeted(m)
    BY <1>0, <1>3 DEF Targets
  <2>2. \A n \in live' : n.edits = edits /\ ~n.fallback => OnTarget(n, now, Merged(n.host))
    BY <1>0, <1>1, <2>1 DEF Targets, Targeted, Current
  <2>3. \A y \in Storing' : thread'[y].timer.edits = edits /\ ~thread'[y].timer.fallback =>
          OnTarget(thread'[y].timer, now, Merged(thread'[y].timer.host))
    BY <1>0, <1>5 DEF Targets, Targeted, Current
  <2> QED BY <1>1, <1>2, <2>2, <2>3 DEF Targets, Targeted, Current
<1>8. ASSUME NEW k \in Hosts, k # h
      PROVE  (InTurn(k) => InTurn(k)') /\ (Follows(k) => Follows(k)')
  <2>1. \A n : n.host = k => (n \in live' <=> n \in live)
    BY <1>1, <1>3, <1>8
  <2>2. \A y \in Slots : thread'[y] = thread[y] \/ (thread[y].host # k /\ thread'[y].host # k)
    BY <1>4, <1>8
  <2> QED BY <1>1, <2>1, <2>2, OthersFollow
<1>9. Due(h)' <=> Due(h)
  BY <1>1, <1>3 DEF Due
<1>10. \A k \in Hosts \ overlapped' : InTurn(k)'
  <2>1. InTurn(h) => InTurn(h)'
    BY <1>5, <1>9 DEF InTurn
  <2> QED BY <1>0, <1>1, <1>8, <2>1
<1>11. ASSUME h \in followed' \ overlapped', ChangesAtBoundaries(Merged(h))
       PROVE  Switches(h)' /\ (Switching(h)' = {} => Waits(h)')
  <2>1. h \in followed \ overlapped
    BY <1>1, <1>11
  <2>2. Switches(h) /\ (Switching(h) = {} => Waits(h))
    BY <1>0, <1>11, <2>1 DEF Follows
  <2>3. Merged(h)' = Merged(h) /\ now' = now /\ edits' = edits /\ working' = working
    BY <1>1, <1>2
  <2>4. Switches(h)'
    BY <1>5, <2>2, <2>3 DEF Switches
  <2>5. ASSUME Switching(h)' = {} PROVE Waits(h)'
    <3>1. /\ Due(h) \/ (h \in working <=> is_allowed_now(now, Merged(h)))
          /\ Covers(m, h)
      BY <1>1, <1>3, <1>5, <2>2, <2>5 DEF Waits
    <3>2. Arming(h)' = {} /\ \A n \in live' : n.host = h => n = m
      BY <1>0, <1>1, <1>3, <1>5, <2>1, WorkerSchedulerAssumption DEF Single, Storing, Arming
    <3>3. Covers(m, h)'
      BY <2>3, <3>1 DEF Covers
    <3> QED BY <1>9, <2>3, <3>1, <3>2, <3>3 DEF Waits
  <2> QED BY <2>4, <2>5
<1>12. \A k \in followed' \ overlapped' : Follows(k)'
  <2>1. ASSUME NEW k \in followed' \ overlapped', k # h PROVE Follows(k)'
    <3>1. k \in followed \ overlapped /\ k \in Hosts
      BY <1>0, <1>1, <2>1 DEF Counts
    <3> QED BY <1>0, <1>8, <2>1, <3>1
  <2>2. ASSUME h \in followed' \ overlapped' PROVE Follows(h)'
    BY <1>2, <1>11, <2>2 DEF Follows
  <2> QED BY <2>1, <2>2
<1> QED BY <1>6, <1>7, <1>10, <1>12 DEF FollowsInv

(* After an edit no host counts as following, and no timer as current.     *)
LEMMA EditFollows ==
  ASSUME Inv, Edit, DOMAIN stored' = Hosts, \A h \in Hosts : HoursOK(stored'[h]), HoursOK(default')
  PROVE  FollowsInv'
<1>0. Counts /\ \A k \in Hosts \ overlapped : InTurn(k)
  BY DEF Inv, FollowsInv
<1>1. /\ edits' = edits + 1 /\ followed' = {}
      /\ UNCHANGED <<now, timers, live, thread, working, overlapped>>
  BY DEF Edit
<1>2. Storing' = Storing /\ \A h : Switching(h)' = Switching(h) /\ (Due(h)' <=> Due(h))
  BY <1>1 DEF Storing, Switching, Due
<1>3. Counts'
  BY <1>0, <1>1, <1>2 DEF Counts
<1>4. Targets'
  BY <1>0, <1>1, <1>2 DEF Targets, Targeted, Current, Counts
<1>5. \A h \in Hosts \ overlapped' : InTurn(h)'
  BY <1>0, <1>1, <1>2 DEF InTurn
<1> QED BY <1>1, <1>3, <1>4, <1>5 DEF FollowsInv

LEMMA InvNext == Inv /\ [Next]_vars => Inv'
<1> SUFFICES ASSUME Inv, [Next]_vars PROVE Inv'
  OBVIOUS
<1>1. TimersInv'
  BY TimersInvNext DEF Inv
<1>2. CASE Tick
  BY <1>1, <1>2, TickFollows DEF Inv
<1>3. ASSUME NEW x \in Slots, Wkctl(x) PROVE FollowsInv'
  BY <1>3, WkctlFollows
<1>4. ASSUME NEW x \in Slots, Arm(x) PROVE FollowsInv'
  BY <1>4, ArmFollows
<1>5. ASSUME NEW x \in Slots, Store(x) PROVE FollowsInv'
  BY <1>5, StoreFollows
<1>6. ASSUME NEW x \in Slots, NEW m \in live, Fire(m, x) PROVE FollowsInv'
  BY <1>6, FireFollows
<1>7. ASSUME NEW x \in Slots, NEW h \in Hosts, ArmScheduled(h, x) PROVE FollowsInv'
  BY <1>7, ArmScheduledFollows
<1>8. CASE \/ \E h \in Hosts : save_worker_schedule(h) \/ delete_worker_schedule(h)
           \/ save_default_schedule
  <2>1. /\ DOMAIN stored = Hosts /\ (\A h \in Hosts : HoursOK(stored[h])) /\ HoursOK(default)
        /\ \A s \in Schedules : HoursOK(s)
    BY WorkerSchedulerAssumption DEF Inv, FollowsInv, Counts, HoursOK, TimeOfDay
  <2>2. ASSUME NEW h \in Hosts, save_worker_schedule(h) PROVE FollowsInv'
    BY <2>1, <2>2, EditFollows DEF save_worker_schedule
  <2>3. ASSUME NEW h \in Hosts, delete_worker_schedule(h) PROVE FollowsInv'
    <3>1. HoursOK([start |-> None, end |-> None, weekend |-> None])
      BY DEF HoursOK, TimeOfDay
    <3> QED BY <2>1, <2>3, <3>1, EditFollows DEF delete_worker_schedule
  <2>4. ASSUME save_default_schedule PROVE FollowsInv'
    BY <2>1, <2>4, EditFollows DEF save_default_schedule
  <2> QED BY <1>1, <1>8, <2>2, <2>3, <2>4 DEF Inv
<1>9. CASE UNCHANGED vars
  <2>1. /\ UNCHANGED <<now, database, timers, live, thread, working, followed, overlapped>>
        /\ UNCHANGED <<stored, default, edits>>
    BY <1>9 DEF vars, database
  <2>2. Storing' = Storing /\ \A h : Merged(h)' = Merged(h)
    BY <2>1, SameMerged DEF Storing
  <2>3. ASSUME NEW k \in Hosts
        PROVE  (InTurn(k) => InTurn(k)') /\ (Follows(k) => Follows(k)')
    BY <2>1, OthersFollow
  <2>4. Counts' /\ Targets'
    BY <2>1, <2>2 DEF Inv, FollowsInv, Counts, Targets, Targeted, Current
  <2> QED BY <1>1, <2>1, <2>3, <2>4 DEF Inv, FollowsInv, Counts
<1> QED BY <1>1, <1>2, <1>3, <1>4, <1>5, <1>6, <1>7, <1>8, <1>9 DEF Next, Inv

(* Between two transitions of a host that follows its schedule no thread   *)
(* is at work for it, and no timer is due.                                 *)
LEMMA InvImplies == Inv => WorkerFollows
<1> SUFFICES ASSUME Inv, NEW h \in followed \ overlapped,
                    ChangesAtBoundaries(Merged(h)), ~Busy(h)
             PROVE  h \in working <=> is_allowed_now(now, Merged(h))
  BY DEF WorkerFollows
<1>1. Switching(h) = {} /\ ~Due(h)
  BY DEF Busy, Switching, Due
<1> QED BY <1>1 DEF Inv, FollowsInv, Follows, Waits

(* A host that no two threads armed at a time has at most one timer that   *)
(* runs (WorkerScheduler._arm_timer_for_worker and _execute_transition).   *)
THEOREM OneTimerPerHost == Spec => []OneTimer
<1>1. TimersInv => OneTimer
  BY TimersInvImplies
<1> QED BY <1>1, TimersInvInit, TimersInvNext, PTL DEF Spec

(* A host that was armed has a timer that runs, or a thread that will arm  *)
(* the next, whatever wkctl answers and however its schedule is edited.    *)
THEOREM NeverDisarmed == Spec => []StaysArmed
<1>1. TimersInv => StaysArmed
  BY TimersInvImplies
<1> QED BY <1>1, TimersInvInit, TimersInvNext, PTL DEF Spec

(* Whatever the schedules, requests and slow or failing runs of wkctl: the *)
(* worker of a host whose last transition went as planned runs just when   *)
(* its schedule allows it, until the next (_calculate_next_transition,     *)
(* _execute_transition), of schedules that change at their bounds.         *)
THEOREM WorkersFollowSchedules == Spec => []WorkerFollows
<1>1. Init => Inv
  BY TimersInvInit, InitFollows DEF Inv
<1>2. Inv => WorkerFollows
  BY InvImplies
<1> QED BY <1>1, <1>2, InvNext, PTL DEF Spec
=============================================================================
