--------------------------- MODULE TaskLifecycle ---------------------------
(***************************************************************************)
(* What the tuning service promises of a row of task_queue and of the PG   *)
(* readers that throttle the intake: a reader claims a pending task, waits *)
(* until the task is finished, and only then claims another.               *)
(*                                                                         *)
(* Faulty admits what crashes, exceptions and resets of stale tasks do to  *)
(* the promise: a task claimed by nobody, a reader that forgets what it    *)
(* waited for, a task that goes back to pending and finishes twice.  What  *)
(* they never do is release a waiting reader before its task is finished,  *)
(* or take a finished task back.                                           *)
(***************************************************************************)
CONSTANTS Tasks, Readers, None, Faulty

VARIABLES status, awaiting
vars == <<status, awaiting>>

Terminal == {"completed", "failed"}

Init ==
  /\ status = [t \in Tasks |-> "pending"]
  /\ awaiting = [r \in Readers |-> None]

Claim(r, t) ==
  /\ awaiting[r] = None /\ status[t] = "pending"
  /\ status' = [status EXCEPT ![t] = "running"]
  /\ awaiting' = [awaiting EXCEPT ![r] = t]

Finish(t) ==
  /\ Faulty \/ status[t] = "running"
  /\ \E outcome \in Terminal : status' = [status EXCEPT ![t] = outcome]
  /\ UNCHANGED awaiting

Release(r) ==
  /\ awaiting[r] # None /\ status[awaiting[r]] \in Terminal
  /\ awaiting' = [awaiting EXCEPT ![r] = None]
  /\ UNCHANGED status

Orphan(t) ==
  /\ Faulty /\ status[t] = "pending"
  /\ status' = [status EXCEPT ![t] = "running"]
  /\ UNCHANGED awaiting

Forget(r) ==
  /\ Faulty
  /\ awaiting' = [awaiting EXCEPT ![r] = None]
  /\ UNCHANGED status

Reset(stale) ==
  /\ Faulty /\ \A t \in stale : status[t] = "running"
  /\ status' = [t \in Tasks |-> IF t \in stale THEN "pending" ELSE status[t]]
  /\ UNCHANGED awaiting

Next ==
  \/ \E r \in Readers : Release(r) \/ Forget(r) \/ \E t \in Tasks : Claim(r, t)
  \/ \E t \in Tasks : Finish(t) \/ Orphan(t)
  \/ \E stale \in SUBSET Tasks : Reset(stale)

Fairness ==
  /\ \A t \in Tasks : WF_vars(status[t] = "running" /\ Finish(t))
  /\ \A r \in Readers :
       WF_vars(Release(r)) /\ WF_vars(\E t \in Tasks : Claim(r, t))

Spec     == Init /\ [][Next]_vars
FairSpec == Spec /\ Fairness
=============================================================================
