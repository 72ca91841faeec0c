--------------------------- MODULE WorkerScheduler ---------------------------
(***************************************************************************)
(* The office hours of the web console (.tune/webui/scheduler.py): timers  *)
(* that start and stop the tuning workers of a host at the boundaries of   *)
(* its schedule, re-armed by each transition and by the request that arms  *)
(* all scheduled hosts, and the schedules in workers.db that both read.    *)
(* A tick is a second; a day has few of them, and a week few days.         *)
(***************************************************************************)
EXTENDS Integers, FiniteSets, FiniteSetsExt

CONSTANTS
  Hosts, Slots,               \* Slots: threads of requests and of fired timers
  TicksPerDay, Days, Weekdays,\* a week: Weekdays days, then the weekend
  DefaultStart, DefaultEnd,   \* '18:00' and '08:00' of _calculate_next_transition
  Schedules,                  \* what a request may save
  None,
  MaxEdits, MaxArms, MaxWait  \* bounds: requests; ticks a wkctl takes

ASSUME WorkerSchedulerAssumption ==
  /\ TicksPerDay \in Nat \ {0} /\ Days \in Nat \ {0} /\ Weekdays \in 0..Days
  /\ DefaultStart \in 0..(TicksPerDay - 1) /\ DefaultEnd \in 0..(TicksPerDay - 1)
  /\ IsFiniteSet(Hosts) /\ IsFiniteSet(Slots)
  /\ None \notin Nat /\ None \notin Hosts
  /\ \A s \in Schedules : {s.start, s.end} \subseteq 0..(TicksPerDay - 1) \cup {None}

VARIABLES
  now,        \* ticks since Monday 0:00
  stored,     \* [Hosts -> schedule]: the rows of a host, None where there is none
  default,    \* the default schedule
  enabled,    \* hosts with schedule::enabled = true and the role of a tuner
  timers,     \* WorkerScheduler.timers: host -> id of its timer
  live,       \* timers that were started, neither cancelled nor fired
  thread,     \* [Slots -> thread]
  working,    \* hosts whose worker runs
  followed,   \* observer: hosts whose last transition went as planned
  overlapped, \* observer: hosts two threads were arming at a time
  edits, arms

database == <<stored, default, enabled, edits>>
vars == <<now, database, timers, live, thread, working, followed, overlapped, arms>>

Idle == [pc |-> "idle", host |-> None, action |-> None, timer |-> None]

-----------------------------------------------------------------------------
(* Schedules. *)

Or(value, other) == IF value = None THEN other ELSE value

Merged(h) ==
  [start   |-> Or(stored[h].start, default.start),
   end     |-> Or(stored[h].end, default.end),
   weekend |-> Or(stored[h].weekend, default.weekend)]

is_weekday(t) == (t \div TicksPerDay) % Days < Weekdays
time(t) == t % TicksPerDay

is_allowed_now(t, s) ==
  IF ~is_weekday(t) THEN s.weekend = "true"
  ELSE \/ s.start = None \/ s.end = None
       \/ s.start # None /\ s.end # None /\ s.start <= s.end /\ time(t) \in s.start..s.end
       \/ s.start # None /\ s.end # None /\ s.start > s.end
                         /\ (time(t) >= s.start \/ time(t) <= s.end)

Boundaries(s) == {Or(s.start, DefaultStart), Or(s.end, DefaultEnd)}

(* The boundaries of today that are still to come and of the next week.    *)
Candidates(t, s) ==
  {c \in {(t \div TicksPerDay + d) * TicksPerDay + b : d \in 0..Days, b \in Boundaries(s)} :
     c > t}

\* Fault: the state is taken at the boundary and not behind it.
ChangesAt(t, s) ==
  {c \in Candidates(t, s) : is_allowed_now(c, s) # is_allowed_now(t, s)}

Changes(t, s) ==
  {c \in Candidates(t, s) : is_allowed_now(c + 1, s) # is_allowed_now(t, s)}

next_transition(t, s) ==
  IF Changes(t, s) # {} THEN Min(Changes(t, s)) ELSE t + TicksPerDay

-----------------------------------------------------------------------------
Init ==
  /\ now = 0
  /\ stored \in [Hosts -> Schedules] /\ default \in Schedules
  /\ enabled \in SUBSET Hosts
  /\ timers = [h \in Hosts |-> None] /\ live = {}
  /\ thread = [x \in Slots |-> Idle]
  /\ working \in SUBSET Hosts
  /\ followed = {} /\ overlapped = {}
  /\ edits = 0 /\ arms = 0

Arming(h) == {x \in Slots : thread[x].host = h /\ thread[x].pc \in {"arm", "store"}}

Overlaps(h) ==
  overlapped' = IF Arming(h) # {} THEN overlapped \cup {h} ELSE overlapped

(* Time passes in the wkctl of a thread only; a timer that is due fires.   *)
Tick ==
  /\ \A m \in live : m.left > 0
  /\ \A x \in Slots : thread[x].pc \in {"idle", "wkctl"} /\ thread[x].timer # MaxWait
  /\ now' = (now + 1) % (TicksPerDay * Days)
  /\ live' = {[m EXCEPT !.left = @ - 1] : m \in live}
  /\ thread' = [x \in Slots |-> IF thread[x].pc = "wkctl"
                                THEN [thread[x] EXCEPT !.timer = @ + 1] ELSE thread[x]]
  /\ UNCHANGED <<database, timers, working, followed, overlapped, arms>>

(* _execute_transition: its action was fixed when the timer was armed.     *)
Fire(m, x) ==
  /\ m \in live /\ m.left = 0 /\ thread[x] = Idle
  /\ live' = live \ {m}
  /\ thread' = [thread EXCEPT ![x] = [pc |-> "wkctl", host |-> m.host,
                                      action |-> m.action, timer |-> 0]]
  /\ followed' = IF m.fallback \/ m.edits # edits THEN followed \ {m.host}
                 ELSE followed \cup {m.host}
  /\ UNCHANGED <<now, database, timers, working, overlapped, arms>>

\* Fault: a transition whose wkctl failed is not armed again.
WkctlOrGiveUp(x) ==
  LET h == thread[x].host
  IN  /\ thread[x].pc = "wkctl" /\ thread[x].timer > 0
      /\ \/ /\ working' = IF thread[x].action = "START" THEN working \cup {h}
                                                         ELSE working \ {h}
            /\ followed' = IF thread[x].timer = 1 THEN followed ELSE followed \ {h}
            /\ thread' = [thread EXCEPT ![x].pc = "arm", ![x].timer = None]
         \/ /\ followed' = followed \ {h} /\ UNCHANGED working
            /\ thread' = [thread EXCEPT ![x] = Idle]
      /\ Overlaps(h)
      /\ UNCHANGED <<now, database, timers, live, arms>>

(* wkctl takes a second or more and may fail, which is logged.             *)
Wkctl(x) ==
  LET h == thread[x].host
  IN  /\ thread[x].pc = "wkctl" /\ thread[x].timer > 0
      /\ \/ /\ working' = IF thread[x].action = "START" THEN working \cup {h}
                                                         ELSE working \ {h}
            /\ followed' = IF thread[x].timer = 1 THEN followed ELSE followed \ {h}
         \/ followed' = followed \ {h} /\ UNCHANGED working
      /\ thread' = [thread EXCEPT ![x].pc = "arm", ![x].timer = None]
      /\ Overlaps(h)
      /\ UNCHANGED <<now, database, timers, live, arms>>

(* arm_all_scheduled_workers, for one of its hosts.                        *)
ArmScheduled(h, x) ==
  /\ arms < MaxArms /\ thread[x] = Idle
  /\ h \in enabled /\ Merged(h).start # None /\ Merged(h).end # None
  /\ thread' = [thread EXCEPT ![x] = [Idle EXCEPT !.pc = "arm", !.host = h]]
  /\ Overlaps(h)
  /\ arms' = arms + 1
  /\ UNCHANGED <<now, database, timers, live, working, followed>>

(* Timer objects are told apart by a number: a new one has none of those   *)
(* that run, are to be stored or are in the dictionary, fired ones too.    *)
Known(i) ==
  \/ \E m \in live : m.id = i
  \/ \E x \in Slots : thread[x].pc = "store" /\ thread[x].timer.id = i
  \/ \E h \in Hosts : timers[h] = i

Unknown ==
  CHOOSE i \in 1..(Cardinality(live) + Cardinality(Slots) + Cardinality(Hosts) + 1) : ~Known(i)

NewTimer(h) ==
  LET s == Merged(h)
  IN  [host     |-> h,
       id       |-> Unknown,
       action   |-> IF is_allowed_now(now, s) THEN "STOP" ELSE "START",
       left     |-> next_transition(now, s) - now,
       fallback |-> Changes(now, s) = {},
       edits    |-> edits]

\* Fault: the timer of the host goes on.
ArmAnother(x) ==
  LET h == thread[x].host
  IN  /\ thread[x].pc = "arm"
      /\ thread' = [thread EXCEPT ![x].pc = "store", ![x].timer = NewTimer(h)]
      /\ UNCHANGED <<now, database, timers, live, working, followed, overlapped, arms>>

(* _arm_timer_for_worker, up to the cancelling of the timer of the host.   *)
Arm(x) ==
  LET h == thread[x].host
  IN  /\ thread[x].pc = "arm"
      /\ thread' = [thread EXCEPT ![x].pc = "store", ![x].timer = NewTimer(h)]
      /\ live' = {m \in live : m.id # timers[h]}
      /\ followed' = IF \E m \in live : m.id = timers[h] /\ m.left = 0
                     THEN followed \ {h} ELSE followed    \* a due one is lost
      /\ UNCHANGED <<now, database, timers, working, overlapped, arms>>

(* The new timer starts and takes its place in the dictionary.             *)
Store(x) ==
  LET m == thread[x].timer
  IN  /\ thread[x].pc = "store"
      /\ live' = live \cup {m}
      /\ timers' = [timers EXCEPT ![m.host] = m.id]
      /\ thread' = [thread EXCEPT ![x] = Idle]
      /\ UNCHANGED <<now, database, working, followed, overlapped, arms>>

-----------------------------------------------------------------------------
(* Requests that edit the database; none of them looks at the timers.      *)
Edit ==
  /\ edits < MaxEdits /\ edits' = edits + 1
  /\ followed' = {}
  /\ UNCHANGED <<now, timers, live, thread, working, overlapped, arms>>

save_worker_schedule(h) ==
  /\ Edit /\ \E s \in Schedules : stored' = [stored EXCEPT ![h] = s]
  /\ enabled' \in {enabled \cup {h}, enabled \ {h}}
  /\ UNCHANGED default

delete_worker_schedule(h) ==
  /\ Edit
  /\ stored' = [stored EXCEPT ![h] = [start |-> None, end |-> None, weekend |-> None]]
  /\ UNCHANGED <<default, enabled>>

save_default_schedule ==
  /\ Edit /\ default' \in Schedules
  /\ UNCHANGED <<stored, enabled>>

Next ==
  \/ Tick
  \/ \E x \in Slots : \/ Wkctl(x) \/ Arm(x) \/ Store(x)
                      \/ \E m \in live : Fire(m, x)
                      \/ \E h \in Hosts : ArmScheduled(h, x)
  \/ \E h \in Hosts : save_worker_schedule(h) \/ delete_worker_schedule(h)
  \/ save_default_schedule

Spec == Init /\ [][Next]_vars

-----------------------------------------------------------------------------
(* Schedules whose state changes at their boundaries only and lasts beyond *)
(* them, with more than a tick between two: not those of an instant, nor   *)
(* those that change at a midnight of the weekend, which is no candidate.  *)
AtBoundary(t, s) == time(t) \in Boundaries(s)

ChangesAtBoundaries(s) ==
  \A t \in 0..(TicksPerDay * Days - 1) :
    /\ is_allowed_now(t, s) # is_allowed_now(t + 1, s) =>
         \/ AtBoundary(t, s)
         \/ AtBoundary(t + 1, s) /\ is_allowed_now(t + 1, s) = is_allowed_now(t + 2, s)
    /\ ~(AtBoundary(t, s) /\ AtBoundary(t + 1, s))

Busy(h) == \/ \E x \in Slots : thread[x].host = h
           \/ \E m \in live : m.host = h /\ m.left = 0

(* After a transition that went as planned, and until the next, the worker *)
(* runs just when its schedule allows it.                                  *)
WorkerFollows ==
  \A h \in followed \ overlapped :
    ChangesAtBoundaries(Merged(h)) /\ ~Busy(h) =>
      (h \in working <=> is_allowed_now(now, Merged(h)))

(* A host has one timer, or a transition of it is running, unless it was   *)
(* armed by two threads at a time.                                         *)
OneTimer ==
  \A h \in Hosts \ overlapped : Cardinality({m \in live : m.host = h}) <= 1

(* A host that was armed once is never without a timer again, whatever     *)
(* wkctl answers and however its schedule is edited.                       *)
StaysArmed ==
  \A h \in Hosts : timers[h] # None =>
    \/ \E m \in live : m.host = h
    \/ \E x \in Slots : thread[x].host = h
=============================================================================
