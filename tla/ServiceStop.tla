---------------------------- MODULE ServiceStop ----------------------------
(***************************************************************************)
(* Stopping a node: worker_service.sh stop sends SIGTERM to one group of   *)
(* processes after the other, waits for each group up to a deadline and    *)
(* kills what is left of it.  A graceful stop also lets the GPU workers    *)
(* drain and sends the broker a SIGHUP, upon which it is to tear down the  *)
(* tasks whose dependencies will not be met any more.                      *)
(*                                                                         *)
(* The processes are those of LocalQueue and go on working until their own *)
(* signal arrives.  A deadline may always pass: time is not modelled.      *)
(***************************************************************************)
EXTENDS LocalQueueProperties

CONSTANT Graceful   \* TRUE for stop --graceful

ASSUME GracefulAssumption == Graceful \in BOOLEAN

VARIABLES
  phase,      \* what cmd_stop waits for
  termed,     \* the processes that have been sent SIGTERM
  hup,        \* LocalBroker.graceful_shutdown_requested
  brokerUp,   \* TRUE until the broker's loop has ended
  cancels     \* tasks with a graceful_cancel_running_task message in cpu_queue

stop == <<phase, termed, hup, brokerUp, cancels>>
all  == <<vars, stop>>

Phase == {"serve", "readers", "drain", "gpu", "hup", "cpu", "broker", "done"}

StopInit ==
  /\ Init
  /\ phase = "serve" /\ termed = {} /\ hup = FALSE
  /\ brokerUp = TRUE /\ cancels = {}

-----------------------------------------------------------------------------
(* The processes.  SIGTERM clears `running' of a worker's or reader's loop *)
(* and wakes it from its select: it takes nothing more up, but finishes    *)
(* the handler it is in.                                                   *)

\* Killed in the middle of its forwards only once the deadline may have passed.
HandleOn(w) == Handle(w) /\ (running' # running => w \in termed)

Serving ==
  /\ \/ \E r \in Readers \ termed : Fetch(r) \/ ReceiveAck(r)
     \/ \E w \in Workers \ termed : GetTask(w) \/ ReceiveReply(w)
     \/ \E w \in Workers : HandleOn(w)
     \/ brokerUp /\ \E p \in Procs : Broker(p)
  /\ UNCHANGED stop

Exit(p) ==
  /\ p \in termed \cap running
  /\ p \in Workers => hand[p] = <<>>
  /\ running' = running \ {p}
  /\ UNCHANGED <<db, tmpdirs, awaiting, worker, broker, toBroker, toWorker, fanouts,
                 bounds, stop>>

-----------------------------------------------------------------------------
(* cmd_stop                                                                *)

Group(ph) == CASE ph = "readers" -> Readers
               [] ph = "gpu"     -> GpuWorkers
               [] ph = "cpu"     -> CpuWorkers
               [] OTHER          -> {}

NextPhase ==
  CASE phase = "serve"   -> "readers"
    [] phase = "readers" -> IF Graceful THEN "drain" ELSE "gpu"
    [] phase = "drain"   -> "gpu"
    [] phase = "gpu"     -> IF Graceful THEN "hup" ELSE "cpu"
    [] phase = "hup"     -> "cpu"
    [] phase = "cpu"     -> "broker"
    [] OTHER             -> "done"

\* The signals with which the script begins to wait for the next group.
EnterNext ==
  /\ phase' = NextPhase
  /\ termed' = termed \cup (Group(NextPhase) \cap running)
  /\ hup' = (hup \/ NextPhase = "hup")
  /\ UNCHANGED <<brokerUp, cancels>>

\* Fault: the script does not wait for the processes it has signalled.
AdvanceAtOnce ==
  /\ phase \notin {"broker", "done"}
  /\ EnterNext
  /\ UNCHANGED vars

\* Every process of the group has ended (or the sleep of drain and hup is over).
Advance ==
  /\ phase \notin {"broker", "done"}
  /\ Group(phase) \cap running = {}
  /\ EnterNext
  /\ UNCHANGED vars

\* Fault: the script waits for as long as it takes.
ForceKillNever == FALSE /\ UNCHANGED all

\* The deadline has passed: SIGKILL to the rest of the group.
ForceKill ==
  /\ Group(phase) \cap running # {}
  /\ running' = running \ Group(phase)
  /\ EnterNext
  /\ UNCHANGED <<db, tmpdirs, awaiting, worker, broker, toBroker, toWorker, fanouts, bounds>>

\* _teardown_blocked_messages of the messages ms.
Teardown(ms) ==
  /\ tmpdirs' = tmpdirs \ { b.task : b \in ms }
  /\ cancels' = cancels \cup { b.task : b \in ms }

BrokerEnds ==
  /\ phase = "broker"
  /\ phase' = NextPhase /\ brokerUp' = FALSE
  /\ UNCHANGED <<db, awaiting, worker, running, connected, named, queue, pendingAcks,
                 toBroker, toWorker, fanouts, bounds, termed, hup>>

\* SIGTERM ends the broker's loop; what is blocked is torn down after it.
StopBroker ==
  /\ BrokerEnds
  /\ IF hup THEN Teardown(blocked) /\ blocked' = {}
            ELSE UNCHANGED <<tmpdirs, cancels, blocked>>

\* The deadline passes in the middle of the teardown.
KillBroker ==
  /\ BrokerEnds
  /\ hup /\ \E ms \in SUBSET blocked : Teardown(ms)
  /\ UNCHANGED blocked

Script == Advance \/ ForceKill \/ StopBroker \/ KillBroker

StopNext == Serving \/ (\E p \in Procs : Exit(p)) \/ Script

\* The script goes on once it has begun; nothing is assumed of the processes,
\* whose handlers may hang.
StopSpec == StopInit /\ [][StopNext]_all /\ WF_all(phase # "serve" /\ Script)

-----------------------------------------------------------------------------
\* The directory a GPU worker benchmarks in is there as long as it runs: the
\* broker's teardown, which removes it, comes after the end of the GPU workers
\* (cmd_stop's order, stop_process_group's wait).
DirectoryInUse ==
  \A w \in GpuWorkers \cap running :
    Handling(w, "probe") \/ Handling(w, TuneClass) => Head(hand[w]).task \in tmpdirs

\* A stop that has begun ends, whatever the processes do with their SIGTERM.
StopEnds == phase # "serve" ~> phase = "done"

\* _teardown_blocked_messages: what it cancels is pending again when all is over.
TeardownCancels ==
  phase = "done" => \A t \in cancels : status[t] = "pending"

\* Nothing more will write the results of a completed task once the node is
\* down: they have to be there.
StoppedWithResults ==
  phase = "done" => \A t \in Tasks : status[t] = "completed" => Dispatched(t) \subseteq saved[t]
=============================================================================
