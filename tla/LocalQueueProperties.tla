----------------------- MODULE LocalQueueProperties -----------------------
(***************************************************************************)
(* What the local tuning queue guarantees, and what its documentation says *)
(* it guarantees.  Each property names the circumstances it is meant for;  *)
(* the runs and the README say which of them hold where.                   *)
(***************************************************************************)
EXTENDS LocalQueue

Faulty == MaxStops + MaxRaises + MaxResets > 0

-----------------------------------------------------------------------------
(* Where a message can be                                                  *)

OnTheWayToBroker(p) ==
  { toBroker[p][i].message :
      i \in { j \in DOMAIN toBroker[p] : toBroker[p][j].type = "forward" } }
InQueue(q) == { queue[q][i] : i \in DOMAIN queue[q] }
OnTheWayToWorker(w) ==
  { toWorker[w][i].message :
      i \in { j \in DOMAIN toWorker[w] : toWorker[w][j].type = "task" } }
InHand(w) == { hand[w][i] : i \in DOMAIN hand[w] }

\* Copies of messages of task t and of one of the classes, everywhere but in
\* `blocked', each with the place it is in.
Copies(t, classes) ==
  LET wanted(s) == { i \in DOMAIN s : s[i].task = t /\ s[i].class \in classes }
      sent(p)   == { i \in DOMAIN toBroker[p] :
                       /\ toBroker[p][i].type = "forward"
                       /\ toBroker[p][i].message.task = t
                       /\ toBroker[p][i].message.class \in classes }
      replied(w) == { i \in DOMAIN toWorker[w] :
                       /\ toWorker[w][i].type = "task"
                       /\ toWorker[w][i].message.task = t
                       /\ toWorker[w][i].message.class \in classes }
  IN  (UNION { {"sent"} \X {p} \X sent(p) : p \in Procs })
      \cup (UNION { {"queued"} \X {q} \X wanted(queue[q]) : q \in QueueName })
      \cup (UNION { {"replied"} \X {w} \X replied(w) : w \in Workers })
      \cup (UNION { {"held"} \X {w} \X wanted(hand[w]) : w \in Workers })

\* The implementations of t whose result has not passed the broker yet.
ToCome(t) ==
  { m.impl : m \in { x \in (UNION { OnTheWayToBroker(p) : p \in Procs })
                           \cup InQueue("gpu_queue")
                           \cup (UNION { OnTheWayToWorker(w) \cup InHand(w) : w \in GpuWorkers }) :
                       x.class \in {TuneClass, ResultClass} /\ x.task = t } }

\* What the last probe of t dispatched.
Dispatched(t) == IF fanouts[t] = <<>> THEN {} ELSE fanouts[t][Len(fanouts[t])]

-----------------------------------------------------------------------------
(* Whatever stops, raises or is reset                                      *)

\* Priority order (_enqueue_with_priority): whoever pops a queue from the left
\* gets a message of the highest priority waiting.
SortedQueues == \A q \in QueueName : Sorted(queue[q])

AckSent(t) ==
  \E p \in Procs : \E i \in DOMAIN toBroker[p] :
    /\ toBroker[p][i].type = "forward"
    /\ toBroker[p][i].message.class = "tune_kernel_ack"
    /\ toBroker[p][i].message.task = t
AckDelivered(t) ==
  \E p \in Procs : \E i \in DOMAIN toWorker[p] :
    toWorker[p][i].type = "ack" /\ toWorker[p][i].task = t

\* An ack travels only when the database already says the task is finished
\* (Postprocess and MarkTaskFailed write the row before they return the ack),
\* also when the task was reset in the meantime and another run finished it.
AckAfterFinish ==
  \A t \in Tasks : AckSent(t) \/ AckDelivered(t) => status[t] \in Terminal

\* A reader leaves its ack wait only for a task that is finished, whatever
\* stale acks of earlier lives of the reader are in its socket.
ReleasedAfterFinish ==
  [][\A r \in running \cap Readers :
       awaiting[r] # None /\ awaiting'[r] # awaiting[r]
         => status[awaiting[r]] \in Terminal]_vars

\* A finished task is never claimed or reset again: claims take pending rows,
\* resets running ones, and a late handler of an earlier run can only write
\* another outcome.
FinishedStaysFinished ==
  [][\A t \in Tasks : status[t] \in Terminal => status'[t] \in Terminal]_vars

\* The service implements the life cycle of a task.
Lifecycle == INSTANCE TaskLifecycle WITH status <- status, awaiting <- awaiting
ImplementsLifecycle == Lifecycle!Spec

-----------------------------------------------------------------------------
(* As long as nobody resets a task that somebody still works on            *)

\* Two readers never wait for the same task (fetch_tasks claims atomically)
\* until stale tasks are reset, whoever stops or starts again.
ExclusiveClaim ==
  resets = 0 => \A r, s \in Readers : r # s /\ awaiting[r] # None => awaiting[r] # awaiting[s]

Drivers == {"tune_kernel", "preprocess", "probe", "postprocess", "mark_task_failed"}

\* A task is in one stage of the pipeline at a time: of the messages that
\* carry it from stage to stage, blocked postprocess included, one exists at
\* most, and none once it is finished.
OneStage ==
  \A t \in Tasks :
    LET n == Cardinality(Copies(t, Drivers)
                         \cup {b \in blocked : b.task = t})
    IN  n <= (IF status[t] = "running" THEN 1 ELSE 0)

\* The tmpfs directory of a task exists as long as a worker may read it, and
\* is gone when the task is finished (Postprocess and MarkTaskFailed), unless a
\* worker was stopped between writing the row and removing the directory.
TmpdirLifetime ==
  \A t \in Tasks :
    /\ Copies(t, {"probe", TuneClass}) # {} => t \in tmpdirs
    /\ status[t] \in Terminal /\ stops = 0 => t \notin tmpdirs

-----------------------------------------------------------------------------
(* When nothing stops or raises                                            *)

\* A blocked postprocess still misses a result, and each result it misses is
\* on its way to the broker: it will be unblocked.
BlockedHasSource ==
  \A b \in blocked :
    /\ b.expected \ b.received # {}
    /\ b.expected \ b.received \subseteq ToCome(b.task)

\* Every pending task is claimed and finished and every waiting reader
\* released, under the fairness of the processes' loops.
ImplementsLiveLifecycle == Lifecycle!FairSpec

\* The results of a completed task are eventually all in the database.
ResultsWritten ==
  \A t \in Tasks : status[t] = "completed" ~> Dispatched(t) \subseteq saved[t]

-----------------------------------------------------------------------------
(* What the documentation says and the code does not do                    *)

\* MarkTaskFailedHandler and PGReaderWorker.run: the ack of a failed task, and
\* no other, reaches the reader as a negative one.
FailureReported ==
  [][\A r \in running \cap Readers :
       awaiting[r] # None /\ awaiting'[r] = None =>
         (Head(toWorker[r]).sign = "nak" <=> status[awaiting[r]] = "failed")]_vars

\* README, Error Handling: an exception in a top-level handler marks the task
\* as failed.
ExceptionRecorded ==
  [][\A w \in Workers :
       HandlerRaises(w) /\ Head(hand[w]).class \in {"preprocess", "probe"}
         => status'[Head(hand[w]).task] = "failed"]_vars
=============================================================================
