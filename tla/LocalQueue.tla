----------------------------- MODULE LocalQueue -----------------------------
(***************************************************************************)
(* The local tuning queue of one node: PG readers claim tasks in the       *)
(* task_queue table and hand them to the broker, GPU and CPU workers pull  *)
(* messages from the broker's named queues, run a handler and forward its  *)
(* results, and the broker holds a task's postprocess message back until   *)
(* every result it depends on has passed through.                          *)
(*                                                                         *)
(* Every process talks to the broker over a connection that keeps order.   *)
(* The broker serves one message per step, in any order of the             *)
(* connections: a request it has not served may still be with its sender.  *)
(* A handler's work is one step of its worker.  Workers and readers may    *)
(* stop at any time, and an operator may reset stale tasks.                *)
(***************************************************************************)
EXTENDS BrokerQueue, FiniteSets

CONSTANTS
  Tasks,        \* rows of task_queue that the readers' filter selects
  Readers,      \* PG reader processes
  GpuWorkers,   \* GenericWorkers on gpu_queue
  CpuWorkers,   \* GenericWorkers on cpu_queue
  Impls,        \* <<kernel name, hsaco index>> or <<op name, backend index>>
  Fanouts,      \* what probing a task may dispatch: sequences over Impls
  OpMode,       \* TRUE when the service tunes operators (tuning_mode = 'op')
  None,         \* no task
  MaxStops,     \* bound: processes that stop or crash
  MaxRaises,    \* bound: exceptions that escape a handler or the task fetch
  MaxResets     \* bound: resets of stale tasks

Workers == GpuWorkers \cup CpuWorkers
Procs   == Readers \cup Workers

\* A probe dispatches an implementation once: _build_fanout_kernel and
\* _build_fanout_op number the hsacos and backends of each name.
ASSUME LocalQueueAssumption ==
  /\ Fanouts \subseteq Seq(Impls)
  /\ \A f \in Fanouts : \A i, j \in DOMAIN f : f[i] = f[j] => i = j
  /\ OpMode \in BOOLEAN
  /\ None \notin Tasks
  /\ Readers \cap Workers = {} /\ GpuWorkers \cap CpuWorkers = {}
  /\ MaxStops \in Nat /\ MaxRaises \in Nat /\ MaxResets \in Nat

-----------------------------------------------------------------------------
(* Messages                                                                *)

TuneClass   == IF OpMode THEN "tune_backend"   ELSE "tune_hsaco"
ResultClass == IF OpMode THEN "backend_result" ELSE "hsaco_result"

StageMsg(c, t)   == [class |-> c, task |-> t]
ImplMsg(c, t, i) == [class |-> c, task |-> t, impl |-> i]
PostMsg(t, n, e) == [class |-> "postprocess", task |-> t, probe |-> n,
                     expected |-> e, received |-> {}]
AckMsg(t, sign)  == [class |-> "tune_kernel_ack", task |-> t, sign |-> sign]

Stages == {"tune_kernel", "preprocess", "probe", "postprocess", "mark_task_failed"}
ImplMessage == [class : {TuneClass, ResultClass}, task : Tasks, impl : Impls]
PostMessage == [class : {"postprocess"}, task : Tasks, probe : Nat,
                expected : SUBSET Impls, received : SUBSET Impls]
AckMessage  == [class : {"tune_kernel_ack"}, task : Tasks, sign : {"ack", "nak"}]

\* What workers forward to the broker, and what its queues hand out: acks and
\* postprocess messages with dependencies never enter a queue.
Message == [class : Stages \ {"postprocess"}, task : Tasks]
           \cup ImplMessage \cup PostMessage \cup AckMessage
Work    == [class : Stages, task : Tasks] \cup ImplMessage

Request == [type : {"get_task"}]
           \cup [type : {"forward"}, message : Message]
           \cup [type : {"register_ack"}, task : Tasks]
Response == [type : {"no_task"}]
            \cup [type : {"task"}, message : Work]
            \cup [type : {"ack"}, task : Tasks, sign : {"ack", "nak"}]

Forwards(ms) == [i \in DOMAIN ms |-> [type |-> "forward", message |-> ms[i]]]

QueueName   == {"gpu_queue", "cpu_queue"}
QueueOf(w)  == IF w \in GpuWorkers THEN "gpu_queue" ELSE "cpu_queue"
TargetQueue(m) ==
  IF m.class \in {"tune_kernel", "preprocess", "probe", TuneClass}
  THEN "gpu_queue" ELSE "cpu_queue"

-----------------------------------------------------------------------------
VARIABLES
  status,       \* task_queue.status
  saved,        \* implementations with a row in the results table
  tmpdirs,      \* tasks whose tmpfs directory exists
  awaiting,     \* reader: the task whose ack it waits for, or None
  asked,        \* worker: TRUE while a get_task of its is unanswered
  hand,         \* worker: the message it handles, as a sequence of length <= 1
  running,      \* the processes that run
  connected,    \* the processes whose connection the broker holds
  named,        \* readers whose connection has a worker_id: they registered
  toBroker,     \* per process: requests made and not yet served
  toWorker,     \* per process: responses sent and not yet received
  queue,        \* LocalBroker.queues
  blocked,      \* LocalBroker.blocked_messages: postprocess messages held back,
                \* told apart by the probe that made them
  pendingAcks,  \* LocalBroker.pending_acks: registrations per task and reader
  fanouts,      \* history: the implementations each probe of a task dispatched
  stops, raises, resets  \* counters behind the three bounds

db     == <<status, saved>>
broker == <<connected, named, queue, blocked, pendingAcks>>
worker == <<asked, hand>>
bounds == <<stops, raises, resets>>
vars   == <<db, tmpdirs, awaiting, worker, running, broker, toBroker, toWorker,
            fanouts, bounds>>

Terminal == {"completed", "failed"}

TypeOK ==
  /\ status \in [Tasks -> {"pending", "running"} \cup Terminal]
  /\ saved \in [Tasks -> SUBSET Impls]
  /\ tmpdirs \in SUBSET Tasks
  /\ awaiting \in [Readers -> Tasks \cup {None}]
  /\ asked \in [Workers -> BOOLEAN]
  /\ hand \in [Workers -> Seq(Work)]
  /\ running \in SUBSET Procs
  /\ connected \in SUBSET Procs
  /\ named \in SUBSET Readers
  /\ toBroker \in [Procs -> Seq(Request)]
  /\ toWorker \in [Procs -> Seq(Response)]
  /\ queue \in [QueueName -> Seq(Work)]
  /\ blocked \in SUBSET PostMessage
  /\ pendingAcks \in [Tasks -> [Readers -> Nat]]
  /\ fanouts \in [Tasks -> Seq(SUBSET Impls)]
  /\ stops \in 0 .. MaxStops /\ raises \in 0 .. MaxRaises /\ resets \in 0 .. MaxResets

Init ==
  /\ status = [t \in Tasks |-> "pending"]
  /\ saved = [t \in Tasks |-> {}]
  /\ tmpdirs = {}
  /\ awaiting = [r \in Readers |-> None]
  /\ asked = [w \in Workers |-> FALSE]
  /\ hand = [w \in Workers |-> <<>>]
  /\ running = Procs /\ connected = Procs /\ named = {}
  /\ toBroker = [p \in Procs |-> <<>>]
  /\ toWorker = [p \in Procs |-> <<>>]
  /\ queue = [q \in QueueName |-> <<>>]
  /\ blocked = {}
  /\ pendingAcks = [t \in Tasks |-> [r \in Readers |-> 0]]
  /\ fanouts = [t \in Tasks |-> <<>>]
  /\ stops = 0 /\ raises = 0 /\ resets = 0

-----------------------------------------------------------------------------
(* PG readers                                                              *)

\* Fault: the claim also takes rows another reader has claimed.
ClaimRunning(t) ==
  /\ status[t] \in {"pending", "running"}
  /\ status' = [status EXCEPT ![t] = "running"]
  /\ UNCHANGED saved

\* fetch_tasks: UPDATE ... WHERE status = 'pending' ... FOR UPDATE SKIP LOCKED.
Claim(t) ==
  /\ status[t] = "pending"
  /\ status' = [status EXCEPT ![t] = "running"]
  /\ UNCHANGED saved

\* Fault: the task is forwarded before the reader registers for its ack.
SubmissionFirst(t) ==
  << [type |-> "forward", message |-> StageMsg("tune_kernel", t)],
     [type |-> "register_ack", task |-> t] >>

\* What PGReaderWorker.run sends for a claimed task.
Submission(t) ==
  << [type |-> "register_ack", task |-> t],
     [type |-> "forward", message |-> StageMsg("tune_kernel", t)] >>

\* Fault: the reader does not wait for the ack of its last task.
FetchWhileWaiting(r, t) ==
  /\ r \in running
  /\ Claim(t)
  /\ awaiting' = [awaiting EXCEPT ![r] = t]
  /\ toBroker' = [toBroker EXCEPT ![r] = @ \o Submission(t)]
  /\ UNCHANGED <<tmpdirs, worker, running, broker, toWorker, fanouts, bounds>>

\* One round of PGReaderWorker.run: claim, register for the ack, forward.
FetchTask(r, t) ==
  /\ r \in running /\ awaiting[r] = None
  /\ Claim(t)
  /\ awaiting' = [awaiting EXCEPT ![r] = t]
  /\ toBroker' = [toBroker EXCEPT ![r] = @ \o Submission(t)]
  /\ UNCHANGED <<tmpdirs, worker, running, broker, toWorker, fanouts, bounds>>

\* The claim committed and get_extra_uts raised: _fetch_pg_task returns None.
FetchRaises(r, t) ==
  /\ r \in running /\ awaiting[r] = None /\ raises < MaxRaises
  /\ Claim(t)
  /\ raises' = raises + 1
  /\ UNCHANGED <<tmpdirs, awaiting, worker, running, broker, toBroker, toWorker,
                 fanouts, stops, resets>>

\* The reader is killed after the claim, at most one of its messages sent.
DieFetching(r, t) ==
  /\ r \in running /\ awaiting[r] = None /\ stops < MaxStops
  /\ Claim(t)
  /\ \E k \in 0 .. 1 :
       toBroker' = [toBroker EXCEPT ![r] = @ \o SubSeq(Submission(t), 1, k)]
  /\ running' = running \ {r}
  /\ stops' = stops + 1
  /\ UNCHANGED <<tmpdirs, awaiting, worker, broker, toWorker, fanouts, raises, resets>>

\* Whether a response ends the wait: only the ack of the task it waits for.
Acknowledges(m, t) == m.type = "ack" /\ m.task = t

ReceiveAck(r) ==
  /\ r \in running /\ awaiting[r] # None
  /\ toWorker[r] # <<>>
  /\ toWorker' = [toWorker EXCEPT ![r] = Tail(@)]
  /\ awaiting' = [awaiting EXCEPT ![r] =
                    IF Acknowledges(Head(toWorker[r]), @) THEN None ELSE @]
  /\ UNCHANGED <<db, tmpdirs, worker, running, broker, toBroker, fanouts, bounds>>

-----------------------------------------------------------------------------
(* GenericWorker                                                           *)

GetTask(w) ==
  /\ w \in running /\ ~asked[w] /\ hand[w] = <<>>
  /\ toBroker' = [toBroker EXCEPT ![w] = Append(@, [type |-> "get_task"])]
  /\ asked' = [asked EXCEPT ![w] = TRUE]
  /\ UNCHANGED <<db, tmpdirs, awaiting, hand, running, broker, toWorker, fanouts, bounds>>

ReceiveReply(w) ==
  /\ w \in running /\ asked[w] /\ toWorker[w] # <<>>
  /\ asked' = [asked EXCEPT ![w] = FALSE]
  /\ hand' = [hand EXCEPT ![w] = IF Head(toWorker[w]).type = "task"
                                 THEN <<Head(toWorker[w]).message>> ELSE <<>>]
  /\ toWorker' = [toWorker EXCEPT ![w] = Tail(@)]
  /\ UNCHANGED <<db, tmpdirs, awaiting, running, broker, toBroker, fanouts, bounds>>

Handling(w, class) ==
  /\ w \in running /\ hand[w] # <<>>
  /\ Head(hand[w]).class = class

\* _handle_task after the handler returned ms: forward each in turn.  The
\* worker may be killed on the way and leave the rest unsent.
Return(w, ms) ==
  /\ hand' = [hand EXCEPT ![w] = <<>>]
  /\ \/ /\ toBroker' = [toBroker EXCEPT ![w] = @ \o Forwards(ms)]
        /\ UNCHANGED <<running, stops>>
     \/ /\ stops < MaxStops
        /\ \E k \in 0 .. Len(ms) - 1 :
             toBroker' = [toBroker EXCEPT ![w] = @ \o Forwards(SubSeq(ms, 1, k))]
        /\ running' = running \ {w}
        /\ stops' = stops + 1
  /\ UNCHANGED <<awaiting, asked, broker, toWorker, raises, resets>>

TuneKernel(w) ==
  /\ Handling(w, "tune_kernel")
  /\ Return(w, <<StageMsg("preprocess", Head(hand[w]).task)>>)
  /\ UNCHANGED <<db, tmpdirs, fanouts>>

PreprocessOk(w) ==
  LET t == Head(hand[w]).task IN
  /\ Handling(w, "preprocess")
  /\ tmpdirs' = tmpdirs \cup {t}
  /\ Return(w, <<StageMsg("probe", t)>>)
  /\ UNCHANGED <<db, fanouts>>

\* OSError or ExaidSubprocessNotOK, before or after prepare_data's mkdir.
PreprocessFails(w) ==
  LET t == Head(hand[w]).task IN
  /\ Handling(w, "preprocess")
  /\ tmpdirs' \in {tmpdirs, tmpdirs \cup {t}}
  /\ Return(w, <<StageMsg("mark_task_failed", t)>>)
  /\ UNCHANGED <<db, fanouts>>

ImplSet(f) == { f[i] : i \in DOMAIN f }
TuneMsgs(t, f) == [i \in DOMAIN f |-> ImplMsg(TuneClass, t, f[i])]

\* _build_fanout_kernel and _build_fanout_op: the tune messages, then the
\* postprocess message that depends on their results.
Fanout(t, f) ==
  Append(TuneMsgs(t, f), PostMsg(t, Len(fanouts[t]) + 1, ImplSet(f)))

ProbeOk(w) ==
  LET t == Head(hand[w]).task IN
  /\ Handling(w, "probe")
  /\ \E f \in Fanouts :
       /\ fanouts' = [fanouts EXCEPT ![t] = Append(@, ImplSet(f))]
       /\ Return(w, Fanout(t, f))
  /\ UNCHANGED <<db, tmpdirs>>

ProbeFails(w) ==
  /\ Handling(w, "probe")
  /\ Return(w, <<StageMsg("mark_task_failed", Head(hand[w]).task)>>)
  /\ UNCHANGED <<db, tmpdirs, fanouts>>

\* A benchmark that ran, crashed or was not OK: a report in every case.
TuneImpl(w) ==
  /\ Handling(w, TuneClass)
  /\ LET m == Head(hand[w]) IN Return(w, <<ImplMsg(ResultClass, m.task, m.impl)>>)
  /\ UNCHANGED <<db, tmpdirs, fanouts>>

\* Fault: the new row replaces those of the task's other implementations.
WriteResultReplaces(w) ==
  /\ Handling(w, ResultClass)
  /\ LET m == Head(hand[w]) IN saved' = [saved EXCEPT ![m.task] = {m.impl}]
  /\ Return(w, <<>>)
  /\ UNCHANGED <<status, tmpdirs, fanouts>>

WriteResult(w) ==
  /\ Handling(w, ResultClass)
  /\ LET m == Head(hand[w]) IN saved' = [saved EXCEPT ![m.task] = @ \cup {m.impl}]
  /\ Return(w, <<>>)
  /\ UNCHANGED <<status, tmpdirs, fanouts>>

\* Fault: the ack is sent although mark_completed did not take effect.
PostprocessAckOnly(w) ==
  LET t == Head(hand[w]).task IN
  /\ Handling(w, "postprocess")
  /\ tmpdirs' = tmpdirs \ {t}
  /\ Return(w, <<AckMsg(t, "ack")>>)
  /\ UNCHANGED <<db, fanouts>>

\* rmtree, unless the worker is killed before it.
RemoveTmpdir(t) ==
  \/ tmpdirs' = tmpdirs \ {t}
  \/ running' # running /\ UNCHANGED tmpdirs

\* The row is written first, then the directory removed, then the ack sent.
Postprocess(w) ==
  LET t == Head(hand[w]).task IN
  /\ Handling(w, "postprocess")
  /\ status' = [status EXCEPT ![t] = "completed"]
  /\ Return(w, <<AckMsg(t, "ack")>>)
  /\ RemoveTmpdir(t)
  /\ UNCHANGED <<saved, fanouts>>

MarkTaskFailed(w) ==
  LET t == Head(hand[w]).task IN
  /\ Handling(w, "mark_task_failed")
  /\ status' = [status EXCEPT ![t] = "failed"]
  /\ Return(w, <<AckMsg(t, "nak")>>)
  /\ RemoveTmpdir(t)
  /\ UNCHANGED <<saved, fanouts>>

\* Any other exception: logged, nothing forwarded, the worker goes on.  GPU
\* workers have no db_conn and the CPU classes are not among those the
\* fallback marks failed, so the database is not told.
HandlerRaises(w) ==
  /\ w \in running /\ hand[w] # <<>> /\ raises < MaxRaises
  /\ Head(hand[w]).class # "tune_kernel"
  /\ hand' = [hand EXCEPT ![w] = <<>>]
  /\ raises' = raises + 1
  /\ \/ UNCHANGED tmpdirs
     \/ /\ Head(hand[w]).class = "preprocess"
        /\ tmpdirs' = tmpdirs \cup {Head(hand[w]).task}
  /\ UNCHANGED <<db, awaiting, asked, running, broker, toBroker, toWorker,
                 fanouts, stops, resets>>

Handle(w) ==
  \/ TuneKernel(w) \/ PreprocessOk(w) \/ PreprocessFails(w)
  \/ ProbeOk(w) \/ ProbeFails(w) \/ TuneImpl(w)
  \/ WriteResult(w) \/ Postprocess(w) \/ MarkTaskFailed(w)

-----------------------------------------------------------------------------
(* LocalBroker                                                             *)

Serve(p, type) ==
  /\ p \in connected
  /\ toBroker[p] # <<>> /\ Head(toBroker[p]).type = type
  /\ toBroker' = [toBroker EXCEPT ![p] = Tail(@)]
  /\ UNCHANGED <<db, tmpdirs, awaiting, worker, running, connected, fanouts, bounds>>

\* Fault: the task stays in the queue.
HandleGetTaskPeek(w) ==
  LET q == QueueOf(w)
      reply == IF queue[q] = <<>> THEN [type |-> "no_task"]
               ELSE [type |-> "task", message |-> Head(queue[q])]
  IN
  /\ Serve(w, "get_task")
  /\ toWorker' = [toWorker EXCEPT ![w] = Append(@, reply)]
  /\ UNCHANGED <<named, queue, blocked, pendingAcks>>

\* _handle_get_task
HandleGetTask(w) ==
  LET q == QueueOf(w) IN
  /\ Serve(w, "get_task")
  /\ IF queue[q] = <<>>
     THEN /\ toWorker' = [toWorker EXCEPT ![w] = Append(@, [type |-> "no_task"])]
          /\ UNCHANGED queue
     ELSE /\ toWorker' = [toWorker EXCEPT ![w] =
                            Append(@, [type |-> "task", message |-> Head(queue[q])])]
          /\ queue' = [queue EXCEPT ![q] = Tail(@)]
  /\ UNCHANGED <<named, blocked, pendingAcks>>

\* _handle_register_ack
HandleRegisterAck(r) ==
  /\ Serve(r, "register_ack")
  /\ pendingAcks' = [pendingAcks EXCEPT ![Head(toBroker[r]).task][r] = @ + 1]
  /\ named' = named \cup {r}
  /\ UNCHANGED <<queue, blocked, toWorker>>

Forwarded(p) == Head(toBroker[p]).message

\* forward, of a message with dependencies
ForwardBlocked(p) ==
  /\ Serve(p, "forward") /\ Forwarded(p).class = "postprocess"
  /\ blocked' = blocked \cup {Forwarded(p)}
  /\ UNCHANGED <<named, queue, pendingAcks, toWorker>>

\* Fault: a result replaces the results received before it.
ReceivedReplaces(b, m) ==
  IF b.task = m.task THEN [b EXCEPT !.received = {m.impl}] ELSE b

\* Fault: the first result completes the set.
CompleteOnFirst(b) == b.received # {}

\* PostprocessHandler.resolve_dependency: the blocked message with the result
\* entered, and whether nothing it expects is missing.
Received(b, m) ==
  IF b.task = m.task THEN [b EXCEPT !.received = @ \cup {m.impl}] ELSE b
Complete(b) == b.expected \subseteq b.received

\* _resolve_dependencies: the messages the result m releases, what stays, and
\* what enters the queue (postprocess reads the task only).
Unblocked(m)    == { b \in blocked : b.task = m.task /\ Complete(Received(b, m)) }
StillBlocked(m) == { Received(b, m) : b \in blocked \ Unblocked(m) }
Released(m) ==
  [i \in 1 .. Cardinality(Unblocked(m)) |-> StageMsg("postprocess", m.task)]

\* forward, of a result: the messages it releases are enqueued before it.
ForwardResult(p) ==
  LET m   == Forwarded(p)
      cpu == Insert(queue["cpu_queue"], Released(m), Priority("postprocess"))
  IN
  /\ Serve(p, "forward") /\ m.class = ResultClass
  /\ blocked' = StillBlocked(m)
  /\ queue' = [queue EXCEPT !["cpu_queue"] = Enqueue(cpu, m)]
  /\ UNCHANGED <<named, pendingAcks, toWorker>>

\* _handle_ack: one ack per registration of a reader it finds by name.  The
\* response carries the task only, whatever the sign of the message: the
\* reader takes it for a positive ack.
ForwardAck(p) ==
  LET t == Forwarded(p).task
      acks(r) == [i \in 1 .. pendingAcks[t][r] |->
                    [type |-> "ack", task |-> t, sign |-> "ack"]]
  IN
  /\ Serve(p, "forward") /\ Forwarded(p).class = "tune_kernel_ack"
  /\ toWorker' = [s \in Procs |-> IF s \in named
                                  THEN toWorker[s] \o acks(s) ELSE toWorker[s]]
  /\ pendingAcks' = [pendingAcks EXCEPT ![t] = [r \in Readers |-> 0]]
  /\ UNCHANGED <<named, queue, blocked>>

\* forward, of any other message
ForwardPlain(p) ==
  LET m == Forwarded(p) IN
  /\ Serve(p, "forward")
  /\ m.class \notin {"postprocess", "tune_kernel_ack", ResultClass}
  /\ queue' = [queue EXCEPT ![TargetQueue(m)] = Enqueue(@, m)]
  /\ UNCHANGED <<named, blocked, pendingAcks, toWorker>>

\* The socket of a stopped process reads as closed once it is drained.
\* _remove_worker keeps its registrations and the tasks it was sent.
RemoveWorker(p) ==
  /\ p \in connected /\ p \notin running /\ toBroker[p] = <<>>
  /\ connected' = connected \ {p} /\ named' = named \ {p}
  /\ toWorker' = [toWorker EXCEPT ![p] = <<>>]
  /\ UNCHANGED <<db, tmpdirs, awaiting, worker, running, queue, blocked, pendingAcks,
                 toBroker, fanouts, bounds>>

Broker(p) ==
  \/ p \in Workers /\ HandleGetTask(p)
  \/ p \in Readers /\ HandleRegisterAck(p)
  \/ ForwardBlocked(p) \/ ForwardResult(p) \/ ForwardAck(p) \/ ForwardPlain(p)
  \/ RemoveWorker(p)

-----------------------------------------------------------------------------
(* The environment: signals, restarts, the operator                        *)

Stop(p) ==
  /\ p \in running /\ stops < MaxStops
  /\ running' = running \ {p}
  /\ stops' = stops + 1
  /\ UNCHANGED <<db, tmpdirs, awaiting, worker, broker, toBroker, toWorker, fanouts,
                 raises, resets>>

\* A restarted process has forgotten everything and reconnects under its old
\* name, after the broker has seen its predecessor's socket close.
Restart(p) ==
  /\ p \notin running /\ p \notin connected
  /\ running' = running \cup {p} /\ connected' = connected \cup {p}
  /\ IF p \in Readers
     THEN awaiting' = [awaiting EXCEPT ![p] = None] /\ UNCHANGED worker
     ELSE /\ asked' = [asked EXCEPT ![p] = FALSE]
          /\ hand' = [hand EXCEPT ![p] = <<>>]
          /\ UNCHANGED awaiting
  /\ UNCHANGED <<db, tmpdirs, named, queue, blocked, pendingAcks, toBroker, toWorker,
                 fanouts, bounds>>

\* reset_stale_tasks: every task that has been running for too long, whether
\* or not anyone still works on it.
ResetStale(stale) ==
  /\ resets < MaxResets
  /\ stale # {} /\ \A t \in stale : status[t] = "running"
  /\ status' = [t \in Tasks |-> IF t \in stale THEN "pending" ELSE status[t]]
  /\ resets' = resets + 1
  /\ UNCHANGED <<saved, tmpdirs, awaiting, worker, running, broker, toBroker, toWorker,
                 fanouts, stops, raises>>

-----------------------------------------------------------------------------
Fetch(r)     == \E t \in Tasks : FetchTask(r, t)
FetchFault(r) == \E t \in Tasks : FetchRaises(r, t) \/ DieFetching(r, t)

Next ==
  \/ \E r \in Readers : Fetch(r) \/ FetchFault(r) \/ ReceiveAck(r)
  \/ \E w \in Workers : GetTask(w) \/ ReceiveReply(w) \/ Handle(w) \/ HandlerRaises(w)
  \/ \E p \in Procs : Broker(p) \/ Stop(p) \/ Restart(p)
  \/ \E stale \in SUBSET Tasks : ResetStale(stale)

Fairness ==
  /\ \A r \in Readers : WF_vars(Fetch(r)) /\ WF_vars(ReceiveAck(r))
  /\ \A w \in Workers :
       WF_vars(GetTask(w)) /\ WF_vars(ReceiveReply(w)) /\ WF_vars(Handle(w))
  /\ \A p \in Procs : WF_vars(Broker(p))

Spec     == Init /\ [][Next]_vars
FairSpec == Spec /\ Fairness
=============================================================================
