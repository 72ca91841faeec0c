# aotriton in TLA+

A verification project for [aotriton](../src): TLA+ models of the parts of the system whose correctness depends on
order, layout or bookkeeping that tests hardly reach, TLC runs that check them on small instances, and TLAPS proofs of
what holds for every instance. Paths below are relative to `src/`.

aotriton ships ahead-of-time compiled Triton kernels for attention. Its parts: the **kernels** (`tritonsrc`), the
**code generator** that turns rules and a tuning database into C++ launchers (`v3python`), the C++ **runtime** that picks,
loads and launches a kernel (`v3src`, `include`), and the **tuning service** that measures every kernel on a cluster of
GPU nodes and selects the fastest right ones (`v3python/tune`, `.tune`).

## 1. Inventory

| component | state | operations | interacts through |
|---|---|---|---|
| GPU kernels (`tritonsrc/`) | output, log-sum-exp and gradient tensors, tile counter | forward, preprocess, dk/dv, dq, fused backward | tensors in memory, kernels behind each other on a stream |
| code generator (`v3python/base`, `codegen`, `kernel`, `rules`) | Godel numbers, lookup tables, shared lookup functions | read the tuning database, check, translate, write launchers | files |
| attention API (`v3src/flash`) | one call's contexts, lazily acquired buffers | choose a backend, look up, launch, fall back | runtime, HIP |
| kernel runtime (`on_device_kernel.cc`, `packed_kernel_common.cc`, `triton_kernel.cc`, `lszip.cc`) | function cache per kernel, image and essentials, registry of packages | `invoke`, `get_kernel`, `load_for_device`, `decompress_kernel`, `PackedKernel::open` | three kinds of locks, HIP, files |
| wire protocol (`tune/localq/buffered_socket.py`, `protocol.py`) | receive state machine, buffers with an offset, EPOLLOUT registration | `recv_messages`, `queue_message`, `flush_send`; `send_message`, `recv_message` | a Unix stream socket |
| broker (`tune/localq/broker.py`) | two priority queues, blocked messages, registrations for acks, connections | `run`, `_handle_get_task`, `_handle_forward`, `_handle_register_ack`, `_resolve_dependencies`, `_handle_ack`, `_remove_worker`, teardown | messages of readers and workers, SIGHUP and SIGTERM |
| message handlers (`tune/localq/handlers.py`) | none of their own | preprocess, probe, tune, result, postprocess, mark_task_failed, cancel | database, tmpfs directory of a task, returned messages |
| generic workers (`generic_worker.py`, `gpu_worker_socket.py`, `cpu_worker.py`) | the message in hand | get_task, handle, forward the results | broker, database (CPU workers only) |
| PG readers (`pg_reader_worker.py`) | the task waited for | claim, register for the ack, forward, wait | database, broker |
| task queue table (`tune/pq/queue.py`, `admin.py`, `results.py`) | `task_queue` rows, result tables | `fetch_tasks`, `mark_completed`, `mark_failed`, `reset_stale_tasks`, ... | SQL |
| result selection (`tune/pq/populate_most_accurate.py`, `compute_best_results.py`, `export_best_results.py`, `.tune/bin/bake_lut`) | accuracy and best-row tables, the exported file | populate, compute, export; full or for listed tasks | SQL, processes, files |
| exaid proxy (`tune/exaid.py`, `utils.py`, `testrun.py`) | a subprocess, its pipes, a line buffer | write, readinfo with a timeout, join | lines of text |
| service control (`.tune/remote/worker_service.sh`) | pid files | start, stop, force-stop, status | signals |
| web console (`.tune/webui`) | actions with their processes, timers per host | start, monitor, kill, stream; arm, fire | threads, ssh |
| legacy queue worker, image build | none, or files | - | - |

What is hard, and what makes each component correct:

* **GPU kernels**: which blocks of keys a tile visits follows from rounded divisions of signed numbers for every window
  and ragged length; rows of three layouts are addressed by several kernels; backward replays the dropout of forward in
  other tiles. Correct when each result is the sum over exactly the elements the mask allows, with the same dropout
  numbers, stored in its own row, whatever order programs run in.
* **code generator, API**: tables indexed by composed numbers, functions shared by source text, checks of shapes instead
  of contents, a fallback in the middle of a call. Correct when a call finds the rows of its own functional, no call runs
  half a backend, and a buffer is acquired once.
* **kernel runtime**: two double-checked caches, one inside the other, state read after the locks are released, and
  exceptions. Correct when each module and package is loaded once, no compiled kernel is missed, and what is read unlocked
  never changes.
* **wire protocol**: sends and receives stop at any byte. Correct when each end reads exactly the messages the other sent,
  none stays in a buffer nobody comes back to, and a client that vanishes in mid-frame is dropped.
* **broker and workers**: messages overtake each other, results of several workers and runs meet one blocked message, and
  any process can be killed between any two of its effects. Correct when claims are exclusive, a task is in one stage at a
  time, an ack never runs ahead of the database, every result is written, every reader is released.
* **result selection**: separate commits while the tables are in use. Correct when the winner of an untouched task is the
  fastest candidate within reach of the best error seen, and the exported key has it.
* **exaid proxy**: answers after their timeout, half an answer, deaths. Correct when an answer belongs to its call, and
  every call ends.
* **service control**: deadlines, SIGKILL. Correct when the stop ends and nothing is removed under a running worker.
* **web console**: a monitor thread and a kill that write one status, a timer that arms itself again. Correct when the
  final status agrees with the return code, a stream shows every line and closes, a host has one timer and follows its
  hours.

`PROJECT.json` lists each hazard at its line with the properties that would catch it.

## 2. Modules

| module | models |
|---|---|
| `AttentionTiles` | tile arithmetic: intervals of blocks, masks, addresses, dropout offsets, program numbers |
| `AttnForward` | a forward launch: grid, persistent loop, tile counter, stores |
| `AttnBackward` (extends `AttnForward`) | the stream of backward kernels behind it, split or fused |
| `AttnProperties` | what both promise |
| `LookupTable` | tuning database to lookup tables to a call's kernel |
| `OperatorLaunch` (extends `LookupTable`) | a call of the backward operator: backend, lookups, launches, fallback, lazy buffers |
| `KernelCache` | the runtime's caches and locks under any number of threads |
| `BufferedSocket` | one connection of the broker, byte by byte, with either kind of client |
| `BrokerQueue` | `_get_priority` and `_enqueue_with_priority` as operators |
| `LocalQueue` (uses `BrokerQueue`) | readers, GPU and CPU workers, broker, database rows, tmpfs directories |
| `LocalQueueProperties` | what `LocalQueue` guarantees, and what its documentation says of it |
| `TaskLifecycle` | the abstract promise: claim, wait, finish, release; `LocalQueue` implements it (`Lifecycle == INSTANCE TaskLifecycle WITH ...`) |
| `ServiceStop` (extends `LocalQueueProperties`) | `worker_service.sh stop` over the processes of `LocalQueue` |
| `TuningDatabase` | `bake_lut`: populate, compute, export beside the workers |
| `ExaidProxy` | a GPU worker and the subprocess it benchmarks in |
| `ActionTracker` | one command of the web console with its threads and its stream |
| `WorkerScheduler` | working hours of hosts, timers and requests |
| `MC*` | bounds for TLC; `ExaidProxy` and `ActionTracker` are checked as they are |
| `*Proofs` | theorems |

How state and actions correspond to the code:

**Attention.** A tensor is a function from the row addresses written so far; a row is the *set of terms* summed into it,
each a key (or query) address with the dropout number used and how often it was added, so arithmetic is symbolic and a
wrong block, mask or address is a wrong set. A forward workgroup starts (`Start`), tests a tile (`Loop`), stores the
zeros of a masked one (`ZeroOut`, `ZeroL`) or its results (`WriteL`, `WriteOut`), and, if persistent, takes the next
(`NextTile`); a backward program writes rows no other touches and is one step. `NextKernel` is the stream: a kernel starts when its predecessor has drained. `Launches`
are records of the arguments of the host functions in `v3src/flash`, whose grids `Grid` and `GridOf` translate. A term names its
`Operands`: the row of Q, the key and the element of the bias. `wanted` are the gradients asked for (an affine or a fused
kernel may be told to leave some out), `DB` counts the stores into the bias' gradient, `Encoded` is the mask that the debug
kernel `debug_simulate_encoded_softmax` returns, and the preprocess kernels (plain and varlen) store one `Delta` per row.

`WellFormed` is what a caller vouches for, and no more: lengths that add up and do not exceed their maxima; compact sequences
laid end to end or apart, never overlapping; query heads a multiple of the key heads (`test/_common_test.py:416`); a bias only
where a kernel is built with one, not causal (`v3python/rules/flash/_common.py:61-68`) and not with compact sequences
(`tritonsrc/varlen_attn_torch_function.py:180`, `:331`); a row of Out for every query (`v3src/flash/attn_bwd.cc:17-35`).

**Lookup and launch.** A database is a set of rows; `Generate` and `Write` are the generator's steps for one target
(select the rows of each GPU, bin the lengths, fill the tensor, check it, number the functions by their source); `Call` is
the generated C++: Godel number, mod number, binning, indices. `OperatorLaunch` adds `op.cc`, the metro launcher (all
lookups, then all launches), the affine launcher, `LAZY_INIT` and the end of `attn_bwd`. A HIP error that an earlier call
left pending is a nondeterministic choice of `Peek`.

**KernelCache.** `pc` is where a thread is in `TritonKernel::invoke`; `funLock` is `funcache_mutex_` held exclusively,
`packLock` is `packedkernel_mutex_`. A section under the registry's lock takes no other lock and is one step, as is a look
under a shared lock. `fails` bounds how often opening, decompressing or a HIP call fails. `loads` counts modules loaded,
those too whose function could not be had and which the exception then leaks.

**BufferedSocket.** The variables are the fields of the Python class, `armed` the EPOLLOUT registration, `up` and `down` the
kernel's bounded pipes. A byte is a pair of a message and a position, so that a misaligned reader is seen to read wrong
bytes. `role` says whether the client is a worker (waits for a reply to each `get_task`) or a reader (waits for acks);
`Reply(i)` is the answer to the i-th request.
If the client closes between the poll and the flush, the broker drops the connection together with what the client had
still sent, which is how `LocalQueue` sees a client that died before it sent it.

**LocalQueue.** Every connection is a pair of ordered sequences (`toBroker`, `toWorker`), which `BufferedSocket`
justifies. The broker is single threaded and serves one message per step (`HandleGetTask`, `HandleRegisterAck`,
`ForwardBlocked`, `ForwardResult`, `ForwardAck`, `ForwardPlain`, `RemoveWorker`). One action per handler; the messages a
handler returns are forwarded one at a time in the code, and a worker may be killed among them (`Return`). In
`postprocess` and `mark_task_failed` the worker may also be killed between writing the row, removing the directory and
sending the ack. `FetchRaises` and `DieFetching` are a claim that was committed and whose task was not forwarded.
`ResetStale` is the operator's reset, of tasks that may still be worked on. `ServiceStop` adds the script's phases, the
signals it has sent and the end of the broker's loop; time is not modelled there: a deadline may always pass.

**TuningDatabase.** One action per commit: `populate` drops and creates, or deletes and inserts; `compute` loads
thresholds, splits the ids into bands, streams rows band by band and writes, inserting or replacing the row of a task;
`export` and `export_op` remove the file and write the rows of kernels and of the operator.
Workers save rows, and resets, cancellations and a stopped bake come between any two commits. Rows are a set: equal rows
are one. `moved` remembers what changed since the bake began: a property speaks of the other tasks only.

**ExaidProxy.** Two pipes of pieces (a whole line or half of one), each with the number of the call it answers, which the
code does not have and the property needs. `Poll`, `Read`, `Eof`, `Timeout` are the exits of
`SafeLineReader.readline`; `Reset` is what `readinfo` does after a failure. `stderr` counts writes to the pipe nobody reads.

**ActionTracker.** Threads of `start`: two captures, the monitor; `kill`, `remove`, `Connect` and `Poll` are requests. A
join of the monitor may time out (`late`). Line *i* of a stream is the number *i*.

**WorkerScheduler.** A tick is a second, a day has few. `thread` holds the requests and the fired timers that run at a
time; `Wkctl` may take up to `MaxWait` ticks and may fail. `Candidates` and `Changes` are the search for the next
transition. A `Timer` object is told apart by a number that no timer in reach has (`Unknown`), so that cancelling by the
dictionary's entry may hit a timer that fired already. `followed` and `overlapped` are observers used by the properties.

Modelling decisions a reader should know:

* A restarted process reconnects only after the broker has seen its predecessor's socket close. The code admits a
  window of one poll in which two connections carry one `worker_id`, which is not modelled.
* Tasks and tmpfs directories correspond one to one: the directory is named after the task's entry (`get_tmpfs_for`),
  and the tasks of a model are rows with distinct entries.
* The broker does not crash: its end takes the sockets of all others with it, which is what `ServiceStop` models.
* `GracefulCancelRunningTaskHandler` is not an action: its message is queued only when no worker is served any more.
* Definitions whose comment begins with *Fault* are not part of a specification. They are variants of the definition
  below them with a plausible bug, used to see that the properties notice it.

## 3. Runs

| run | instance | shows |
|---|---|---|
| `attention` | 239 launches: lengths 1 to 8 and 0 to 7, tiles of 4 by 2, one to three heads, two sequences in three layouts, seven windows, split and fused backward, static and dynamic persistent grids, two resident workgroups | every result is the sum over exactly what the window admits, with the dropout of forward, and is written |
| `lookup_table` | databases of kernels and of an operator over two architectures and three GPUs, all calls, all backends and failures of a call | a call finds its rows, the check of a table suffices, a backend runs whole, buffers are acquired once |
| `kernel_cache` | 2 threads, 3 kernels, 2 devices, 2 failures | the double checks, unlocked reads, termination |
| `buffered_socket` | five messages of 1 to 3 bytes, prefix of 2, pipes of 3 | framing, EPOLLOUT, replies, acks and closes |
| `faults` | 2 tasks, 2 readers, 1+1 workers, a kill, a reset | what holds whatever happens, refinement of `TaskLifecycle` included |
| `two_gpus` | 2 tasks, 2+1 workers, a kill, an exception, fan-outs of 0 to 2 | one stage at a time, life of the directory |
| `quiet` | 2 tasks, 2 readers, 1+1 workers, fan-outs of 1 and 2, no fault | results counted and written, live refinement |
| `service_stop` | 2 tasks, one process of each kind, a kill | the stop ends, no directory vanishes under a GPU worker |
| `tuning_database` | 2 tasks of one key, 2 bands, up to 2 bakes, 2 interventions, both modes | the selected and the exported row |
| `exaid` | 4 calls, 2 heat lines, stderr of 1 | answers, deaths, termination of a call |
| `tracker` | 3 lines in each stream, pipes and buffers of 2 | status, stream, its end |
| `scheduler` | one host, two threads, a week of 3 days of 8 ticks, five kinds of schedules, an edit, two arm requests, wkctl of up to 3 ticks | one timer, armed for good, the worker follows |

Why the bounds are enough to be interesting.

* `attention`: tile sides of 4 and 2 with lengths around their multiples give whole, cut, masked, empty and full blocks on
  either side of a window; three groupings of heads, more resident programs than one and fewer than the grid make programs
  meet at the counter and at L. `num`, `strides` and `out_rows` distinguish the three layouts of varlen sequences.
* `lookup_table`: a parameter whose second choice is disabled on one architecture, one that falls back, one with a single
  choice; a GPU that borrows another's rows; lengths below, at and above a bin; a database may lack any row.
* `buffered_socket`: a pipe shorter than a frame forces partial sends and receives at every position of prefix and payload;
  five messages put two acks into one buffer.
* The queue: two tasks and two readers are the least that contend for a claim and put results of one task between those of
  another; fan-outs of two distinguish a first from a last result; a second GPU worker makes results overtake. One kill, one
  exception and one reset reach every crash point once.
* `kernel_cache`: two threads are the two parties of a double check, two kernels of one entry share a package, a third has
  none; one of the kernels was not compiled, and the second failure can follow a retry.
* `tuning_database`: ids 1 and 3 leave a hole in the first band; reports include a fast one out of reach, ties with the
  threshold, values that are not numbers, checks that do not apply and rows without data.
* `exaid`: the fourth call comes after an answer, a failure and a restart; one write to stderr that fits and one that blocks.
* `tracker`: the third line is the first a deque of two drops.
* `scheduler`: two weekdays and a weekend day contain every kind of midnight; a `wkctl` of three ticks crosses boundaries.

Symmetry is used only in runs without liveness properties. Deadlock is not checked where the system may stop: all clients
closed, all tasks done, service stopped, no call left. It is checked in `kernel_cache` and `attention`.

### Counterexample configurations

Eight further configurations end, as they should, in an error: the property says what a comment or document of the
repository says, and the model of the code violates it. They are not among the runs of `PROJECT.json`; run them by hand,
`tlc -config <name>.cfg <module>`.

| configuration, module | property | what the code does | what the repository says |
|---|---|---|---|
| `LostUnblock`, `MCLocalQueue` | `BlockedHasSource` | with two GPU workers a result can reach the broker before the `postprocess` message that waits for it (`broker.py:312` matches blocked messages only), and is counted nowhere: the task runs for ever | `tune/localq/README.md:66`: "Once all expected hsaco_result messages arrive, postprocess is unblocked" |
| `EmptyFanout`, `MCLocalQueue` | `BlockedHasSource` | an operator with a single backend fans out nothing (`handlers.py:258`), and its `postprocess` waits for ever | `handlers.py:241`: "only 1 backend, no tuning needed" |
| `NegativeAckLost`, `MCLocalQueue` | `FailureReported` | the broker drops the sign of an ack (`broker.py:434`): the reader never learns of a failure | `pg_reader_worker.py:141`: "Check if this is a negative ack (task failed)" |
| `ExceptionUnrecorded`, `MCLocalQueue` | `ExceptionRecorded` | an exception in `preprocess` or `probe` on a GPU worker is not recorded (`generic_worker.py:231`), for it has no database connection | `tune/localq/README.md:92`: GenericWorker "marks the task as failed in the database with the error message" |
| `TeardownLost`, `MCServiceStop` | `TeardownCancels` | a graceful stop tears blocked tasks down after the last worker ended (`broker.py:112`): their cancel messages reach nobody | `broker.py:87`: "broker must continue serving teardown messages to CPU workers after SIGHUP" |
| `ResultsLostAtStop`, `MCServiceStop` | `StoppedWithResults` | `postprocess` overtakes the result that released it (`broker.py:337`); a stop between them leaves a completed task without that result | `tune/localq/README.md:46-48` has the result before `postprocess` |
| `SkippedTiles`, `MCAttention` | `NoTileSkipped` | `continue_condition` is set once before the loop of a persistent program (`fwd_kernel.py:226`) and cleared by a fully masked tile: later tiles of that program are skipped and their rows never written | `fwd_kernel.py:228`: "loops more than once only if PERSISTENT"; `:329`: "We still need to write 0s to the result" |
| `BottomRight`, `MCAttention` | `BottomRightAligned` | `CausalType.BOTTOM_RIGHT` of the Triton interface becomes the window (sq - sk, sk) (`tritonsrc/attn_torch_function.py:81-85`), which is not the mask aligned with the last query and key | `test/aotriton_flash.py:57-60` passes `WindowValue.BOTTOM_RIGHT_ALIGNED` for the same name |

What does hold beside them is checked: `BlockedHasSource` in `quiet` (one GPU worker, no empty fan-out), `EverythingWritten` in
`attention` for launches in which no persistent program meets such a tile (`StopsEarly`).

Where a listed property carries a condition, the condition names what the code leaves out: `NoneEmpty` (a sequence without
keys has a full tile read past its end, `fwd_kernel_inner.py:98`), `Overruns` (a masked tile at the end of a compact sequence
stores its infinities up to `Max_seqlen_q`), `do_like_out` (the dk/dv half of the fused kernel takes the strides of Out for
DO, `bwd_kernel_fuse.py:560`), `late` (captures that outlast their join of a second), `overlapped` (two threads arm a host at
once), `ChangesAtBoundaries` (the search looks at the bounds of a schedule only: one that changes at midnight before or after a
weekend is not followed there, nor one whose hours are a single instant or begin as others end), `moved` (the task changed under
the bake).

## 4. Fairness

* `BufferedSocket`: weak fairness of the broker (epoll is level triggered and the loop handles every event) and of the
  client's blocking calls. Neither closing nor sending an ack is obliged to happen.
* `LocalQueue` (`FairSpec`): weak fairness of each reader's and worker's loop, of each handler, and of the broker per
  process, whose poll returns every ready socket. Used only without faults. A handler that never returns is excluded;
  the code bounds its benchmarks by exaid's timeout, and run `exaid` shows that this works.
* `ServiceStop`: only the script goes on, once begun, for every wait of it has a deadline. Workers may hang.
* `KernelCache`: strong fairness of each thread, as a mutex that is released again and again is eventually obtained. The
  platform's mutexes are assumed not to starve a thread; beyond that nothing is assumed of their order.
* `ExaidProxy`: weak fairness of the caller, whose waits have deadlines, and of the kernel that reaps a dead process. The
  subprocess owes nothing.
* `ActionTracker`: weak fairness of the capture threads, the monitor and the polling generator. Nothing makes the process
  end; `StreamEnds` speaks of a process that did.
* The other specifications state safety only.

## 5. Proofs

The theorems hold for every value of the constants that satisfies the assumptions named in the modules
(`FramingAssumption`, `LocalQueueAssumption`, `KernelCacheAssumption`, `ExaidAssumption`,
`ActionTrackerAssumption`, ...): sets of any size, positive capacities, natural bounds. Each is checked with TLC first. A
proof module states an inductive invariant as a conjunction of named parts, shows that the initial states satisfy it and
that each action keeps each part it can disturb, and reads the properties off it.

* **`BufferedSocketProofs`**: `ArmedWhilePending` is inductive by itself. The lemma that carries it says that appending
  to the send buffer, compacting it and flushing part of it keep its offset inside it.
  `FramesIntact` needs two invariants more, `UpInv` and `DownInv`. Each says, for its direction, that the bytes received
  into the frame in work, those in the receiver's buffer, in the pipe and in the sender's buffer are, in this order, the
  rest of the frames sent: a stream is an interval of positions in the concatenation of the frames, and every partial send
  and receive moves a boundary between two adjoining intervals. No decoder is unfolded, so no induction over data is needed.
* **`LocalQueueProofs`**: `InsertKeepsSorted`, for the operators that translate `_get_priority` and
  `_enqueue_with_priority`. The code inserts in a loop over the queue from the end; the model inserts after the last
  element that comes before, and lemmas give position and elements of the result. The type invariant adds that the set of
  blocked messages is finite, without which released
  messages could not be put into a sequence. `QueuesStaySorted` follows from the insertion lemma. `FinishedIsFinal`
  follows from the list of steps that write a status. `AcksFollowDatabase` needs both: an ack on its way, in whatever
  buffer, queue or hand, is for a finished task, and finished tasks stay so. `ReleaseFollowsFinish` joins it with the
  steps of a reader. `ClaimsAreExclusive` is not inductive: it is strengthened by `ClaimedNotPending`, a task some reader
  waits for is not pending, which holds until the first reset of stale tasks. `QueueImplementsLifecycle`: every step of
  `LocalQueue` is a step of `TaskLifecycle` under the mapping of `LocalQueueProperties`, or stutters, faults included.
  That without faults it implements the finer and live lifecycle is checked by run `quiet` only.
  `OneStageAtATime`, `DirectoryLivesLongEnough`, `DirectoryOutlivesWorkers`: the invariant counts, for every task, all
  messages of it wherever they are (queues, blocked set, both directions of each connection, the hands of a worker). A message
  of an early stage excludes every later one, an entry is of one task, and while a message that reads the directory exists
  no message that removes it is in reach of a CPU worker. The stop of the service is a set of further steps on the same
  variables, for which the same parts are shown again.
  `HeldBackIsReleasable` is about an untroubled service: no crash, no exception that escapes, resets as many as one likes.
  Benchmarks stay on the GPU's side (`Allotted`). A worker and the broker take turns (`InTurn`): what a worker sent has been
  served when its next request is answered. So a probe's `postprocess` message and a result of its benchmarks are never both
  on the way to the broker (`Apart`), a result cannot overtake the message that waits for it, and what that message
  expects is to come when it arrives (`Announced`). Two conditions are named in `OneBenchmarker` and cannot be dropped: one GPU
  worker (`LostUnblock` shows what happens with two) and a probe that dispatches something (`EmptyFanout`).
* **`KernelCacheProofs`**: one invariant, `CacheInv`. Its parts say who owns each lock at which place (`Owners`), what an
  image that was loaded leaves behind and never touches again (`Settled`), what a thread that launches holds in its hands
  (`Launching`), how functions, images, packages and directories are backed by each other, and that a miss has a
  failure behind it (`Misses`). None is inductive without the others: a lock read at one place settles a field that is
  read without it at another.
* **`AttentionProofs`**: all properties of run `attention`, for every launch that is `WellFormed` and every size of tile
  (`AttnForwardAssumption`: sizes are positive, and tiles hold whole groups of random numbers).
  - *Arithmetic.* `TileIsExact`: the three intervals of blocks cover the keys of the window once; it rests on lemmas on division
    rounded down and up. `DropoutNumberOfElement`, `DropoutNumbersDiffer`: the number of an element does not depend on
    the tiles and no two elements share one. `RemapPermutes`: the swizzle of program numbers has an inverse. Row, key and L
    addresses of different sequences, heads and positions differ in each of the three layouts.
  - *Forward.* `AttnInv` is `Shape` (programs, tiles and counter are in range), `RowsRight` (a stored row is the exact row
    of the tile it belongs to, or the zeros of a masked one), `LRight`, and `Coverage`: every tile is still in the grid, in
    a resident program's hands, above the counter, or written, from which `EverythingWritten` follows when the grid has drained.
  - *Backward.* `BackInv` says which kernels of the stream have run (`Underway`, `Behind`), that a program writes the rows of
    one tile and different programs different tiles (a bijection between the numbers of a grid and its tiles, for each
    kernel), that what a program reads was stored by the kernels before it (`Effect` lemmas), that every stored row is the exact one
    (`ValuesRight`, `NumbersRight`), and that an element of the bias' gradient is stored once (`DbOnce`).
* **`TuningDatabaseProofs`**: `SelectionIsRight` and `ExportIsRight`. The invariant follows the tasks of the bake that are as
  they were when it began (`Still`), commit by commit: between delete and insert their accuracy rows are gone (`Cleared`), at
  `load` they are exactly the smallest errors of the reports (`Loaded`), while the processes stream, a group whose band is done
  has its choice and any other has none, and no two work items share a group (`Streaming`), and what was
  written stays (`Written`). `Listed` is needed because an incremental bake reads its list twice. The lemmas
  say that the bands partition the range of ids, wherever they cut, and that the candidates under thresholds loaded from exact
  rows are those the property calls `Fastest`. `DatabaseAssumption` says what a report can hold: errors are maxima of
  absolute values, only a backend that refuses its input reports a negative one (`tune/gpu_utils.py:39-80`), and the three
  markers are no numbers.
* **`ExaidProxyProofs`**: `Own` says that while a caller waits, every line in the pipe or the reader's buffer, the
  request on its way and the command in work are of its call, that nothing follows an answer and that only an answer
  comes in pieces (`Answers`); `Clean`, that a process which runs between two calls has nothing left to say. Each is
  needed for the other. `Deaths` relates how the last call ended to what became of the process.
* **`WebConsoleProofs`**: two components.
  - *`ActionTracker`.* `Places` says how far the threads are when the status says so, and gives `StatusAgrees`.
    `StreamComplete` needs more: what a buffer holds (`LastOf`: the last lines of those taken), what was sent of it by
    position (`SentOf`), that an ended capture has taken everything and a monitor whose joins did not time out has seen it end
    (`Captured`), and that a stream closes on a final status with all its buffer sent (`Closed`).
  - *`WorkerScheduler`.* `OneTimerPerHost` and `NeverDisarmed` from `TimersInv`: running timers, those about to be
    stored and the entries of the dictionary are `Identified` (different ones have different numbers, and the number of a new
    one is in none of them), a host without overlap has a `Single` thread or timer, and that timer is the one of the dictionary.
    `WorkersFollowSchedules` adds a calendar: a week is like any other (`NextWeek`), and between an instant and the next
    transition the state of a regular schedule stays as it is (`NothingBefore`). A timer set under the schedule of now is
    `OnTarget`, and it `Lasts` if it was set before anything could change. `Switches` says of a transition that runs that it is
    `Right` unless it is late, and that a late one is followed by another; `Waits`, that between transitions the worker is as the
    schedule says and the timer comes before the change. The guard `ChangesAtBoundaries` was corrected for this proof, since
    with an earlier one the step of `Tick` was false for hours of a single instant, at which the transition
    found no change to make.
* **`OperatorLaunchProofs`**: all four properties of run `lookup_table`.
  - *Numbers.* A Godel number is a recursive function (`Sums`, `Stride`) over parameters whose number is a constant, so facts
    about it need induction, which the prover does not offer with an operator as parameter. Its place is taken by the least
    counterexample (`LeastNat`, from the well-foundedness of the naturals): a statement that fails somewhere has a first
    place where it does. This gives that Godel numbers of different choices differ and stay in the table, that strings of the
    registry start at different offsets, that sorted bins exist and serve a length as the property says (`BinServes`).
  - *Lookup.* `Generated` says of each functional the generator has done that its place in the table holds what its own rows
    give, whatever was registered meanwhile: registries only grow (`Grown`, `TablesKept`), equal sources have equal bins
    (`SharedFunction`), an offset names one text (`StringsOK`), and two functionals never have the same place (`SlotsDiffer`).
    `OptimalRight` reads `LookupRight` off it. For `ChecksSuffice` the invariant adds that a table which passed the check
    has no hole; since every binned length is a place inside the table, nothing else is needed.
  - *Launch.* `LaunchInv` describes a call under way: `Running`, what was launched is the first kernels of the backend in
    work, behind a prefix of the affine one that was left, and nothing of a backend before its lookups are done; `Buffers`, which
    tensors were acquired. `LookupTableAssumption` and `OperatorLaunchAssumption` say what the rules and the caller vouch
    for: a GPU is listed once, recorded backends exist, the fallback is no affine backend and shares no kernel with one,
    compiled kernels ask for `D` only, and `D`, which every backend needs, is given.

Some theorems are of invariants no run lists (types, sorted queues, `FinishedIsFinal`, `ReleaseFollowsFinish`,
`FunctionsBacked`): they carry the others and earn no run beside their proof.

Only model-checked:

* whatever rests on fairness (every `~>`, the live refinement `ImplementsLiveLifecycle` of run `quiet`): liveness and `ENABLED` are beyond the prover.

Every other invariant of the runs is stated by a theorem.

## 6. Not modelled

* **Not modelled at all**: the image build (CMake, compilation, packaging), pure build rules; the legacy queue worker and
  its heartbeats, which the socket workers replaced; logging, metrics and formatting.
* **GPU kernels**: arithmetic and its rounding, INT8, alibi, CAUSAL_TYPE and PERSISTENT_TYPE values that host code never
  passes (`composed_casual_mask` is reached by one of them only), `bwd_postprocess` (aiter only), bias with compact sequences,
  the split of a head dimension into two blocks. Parts that only choose instructions are abstracted.
* **Generator and API**: file writing, the choice rules of each kernel, conditional choices (`settle_unresolved`), the
  capability tables of affine kernels, tuning builds. The forward operator has the launcher of the backward one without
  lazy tensors. Entries of the database for unknown kernels, and packages without a descriptor, are excluded.
* **Runtime**: `direct_invoke` and destructors; parsing of archives and xz data.
* **Local queue**: a second broker on one path, failures of `_accept_worker`, two connections with one worker id during the
  one poll in which an old one has not been found dead; JSON and SQL as text; retry, partitions and statistics in the
  administration of the queue.
* **Result selection**: statistics and reports; after an incremental bake a row of a task that lost all its candidates stays
  (`compute_best_results.py:452`), and the model keeps it as the code does. `schema.sql:219` speaks of ten times the best error,
  the code uses three (`compute_best_results.py:55`); the model follows the code.
* **Web console**: the other routes and tasks, which are request handlers over ssh, SQL and files with no state of their
  own between two requests.

## 7. Left to do

A model of the forward operator beside the backward one; the capability tables of affine kernels; liveness, when the prover
can reason about fairness.
