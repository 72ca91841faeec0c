--------------------------- MODULE TuningDatabase ---------------------------
(***************************************************************************)
(* From reports to the table the library is built from.  The workers add   *)
(* one row per measured candidate (a compiled kernel, or a backend of an   *)
(* operator); bake_lut then runs three programs after one another: the     *)
(* first writes the smallest error seen for every check, the second picks  *)
(* the fastest candidate whose errors stay within a multiple of it, the    *)
(* third writes the picks to an SQLite file.  Each program commits on its  *)
(* own, the database stays in use meanwhile, a reset or a retry may come   *)
(* between any two commits, and the operator may stop a bake and start     *)
(* another one of a different kind.                                        *)
(***************************************************************************)
EXTENDS Integers, FiniteSets, FiniteSetsExt

CONSTANTS
  Tasks,           \* ids of rows of task_queue: numbers, the bands split their range
  Kernels,         \* kernel names (operator names in op mode)
  Arch,            \* the architecture of a task
  Entry,           \* task_config['entry'] of a task: what was tuned for
  Checks,          \* pairs of a test case and a tensor
  Basic,           \* the checks of the test cases whose name begins with "00_"
  Skipped,         \* the checks of SKIP_TEST_CASES
  Reports,         \* per mode, the rows the workers may save
  Multiplier,      \* ACCURACY_MULTIPLIER
  WorkersPerArch,  \* WORKERS_PER_ARCH
  None, Broken, Inapplicable,
  MaxBakes,        \* bakes begun
  MaxHands         \* resets, cancellations and stops by hand, together

(* What a report can hold: a time or none; an absolute error, nothing for  *)
(* a tensor that is no number or does not apply, and in op mode the        *)
(* sentinel of a backend that refused the input.                           *)
Errors(m) == Nat \cup {Broken, Inapplicable} \cup (IF m = "op" THEN {-1} ELSE {})

ReportOK(m, r) ==
  /\ r.task \in Tasks /\ r.kernel \in Kernels
  /\ r.data # None => r.data.time \in Nat \cup {None} /\ \A c \in Checks : r.data.err[c] \in Errors(m)

ASSUME DatabaseAssumption ==
  /\ Tasks \subseteq Nat /\ IsFiniteSet(Tasks)
  /\ Checks # {} /\ Basic \subseteq Checks /\ Skipped \subseteq Checks
  /\ WorkersPerArch \in Nat \ {0} /\ Multiplier \in Nat
  /\ {None, Broken, Inapplicable} \cap Int = {}
  /\ \A m \in {"kernel", "op"} : \A r \in Reports[m] : ReportOK(m, r)

VARIABLES
  mode,      \* --tuning_mode: "kernel" or "op"
  cancelled, \* the tasks whose task_queue.status is "cancelled"
  results,   \* tuning_results / optune_results; equal rows are one row here
  accuracy,  \* most_accurate_*: a set of rows, or None while there is no such table
  best,      \* best_*_results: a set of rows, at most one for a task and kernel
  retry,     \* scratch/retry_task_ids.txt, or None
  output,    \* the exported SQLite file, or None
  bake,      \* the bake under way and how far it is
  moved,     \* history: tasks whose rows or status changed since the bake began
  used       \* bakes and interventions by hand so far

vars == <<mode, cancelled, results, accuracy, best, retry, output, bake, moved, used>>

Groups == Tasks \X Kernels
Idle   == [step |-> "idle"]

Init ==
  /\ mode \in {"kernel", "op"}
  /\ cancelled = {}
  /\ results = {} /\ best = {}
  /\ accuracy = None
  /\ retry = None /\ output = None
  /\ bake = Idle
  /\ moved = {}
  /\ used = [bakes |-> 0, hands |-> 0]

Count(what) == used' = [used EXCEPT ![what] = @ + 1]
Moved(ts)   == moved' = IF bake = Idle THEN {} ELSE moved \union ts

-----------------------------------------------------------------------------
(* The three queries and the choice, as functions of what they read.       *)

Of(rows, g) == {r \in rows : <<r.task, r.kernel>> = g /\ r.data # None}

\* The values the aggregate MIN sees: never the SQL NULL of a tensor that is
\* inapplicable or not a number, and in op mode never the negative error that
\* stands for "the backend refused the input".
Aggregated(m, e) == /\ e \notin {Broken, Inapplicable}
                    /\ m = "op" => e >= 0

SmallestError(m, rows, g, c) ==
  LET errors == {e \in {r.data.err[c] : r \in Of(rows, g)} : Aggregated(m, e)}
  IN  IF errors = {} THEN None ELSE Min(errors)

AccuracyRows(m, rows, ts) ==
  {[task |-> x[1], kernel |-> x[2], check |-> x[3],
    error |-> SmallestError(m, rows, <<x[1], x[2]>>, x[3])] :
     x \in {y \in ts \X Kernels \X Checks :
              /\ Of(rows, <<y[1], y[2]>>) # {}
              /\ m = "op" => SmallestError(m, rows, <<y[1], y[2]>>, y[3]) # None}}

\* The threshold of a check: None when there is no row or its minimum is NULL.
Threshold(thresholds, g, c) ==
  LET es == {a.error : a \in {x \in thresholds : /\ <<x.task, x.kernel>> = g
                                                 /\ x.check = c}}
  IN  IF es = {} THEN None ELSE CHOOSE e \in es : TRUE

TensorPasses(m, thresholds, g, c, e) ==
  \/ e = Inapplicable
  \/ /\ e # Broken
     /\ \/ m = "op" /\ e < 0
        \/ Threshold(thresholds, g, c) = None
        \/ e <= Multiplier * Threshold(thresholds, g, c)

Executed(e) == e \notin {Broken, Inapplicable} /\ e >= 0

Passes(m, thresholds, g, data) ==
  /\ data.time # None
  /\ \A c \in Checks \ Skipped : TensorPasses(m, thresholds, g, c, data.err[c])
  /\ m = "op" => \E c \in Basic \ Skipped : Executed(data.err[c])

\* The candidates the loop may end with: the first of the fastest in an order the
\* query does not fix.
Candidates(m, thresholds, rows, g) ==
  LET passing == {r \in Of(rows, g) : Passes(m, thresholds, g, r.data)}
  IN  {r \in passing : \A q \in passing : r.data.time <= q.data.time}

\* Fault: the width of a band is rounded down.
BandsRoundedDown(ts) ==
  LET lo == Min(ts)
      hi == Max(ts)
      step == (hi - lo + 1) \div WorkersPerArch
  IN  {(lo + i * step) .. Min({lo + (i + 1) * step - 1, hi}) : i \in 0..(WorkersPerArch - 1)}

\* The range of task ids of an architecture is cut into bands, one per process.
Bands(ts) ==
  LET lo == Min(ts)
      hi == Max(ts)
      step == (hi - lo + WorkersPerArch) \div WorkersPerArch
  IN  {(lo + i * step) .. Min({lo + (i + 1) * step - 1, hi}) : i \in 0..(WorkersPerArch - 1)}

WorkItems(thresholds, kind, ids) ==
  UNION {LET ts == {a.task : a \in {x \in thresholds : Arch[x.task] = arch}}
         IN  {[arch |-> arch, tasks |-> b] : b \in IF kind = "full" THEN Bands(ts) ELSE {ids}} :
         arch \in {Arch[a.task] : a \in thresholds}}

-----------------------------------------------------------------------------
(* The queue and the workers, as far as they touch these tables.           *)

\* save_tuning_result, save_optune_result: a plain INSERT, at any time: a worker
\* whose task was reset or cancelled goes on reporting.  Equal rows are one row.
Save(row) ==
  /\ row \notin results
  /\ results' = results \union {row}
  /\ Moved({row.task})
  /\ UNCHANGED <<mode, cancelled, accuracy, best, retry, output, bake, used>>

\* retry_missing_entries writes the ids to a file after the commit and handles
\* kernel tuning only; reset_broken_to_pending writes none.  The first DELETE
\* raises when the accuracy table is missing, and nothing is committed.
Reset(ts, listed) ==
  /\ ts # {} /\ used.hands < MaxHands
  /\ accuracy # None
  /\ listed => mode = "kernel"
  /\ accuracy' = {a \in accuracy : a.task \notin ts}
  /\ results' = {r \in results : r.task \notin ts}
  /\ cancelled' = cancelled \ ts
  /\ retry' = IF listed THEN ts ELSE retry
  /\ Moved(ts) /\ Count("hands")
  /\ UNCHANGED <<mode, best, output, bake>>

\* By hand: the export is the only program that knows this status.
Cancel(t) ==
  /\ t \notin cancelled /\ used.hands < MaxHands
  /\ cancelled' = cancelled \union {t}
  /\ Moved({t}) /\ Count("hands")
  /\ UNCHANGED <<mode, results, accuracy, best, retry, output, bake>>

-----------------------------------------------------------------------------
(* bake_lut: one commit of one of its programs per action.                 *)

At(step)   == bake.step = step
Goto(step) == bake' = [bake EXCEPT !.step = step]
QueueAlone == UNCHANGED <<mode, cancelled, results, retry>>

Begin(kind, ids) ==
  /\ At("idle") /\ used.bakes < MaxBakes
  /\ kind = "full" => ids = Tasks
  /\ kind = "incremental" => ids = retry
  /\ kind = "fix" => ids \in (SUBSET Tasks) \ {{}}
  /\ bake' = [step |-> IF kind = "full" THEN "recreate" ELSE "delete", kind |-> kind, ids |-> ids,
              thresholds |-> {}, work |-> {}, found |-> {}]
  /\ moved' = {}
  /\ Count("bakes")
  /\ QueueAlone /\ UNCHANGED <<accuracy, best, output>>

\* A full bake leaves an empty table (recreate_materialized_view), drops it in one
\* commit and creates it in the next (populate).
RecreateAccuracy ==
  /\ At("recreate") /\ Goto("drop")
  /\ accuracy' = {}
  /\ QueueAlone /\ UNCHANGED <<best, output, moved, used>>

DropAccuracy ==
  /\ At("drop") /\ Goto("create")
  /\ accuracy' = None
  /\ QueueAlone /\ UNCHANGED <<best, output, moved, used>>

CreateAccuracy ==
  /\ At("create") /\ Goto("load")
  /\ accuracy' = AccuracyRows(mode, results, Tasks)
  /\ QueueAlone /\ UNCHANGED <<best, output, moved, used>>

\* The other bakes delete the rows of the tasks listed and insert them anew.
DeleteAccuracy ==
  /\ At("delete") /\ accuracy # None /\ Goto("insert")
  /\ accuracy' = {a \in accuracy : a.task \notin bake.ids}
  /\ QueueAlone /\ UNCHANGED <<best, output, moved, used>>

InsertAccuracy ==
  /\ At("insert") /\ Goto("load")
  /\ accuracy' = accuracy \union AccuracyRows(mode, results, bake.ids)
  /\ QueueAlone /\ UNCHANGED <<best, output, moved, used>>

\* compute_best_results is a program of its own and reads the list again; the one
\* of op mode is a file no program writes.
ListedNow == IF bake.kind # "incremental" THEN bake.ids
             ELSE IF mode = "op" THEN None ELSE retry

\* The thresholds it asks for: of the tasks listed, or of all.
LoadedNow == IF bake.kind = "full" THEN accuracy
             ELSE {a \in accuracy : a.task \in ListedNow}

LoadThresholds ==
  /\ At("load") /\ accuracy # None /\ ListedNow # None
  /\ LET work == WorkItems(LoadedNow, bake.kind, ListedNow)
     IN  /\ work # {}
         /\ bake' = [bake EXCEPT !.step = "stream", !.ids = ListedNow,
                                 !.thresholds = LoadedNow, !.work = work]
  /\ QueueAlone /\ UNCHANGED <<accuracy, best, output, moved, used>>

\* One process of the pool: its cursor sees the results of the moment it opens.
Stream(item) ==
  /\ At("stream") /\ item \in bake.work
  /\ LET mine == {g \in Groups : g[1] \in item.tasks /\ Arch[g[1]] = item.arch}
         choices(g) == Candidates(mode, bake.thresholds, results, g)
     IN  \E pick \in [{g \in mine : choices(g) # {}} -> results] :
           /\ \A g \in DOMAIN pick : pick[g] \in choices(g)
           /\ bake' = [bake EXCEPT !.work = @ \ {item},
                                   !.found = @ \union {pick[g] : g \in DOMAIN pick}]
  /\ QueueAlone /\ UNCHANGED <<accuracy, best, output, moved, used>>

\* write_results: one commit.  A full bake truncates; the others write over the
\* rows of what was found and leave every other row.
WriteResults ==
  /\ At("stream") /\ bake.work = {}
  /\ bake' = [bake EXCEPT !.step = "remove", !.thresholds = {}, !.found = {}]
  /\ best' = bake.found \union
       IF bake.kind = "full" THEN {}
       ELSE {b \in best : \A f \in bake.found : <<f.task, f.kernel>> # <<b.task, b.kernel>>}
  /\ QueueAlone /\ UNCHANGED <<accuracy, output, moved, used>>

RemoveOutput ==
  /\ At("remove") /\ Goto("export")
  /\ output' = None
  /\ QueueAlone /\ UNCHANGED <<accuracy, best, moved, used>>

\* The columns of the UNIQUE clause of the SQLite tables: a window and a plain causal
\* mask are one type, and of the dropout only whether there is any is left.
derive_causal_type(entry)    == IF entry.causal = "none" THEN 0 ELSE 3
derive_enable_dropout(entry) == IF entry.dropout_p > 0 THEN 1 ELSE 0
Key(t) ==
  [gpu |-> Arch[t],
   entry |-> [Entry[t] EXCEPT !.causal = derive_causal_type(Entry[t]),
                              !.dropout_p = derive_enable_dropout(Entry[t])]]

\* Fault: the rows of cancelled tasks are exported too.
LiveAll(rows) == rows

Live(rows) == {b \in rows : b.task \notin cancelled}

\* The files rows may leave: they are inserted in an order that is open between
\* tasks of one key, and a later row replaces an earlier one.
InsertedOrReplaced(rows) ==
  LET cells == {<<b.kernel, Key(b.task)>> : b \in rows}
      of(x) == {b \in rows : <<b.kernel, Key(b.task)>> = x}
  IN  {last \in [cells -> rows] : \A x \in cells : last[x] \in of(x)}

export ==
  /\ At("export") /\ mode = "kernel"
  /\ output' \in InsertedOrReplaced(Live(best))
  /\ Goto("exported")
  /\ QueueAlone /\ UNCHANGED <<accuracy, best, moved, used>>

export_op ==
  /\ At("export") /\ mode = "op"
  /\ output' \in InsertedOrReplaced(Live(best))
  /\ Goto("exported")
  /\ QueueAlone /\ UNCHANGED <<accuracy, best, moved, used>>

\* The sanity check and the decomposition read the file only.
Done ==
  /\ At("exported")
  /\ bake' = Idle /\ moved' = {}
  /\ QueueAlone /\ UNCHANGED <<accuracy, best, output, used>>

\* A program that raises, or the operator, ends the bake where it is.
Raises ==
  \/ At("delete") /\ accuracy = None
  \/ At("load") /\ (ListedNow = None \/ accuracy = None)
  \/ /\ At("load") /\ ListedNow # None /\ accuracy # None
     /\ WorkItems(LoadedNow, bake.kind, ListedNow) = {}

Stop ==
  /\ bake.step \notin {"idle", "exported"}
  /\ \/ Raises /\ UNCHANGED used
     \/ used.hands < MaxHands /\ Count("hands")
  /\ bake' = Idle /\ moved' = {}
  /\ QueueAlone /\ UNCHANGED <<accuracy, best, output>>

Bake ==
  \/ \E kind \in {"full", "incremental", "fix"}, ids \in SUBSET Tasks : Begin(kind, ids)
  \/ RecreateAccuracy \/ DropAccuracy \/ CreateAccuracy \/ DeleteAccuracy \/ InsertAccuracy
  \/ LoadThresholds
  \/ bake.step = "stream" /\ \E item \in bake.work : Stream(item)
  \/ WriteResults \/ RemoveOutput \/ export \/ export_op \/ Done \/ Stop

Queue ==
  \/ \E t \in Tasks : Cancel(t)
  \/ \E row \in Reports[mode] : Save(row)
  \/ \E ts \in SUBSET Tasks, listed \in BOOLEAN : Reset(ts, listed)

Next == Bake \/ Queue

Spec == Init /\ [][Next]_vars

-----------------------------------------------------------------------------
(* Properties.                                                             *)

\* What a candidate has to do, said of all reports of its group at once.
Measured(g) == Of(results, g)
WithinReach(e, g, c) == \A q \in Measured(g) :
                          q.data.err[c] \in Nat => e <= Multiplier * q.data.err[c]
Admissible(r) ==
  LET g == <<r.task, r.kernel>>
  IN  /\ r.data.time # None
      /\ \A c \in Checks \ Skipped :
           \/ r.data.err[c] = Inapplicable
           \/ r.data.err[c] \in Nat /\ WithinReach(r.data.err[c], g, c)
           \/ mode = "op" /\ r.data.err[c] = -1
      /\ mode = "op" => \E c \in Basic \ Skipped : r.data.err[c] \in Nat
Fastest(g) ==
  {r \in Measured(g) :
     /\ Admissible(r)
     /\ \A q \in Measured(g) : Admissible(q) => r.data.time <= q.data.time}

\* After the second program has committed, every task of the bake nothing happened
\* to since the bake began has the fastest candidate within reach of the best error
\* seen, and after a full bake a task without such a candidate has none: whatever
\* was saved, reset or cancelled for other tasks between the commits, whichever
\* bake was stopped before, and wherever the bands cut (compute_best_results.main,
\* worker_process_arch, populate).  A bake of listed tasks says nothing of a listed
\* task without such a candidate: its row of an earlier bake stays.
SelectionRight ==
  bake.step = "remove" =>
    \A g \in Groups : g[1] \in bake.ids \ moved =>
      LET row == {b \in best : <<b.task, b.kernel>> = g}
      IN  IF Fastest(g) # {} THEN \E r \in Fastest(g) : row = {r}
                             ELSE bake.kind = "full" => row = {}

\* After a full bake the file holds, for every key nothing happened to, the pick of
\* one of the tasks of that key that are not cancelled, and no row when none of them
\* has a pick: a task without a pick does not hide the pick of another (export,
\* INSERT OR REPLACE).
ExportRight ==
  bake.step = "exported" /\ bake.kind = "full" =>
    \A k \in Kernels, x \in {Key(t) : t \in Tasks} :
      LET ts == {t \in Tasks : Key(t) = x}
          picks == UNION {Fastest(<<t, k>>) : t \in ts \ cancelled}
      IN  ts \intersect moved = {} =>
            IF picks = {} THEN <<k, x>> \notin DOMAIN output
                          ELSE <<k, x>> \in DOMAIN output /\ output[<<k, x>>] \in picks

=============================================================================
