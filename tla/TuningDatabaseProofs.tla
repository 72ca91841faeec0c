------------------------ MODULE TuningDatabaseProofs ------------------------
(***************************************************************************)
(* What a bake selects and exports, for any number of tasks, kernels,      *)
(* processes, bakes and interventions by hand.  The tasks that matter are  *)
(* those of the bake nothing has happened to (Still): their reports are    *)
(* what they were when the bake began, and the invariant says for each     *)
(* commit of the three programs what it has made of those reports.         *)
(***************************************************************************)
EXTENDS TuningDatabase, FiniteSetTheorems, WellFoundedInduction, TLAPS

BakeFields == {"step", "kind", "ids", "thresholds", "work", "found"}
Steps == {"recreate", "drop", "create", "delete", "insert", "load", "stream",
          "remove", "export", "exported"}

Shape ==
  /\ mode \in {"kernel", "op"}
  /\ results \subseteq Reports[mode] /\ best \subseteq Reports[mode]
  /\ accuracy # None => \A a \in accuracy : a.task \in Tasks
  /\ retry # None => retry \subseteq Tasks
  /\ bake # Idle =>
       /\ DOMAIN bake = BakeFields /\ bake.step \in Steps
       /\ bake.kind \in {"full", "incremental", "fix"}
       /\ bake.ids \subseteq Tasks /\ (bake.kind = "full" => bake.ids = Tasks)
       /\ bake.step \in {"recreate", "drop", "create"} => bake.kind = "full"
       /\ bake.step # "stream" => bake.found = {}

(* The tasks of the bake that are as they were when it began.              *)
Still == bake.ids \ moved

(* The rows of a task are the smallest errors of its reports.              *)
Exact(S, t) == {a \in S : a.task = t} = AccuracyRows(mode, results, {t})

(* An incremental bake reads the list twice: the list is the same, or what *)
(* it names was reset in between.                                          *)
Listed ==
  bake.step \in {"delete", "insert", "load"} /\ bake.kind = "incremental" =>
    retry = bake.ids \/ retry \subseteq moved

Cleared ==
  bake.step = "insert" => \A a \in accuracy : a.task \in Tasks \ bake.ids

Loaded == bake.step = "load" => \A t \in Still : Exact(accuracy, t)

Covers(item, g) == g[1] \in item.tasks /\ item.arch = Arch[g[1]]

RowsOf(S, g) == {b \in S : <<b.task, b.kernel>> = g}

Chosen(S, g) == IF Fastest(g) # {} THEN \E r \in Fastest(g) : RowsOf(S, g) = {r}
                                   ELSE RowsOf(S, g) = {}

(* The processes share the tasks out; what was found so far is the choice  *)
(* for the groups of processes that are through.                           *)
Streaming ==
  bake.step = "stream" =>
    /\ \A t \in Still : Exact(bake.thresholds, t)
    /\ \A g \in Groups : \A i, j \in bake.work : Covers(i, g) /\ Covers(j, g) => i = j
    /\ bake.found \subseteq Reports[mode]
    /\ \A g \in Groups : g[1] \in Still =>
         IF \E i \in bake.work : Covers(i, g) THEN RowsOf(bake.found, g) = {}
                                              ELSE Chosen(bake.found, g)

Selected(g) ==
  IF Fastest(g) # {} THEN \E r \in Fastest(g) : RowsOf(best, g) = {r}
                     ELSE bake.kind = "full" => RowsOf(best, g) = {}

Written ==
  bake.step \in {"remove", "export", "exported"} =>
    \A g \in Groups : g[1] \in Still => Selected(g)

DatabaseInv ==
  Shape /\ Listed /\ Cleared /\ Loaded /\ Streaming /\ Written /\ ExportRight

-----------------------------------------------------------------------------
(* Numbers and bands.                                                      *)

LEMMA MinIsLeast ==
  ASSUME NEW S \in SUBSET Nat, S # {}
  PROVE  Min(S) \in S /\ \A x \in S : Min(S) <= x
<1> DEFINE R == {ss \in Nat \X Nat : ss[1] < ss[2]}
<1>1. OpToRel(<, Nat) = R
  BY Zenon DEF OpToRel
<1>2. IsWellFoundedOn(R, Nat)
  BY <1>1, NatLessThanWellFounded
<1>3. PICK x \in S : \A y \in S : ~ (<<y, x>> \in R)
  <2> HIDE DEF R
  <2> QED BY <1>2, WFMin
<1>4. \A y \in S : x <= y
  <2> SUFFICES ASSUME NEW y \in S, y < x PROVE FALSE
    OBVIOUS
  <2>1. <<y, x>> \in R
    OBVIOUS
  <2> QED BY <1>3, <2>1
<1> QED BY <1>4 DEF Min

\* Of the sets of what lies above an element, a smallest one is empty.
LEMMA MaxIsGreatest ==
  ASSUME NEW S \in SUBSET Nat, S # {}, IsFiniteSet(S)
  PROVE  Max(S) \in S /\ \A x \in S : x <= Max(S)
<1> DEFINE above(x) == {y \in S : y > x}
           T == {above(x) : x \in S}
           R == StrictSubsetOrdering(S)
<1>1. IsWellFoundedOn(R, SUBSET S)
  BY FS_StrictSubsetOrderingWellFounded, FS_FiniteSubsetsOfFinite
<1>2. T \subseteq SUBSET S /\ T # {}
  OBVIOUS
<1>3. PICK U \in T : \A V \in T : ~ (<<V, U>> \in R)
  <2> HIDE DEF T, R
  <2> QED BY <1>1, <1>2, WFMin
<1>4. PICK x \in S : U = above(x)
  OBVIOUS
<1>5. ASSUME NEW y \in S PROVE y <= x
  <2> SUFFICES ASSUME y > x PROVE FALSE
    OBVIOUS
  <2>1. above(y) \subseteq above(x) /\ y \in above(x) /\ y \notin above(y)
    <3>1. x \in Nat /\ y \in Nat /\ \A z \in S : z \in Nat
      OBVIOUS
    <3>2. \A z \in above(y) : z \in above(x)
      BY <3>1
    <3>3. y \in above(x)
      OBVIOUS
    <3>4. y \notin above(y)
      BY <3>1
    <3> HIDE DEF above
    <3> QED BY <3>2, <3>3, <3>4
  <2>2. <<above(y), U>> \in R
    BY <1>4, <2>1, <1>2 DEF StrictSubsetOrdering
  <2> QED BY <1>3, <2>2
<1> QED BY <1>5 DEF Max

LEMMA ProductNat == ASSUME NEW a \in Nat, NEW b \in Nat PROVE a * b \in Nat
  OBVIOUS

LEMMA DivFloor ==
  ASSUME NEW x \in Nat, NEW y \in Nat \ {0}
  PROVE  /\ x \div y \in Nat
         /\ (x \div y) * y <= x
         /\ x < (x \div y) * y + y
  OBVIOUS

\* Two intervals of one width that begin at its multiples have nothing in common.
LEMMA MultiplesApart ==
  ASSUME NEW i \in Nat, NEW j \in Nat, NEW w \in Nat, NEW x \in Int,
         i * w <= x, x < (i + 1) * w, j * w <= x, x < (j + 1) * w
  PROVE  i = j
<1>1. (i + 1) * w = i * w + w /\ (j + 1) * w = j * w + w /\ i * w \in Nat /\ j * w \in Nat
  BY ProductNat
<1>2. CASE i < j
  <2>1. (j - i - 1) * w \in Nat
    BY <1>2, ProductNat
  <2>2. (j - i - 1) * w = j * w - i * w - w
    OBVIOUS
  <2> QED BY <1>1, <2>1, <2>2
<1>3. CASE j < i
  <2>1. (i - j - 1) * w \in Nat
    BY <1>3, ProductNat
  <2>2. (i - j - 1) * w = i * w - j * w - w
    OBVIOUS
  <2> QED BY <1>1, <2>1, <2>2
<1> QED BY <1>2, <1>3

\* The width of a band is rounded up: the bands reach the last id.
LEMMA WidthReaches ==
  ASSUME NEW n \in Nat, NEW w \in Nat \ {0}, NEW step, step = (n + w) \div w
  PROVE  step \in Nat \ {0} /\ n < w * step
<1>1. /\ step \in Nat /\ step * w <= n + w
      /\ n + w < step * w + w
  BY DivFloor
<1>2. step * w = w * step
  BY <1>1
<1>3. n < step * w
  BY <1>1
<1>4. step # 0
  <2> SUFFICES ASSUME step = 0 PROVE FALSE
    OBVIOUS
  <2> QED BY <1>3
<1> QED BY <1>1, <1>2, <1>3, <1>4

\* No id is in two bands, and each task with thresholds in one, whatever ids
\* are left out between them.
LEMMA BandsPartition ==
  ASSUME NEW ts \in SUBSET Tasks, ts # {}, NEW t \in Nat
  PROVE  /\ t \in ts => \E b \in Bands(ts) : t \in b
         /\ \A b, c \in Bands(ts) : t \in b /\ t \in c => b = c
<1> DEFINE lo == Min(ts)
           hi == Max(ts)
           step == (hi - lo + WorkersPerArch) \div WorkersPerArch
           band(i) == (lo + i * step) .. Min({lo + (i + 1) * step - 1, hi})
<1>1. ts \in SUBSET Nat /\ ts # {} /\ IsFiniteSet(ts) /\ WorkersPerArch \in Nat \ {0}
  BY FS_Subset, DatabaseAssumption
<1>2. lo \in Nat /\ hi \in Nat /\ lo <= hi /\ (t \in ts => lo <= t /\ t <= hi)
  <2>1. lo \in ts /\ hi \in ts /\ \A x \in ts : lo <= x /\ x <= hi
    BY <1>1, MinIsLeast, MaxIsGreatest
  <2> HIDE DEF lo, hi
  <2> QED BY <1>1, <2>1
<1> HIDE DEF lo, hi
<1>3. hi - lo \in Nat
  BY <1>2
<1>4. step \in Nat \ {0} /\ hi - lo < WorkersPerArch * step
  BY <1>1, <1>3, WidthReaches
<1> HIDE DEF step
<1>5. Bands(ts) = {band(i) : i \in 0..(WorkersPerArch - 1)}
  BY DEF Bands, lo, hi, step
<1>6. ASSUME NEW i \in Nat
      PROVE  t \in band(i) <=> i * step <= t - lo /\ t - lo < (i + 1) * step /\ t <= hi
  <2>1. i * step \in Nat /\ (i + 1) * step \in Nat
    BY <1>4, ProductNat
  <2> DEFINE e == (i + 1) * step
             d == i * step
  <2>2. lo + e - 1 \in Int /\ hi \in Int
    BY <1>2, <2>1
  <2>3. Min({lo + e - 1, hi}) = IF lo + e - 1 <= hi THEN lo + e - 1 ELSE hi
    <3> HIDE DEF e
    <3> QED BY <2>2 DEF Min
  <2> HIDE DEF e, d
  <2> SUFFICES t \in (lo + d) .. Min({lo + e - 1, hi}) <=> d <= t - lo /\ t - lo < e /\ t <= hi
    BY DEF e, d
  <2>4. d \in Nat /\ e \in Nat
    BY <2>1 DEF d, e
  <2> QED BY <1>2, <2>3, <2>4
<1>7. ASSUME t \in ts PROVE \E b \in Bands(ts) : t \in b
  <2> DEFINE i == (t - lo) \div step
  <2>1. t - lo \in Nat /\ t <= hi
    BY <1>2, <1>7
  <2>2. i \in Nat /\ i * step <= t - lo /\ t - lo < i * step + step
    BY <2>1, <1>4, DivFloor
  <2> HIDE DEF i
  <2>3. (i + 1) * step = i * step + step
    BY <2>2, <1>4
  <2>4. i < WorkersPerArch
    <3> SUFFICES ASSUME WorkersPerArch <= i PROVE FALSE
      BY <2>2, <1>1
    <3>1. (i - WorkersPerArch) * step \in Nat
      BY <2>2, <1>1, <1>4, ProductNat
    <3>2. (i - WorkersPerArch) * step = i * step - WorkersPerArch * step
      BY <2>2, <1>1, <1>4
    <3>3. i * step \in Nat /\ WorkersPerArch * step \in Nat
      BY <2>2, <1>1, <1>4, ProductNat
    <3> QED BY <3>1, <3>2, <3>3, <2>1, <2>2, <1>4, <1>2
  <2>5. i \in 0..(WorkersPerArch - 1)
    BY <2>2, <2>4, <1>1
  <2>6. t \in band(i)
    BY <1>6, <2>1, <2>2, <2>3
  <2> QED BY <1>5, <2>5, <2>6
<1>8. ASSUME NEW b \in Bands(ts), NEW c \in Bands(ts), t \in b, t \in c PROVE b = c
  <2>1. PICK i \in 0..(WorkersPerArch - 1) : b = band(i)
    BY <1>5
  <2>2. PICK j \in 0..(WorkersPerArch - 1) : c = band(j)
    BY <1>5
  <2>3. i \in Nat /\ j \in Nat /\ t - lo \in Int /\ step \in Nat
    BY <1>1, <1>2, <1>4
  <2>4. i * step <= t - lo /\ t - lo < (i + 1) * step
    BY <1>6, <1>8, <2>1, <2>3
  <2>5. j * step <= t - lo /\ t - lo < (j + 1) * step
    BY <1>6, <1>8, <2>2, <2>3
  <2>6. i = j
    BY <2>3, <2>4, <2>5, MultiplesApart
  <2> QED BY <2>1, <2>2, <2>6
<1> QED BY <1>7, <1>8

-----------------------------------------------------------------------------
(* What the queries compute of the reports of a group.                     *)

LEMMA ReportOfGroup ==
  ASSUME Shape, NEW g, NEW q \in Of(results, g)
  PROVE  /\ q \in results /\ q.task = g[1] /\ q.kernel = g[2] /\ g \in Groups
         /\ <<q.task, q.kernel>> = g /\ q.data # None
         /\ q.data.time \in Nat \cup {None}
         /\ \A c \in Checks : q.data.err[c] \in Errors(mode)
<1>1. q \in results /\ <<q.task, q.kernel>> = g /\ q.data # None
  BY DEF Of
<1>2. ReportOK(mode, q)
  BY <1>1, DatabaseAssumption DEF Shape
<1> QED BY <1>1, <1>2 DEF ReportOK, Groups

LEMMA ErrorKinds ==
  ASSUME Shape, NEW e \in Errors(mode)
  PROVE  /\ Aggregated(mode, e) <=> e \in Nat
         /\ Executed(e) <=> e \in Nat
         /\ e \in Nat => e # Inapplicable /\ e # Broken
         /\ e \notin Nat => e = Inapplicable \/ e = Broken \/ (mode = "op" /\ e = -1)
<1>1. Broken \notin Int /\ Inapplicable \notin Int
  BY DatabaseAssumption
<1>2. e \in Nat \/ e = Broken \/ e = Inapplicable \/ (mode = "op" /\ e = -1)
  BY DEF Errors
<1>3. CASE e \in Nat
  BY <1>1, <1>3 DEF Aggregated, Executed
<1>4. CASE e = Broken \/ e = Inapplicable
  BY <1>1, <1>4 DEF Aggregated, Executed
<1>5. CASE mode = "op" /\ e = -1
  BY <1>1, <1>5 DEF Aggregated, Executed
<1> QED BY <1>2, <1>3, <1>4, <1>5

LEMMA SmallestOfReports ==
  ASSUME Shape, NEW g, NEW c \in Checks
  PROVE  /\ SmallestError(mode, results, g, c) = None
              \/ SmallestError(mode, results, g, c) \in Nat
         /\ SmallestError(mode, results, g, c) \in Nat =>
              \E q \in Of(results, g) : q.data.err[c] = SmallestError(mode, results, g, c)
         /\ \A q \in Of(results, g) : q.data.err[c] \in Nat =>
              /\ SmallestError(mode, results, g, c) \in Nat
              /\ SmallestError(mode, results, g, c) <= q.data.err[c]
<1> DEFINE errors == {e \in {r.data.err[c] : r \in Of(results, g)} : Aggregated(mode, e)}
<1>1. SmallestError(mode, results, g, c) = IF errors = {} THEN None ELSE Min(errors)
  BY DEF SmallestError
<1>2. \A q \in Of(results, g) : q.data.err[c] \in Errors(mode)
  BY ReportOfGroup
<1>3. \A e : e \in errors <=> e \in Nat /\ \E q \in Of(results, g) : q.data.err[c] = e
  BY <1>2, ErrorKinds
<1>4. errors \in SUBSET Nat
  BY <1>3
<1>5. None \notin Nat
  BY DatabaseAssumption
<1> HIDE DEF errors
<1>6. CASE errors = {}
  BY <1>1, <1>3, <1>5, <1>6
<1>7. CASE errors # {}
  <2>1. Min(errors) \in errors /\ \A x \in errors : Min(errors) <= x
    BY <1>4, <1>7, MinIsLeast
  <2> QED BY <1>1, <1>3, <1>7, <2>1
<1> QED BY <1>6, <1>7

\* The rows the first program leaves of a task.
RowIs(m, rows, t, k, c, a) ==
  /\ a = [task |-> t, kernel |-> k, check |-> c,
          error |-> SmallestError(m, rows, <<t, k>>, c)]
  /\ Of(rows, <<t, k>>) # {}
  /\ m = "op" => SmallestError(m, rows, <<t, k>>, c) # None

LEMMA AccuracyRowIs ==
  ASSUME NEW m, NEW rows, NEW ts, NEW a \in AccuracyRows(m, rows, ts)
  PROVE  \E t \in ts, k \in Kernels, c \in Checks : RowIs(m, rows, t, k, c, a)
<1>1. PICK x \in ts \X Kernels \X Checks :
        /\ a = [task |-> x[1], kernel |-> x[2], check |-> x[3],
                error |-> SmallestError(m, rows, <<x[1], x[2]>>, x[3])]
        /\ Of(rows, <<x[1], x[2]>>) # {}
        /\ m = "op" => SmallestError(m, rows, <<x[1], x[2]>>, x[3]) # None
  BY DEF AccuracyRows
<1>2. x[1] \in ts /\ x[2] \in Kernels /\ x[3] \in Checks
  OBVIOUS
<1>3. RowIs(m, rows, x[1], x[2], x[3], a)
  BY <1>1 DEF RowIs
<1> QED BY <1>2, <1>3

LEMMA AccuracyRowOf ==
  ASSUME NEW m, NEW rows, NEW ts, NEW t \in ts, NEW k \in Kernels, NEW c \in Checks,
         NEW a, RowIs(m, rows, t, k, c, a)
  PROVE  a \in AccuracyRows(m, rows, ts)
<1> DEFINE T == {y \in ts \X Kernels \X Checks :
              /\ Of(rows, <<y[1], y[2]>>) # {}
              /\ m = "op" => SmallestError(m, rows, <<y[1], y[2]>>, y[3]) # None}
           Row(y) == [task |-> y[1], kernel |-> y[2], check |-> y[3],
                      error |-> SmallestError(m, rows, <<y[1], y[2]>>, y[3])]
           x == <<t, k, c>>
<1>1. x[1] = t /\ x[2] = k /\ x[3] = c /\ x \in ts \X Kernels \X Checks
  OBVIOUS
<1> HIDE DEF x
<1>2. x \in T
  BY <1>1 DEF RowIs
<1>3. a = Row(x)
  BY <1>1 DEF RowIs
<1>4. AccuracyRows(m, rows, ts) = {Row(y) : y \in T}
  BY DEF AccuracyRows
<1> HIDE DEF T, Row
<1> QED BY <1>2, <1>3, <1>4

LEMMA AccuracyTasks ==
  ASSUME NEW m, NEW rows, NEW ts, NEW a \in AccuracyRows(m, rows, ts)
  PROVE  a.task \in ts
<1>1. PICK t \in ts, k \in Kernels, c \in Checks : RowIs(m, rows, t, k, c, a)
  BY AccuracyRowIs
<1> QED BY <1>1 DEF RowIs

LEMMA AccuracyOfTask ==
  ASSUME NEW m, NEW rows, NEW ts, NEW t \in ts
  PROVE  {a \in AccuracyRows(m, rows, ts) : a.task = t} = AccuracyRows(m, rows, {t})
<1>1. ASSUME NEW a \in AccuracyRows(m, rows, ts), a.task = t PROVE a \in AccuracyRows(m, rows, {t})
  <2>1. PICK u \in ts, k \in Kernels, c \in Checks : RowIs(m, rows, u, k, c, a)
    BY AccuracyRowIs
  <2>2. u = t
    BY <1>1, <2>1 DEF RowIs
  <2> QED BY <2>1, <2>2, AccuracyRowOf
<1>2. ASSUME NEW a \in AccuracyRows(m, rows, {t}) PROVE a \in AccuracyRows(m, rows, ts) /\ a.task = t
  <2>1. PICK u \in {t}, k \in Kernels, c \in Checks : RowIs(m, rows, u, k, c, a)
    BY AccuracyRowIs
  <2>2. a.task = t
    BY <2>1 DEF RowIs
  <2> QED BY <2>1, <2>2, AccuracyRowOf
<1> QED BY <1>1, <1>2

LEMMA AccuracyOfSameReports ==
  ASSUME NEW m, NEW r1, NEW r2, NEW t, \A k : Of(r1, <<t, k>>) = Of(r2, <<t, k>>)
  PROVE  AccuracyRows(m, r1, {t}) = AccuracyRows(m, r2, {t})
<1>1. ASSUME NEW k, NEW c
      PROVE  SmallestError(m, r1, <<t, k>>, c) = SmallestError(m, r2, <<t, k>>, c)
  <2>1. Of(r1, <<t, k>>) = Of(r2, <<t, k>>)
    OBVIOUS
  <2> QED BY <2>1 DEF SmallestError
<1>2. ASSUME NEW x \in {t} \X Kernels \X Checks
      PROVE  /\ Of(r1, <<x[1], x[2]>>) = Of(r2, <<x[1], x[2]>>)
             /\ SmallestError(m, r1, <<x[1], x[2]>>, x[3]) = SmallestError(m, r2, <<x[1], x[2]>>, x[3])
  <2>1. x[1] = t
    OBVIOUS
  <2> QED BY <1>1, <2>1
<1> DEFINE T(rows) == {y \in {t} \X Kernels \X Checks :
              /\ Of(rows, <<y[1], y[2]>>) # {}
              /\ m = "op" => SmallestError(m, rows, <<y[1], y[2]>>, y[3]) # None}
           Row(rows, x) == [task |-> x[1], kernel |-> x[2], check |-> x[3],
                            error |-> SmallestError(m, rows, <<x[1], x[2]>>, x[3])]
<1>3. T(r1) = T(r2) /\ T(r1) \subseteq {t} \X Kernels \X Checks
  BY <1>2
<1>4. \A x \in T(r1) : Row(r1, x) = Row(r2, x)
  BY <1>2
<1>5. /\ AccuracyRows(m, r1, {t}) = {Row(r1, x) : x \in T(r1)}
      /\ AccuracyRows(m, r2, {t}) = {Row(r2, x) : x \in T(r2)}
  BY DEF AccuracyRows
<1> HIDE DEF T, Row
<1>6. \A a : a \in {Row(r1, x) : x \in T(r1)} <=> a \in {Row(r2, x) : x \in T(r2)}
  BY <1>3, <1>4
<1> QED BY <1>5, <1>6

LEMMA ThresholdIsSmallest ==
  ASSUME Shape, NEW S, NEW t, NEW k \in Kernels, NEW c \in Checks,
         Exact(S, t), Of(results, <<t, k>>) # {}
  PROVE  Threshold(S, <<t, k>>, c) = SmallestError(mode, results, <<t, k>>, c)
<1> DEFINE g == <<t, k>>
           x == SmallestError(mode, results, g, c)
           row == [task |-> t, kernel |-> k, check |-> c, error |-> x]
           rs == {y \in S : <<y.task, y.kernel>> = g /\ y.check = c}
           es == {a.error : a \in rs}
<1>1. Threshold(S, g, c) = IF es = {} THEN None ELSE CHOOSE e \in es : TRUE
  BY DEF Threshold
<1>2. \A a : a \in S /\ a.task = t <=> a \in AccuracyRows(mode, results, {t})
  BY DEF Exact
<1>3. ASSUME NEW a \in rs PROVE a.error = x /\ (mode = "op" => x # None)
  <2>1. a \in AccuracyRows(mode, results, {t}) /\ a.kernel = k /\ a.check = c
    BY <1>2
  <2>2. PICK u \in {t}, l \in Kernels, d \in Checks : RowIs(mode, results, u, l, d, a)
    BY <2>1, AccuracyRowIs
  <2>3. u = t /\ l = k /\ d = c
    BY <2>1, <2>2 DEF RowIs
  <2> QED BY <2>2, <2>3 DEF RowIs
<1>4. mode # "op" \/ x # None => row \in rs
  <2> SUFFICES ASSUME mode # "op" \/ x # None PROVE row \in rs
    OBVIOUS
  <2>1. row \in AccuracyRows(mode, results, {t})
    BY AccuracyRowOf DEF RowIs
  <2>2. row \in S
    BY <1>2, <2>1
  <2> QED BY <2>2
<1>5. CASE mode = "op" /\ x = None
  <2>1. rs = {}
    BY <1>3, <1>5
  <2>2. es = {}
    BY <2>1
  <2> QED BY <1>1, <1>5, <2>2
<1>6. CASE mode # "op" \/ x # None
  <2>1. row \in rs /\ row.error = x
    BY <1>4, <1>6
  <2>2. es = {x}
    <3> HIDE DEF rs, row, x
    <3> QED BY <1>3, <2>1
  <2> QED BY <1>1, <2>2
<1> QED BY <1>5, <1>6

\* A check by the thresholds is one by all reports of the group.
LEMMA CheckPasses ==
  ASSUME Shape, NEW S, NEW g \in Groups, Exact(S, g[1]),
         NEW r \in Of(results, g), NEW c \in Checks
  PROVE  TensorPasses(mode, S, g, c, r.data.err[c]) <=>
           \/ r.data.err[c] = Inapplicable
           \/ r.data.err[c] \in Nat /\ WithinReach(r.data.err[c], g, c)
           \/ mode = "op" /\ r.data.err[c] = -1
<1> DEFINE e == r.data.err[c]
           x == SmallestError(mode, results, g, c)
<1>1. e \in Errors(mode)
  BY ReportOfGroup
<1>2. /\ e \in Nat => e # Inapplicable /\ e # Broken
      /\ e \notin Nat => e = Inapplicable \/ e = Broken \/ (mode = "op" /\ e = -1)
  BY <1>1, ErrorKinds
<1>3. g = <<g[1], g[2]>> /\ g[2] \in Kernels
  BY DEF Groups
<1>4. Threshold(S, g, c) = x
  BY <1>3, ThresholdIsSmallest
<1>5. /\ x = None \/ x \in Nat
      /\ x \in Nat => \E q \in Of(results, g) : q.data.err[c] = x
      /\ \A q \in Of(results, g) : q.data.err[c] \in Nat => x \in Nat /\ x <= q.data.err[c]
  BY SmallestOfReports
<1>6. /\ None \notin Int /\ Broken \notin Int /\ Inapplicable \notin Int
      /\ Multiplier \in Nat
  BY DatabaseAssumption
<1>7. TensorPasses(mode, S, g, c, e) <=>
        \/ e = Inapplicable
        \/ /\ e # Broken
           /\ (mode = "op" /\ e < 0) \/ x = None \/ e <= Multiplier * x
  BY <1>4 DEF TensorPasses
<1>8. WithinReach(e, g, c) <=>
        \A q \in Of(results, g) : q.data.err[c] \in Nat => e <= Multiplier * q.data.err[c]
  BY DEF WithinReach, Measured
<1>9. CASE e \in Nat
  <2>1. x \in Nat
    BY <1>5, <1>9
  <2>2. e <= Multiplier * x <=> WithinReach(e, g, c)
    <3>1. ASSUME e <= Multiplier * x, NEW q \in Of(results, g), q.data.err[c] \in Nat
          PROVE  e <= Multiplier * q.data.err[c]
      <4> DEFINE y == q.data.err[c]
      <4>1. x <= y /\ y \in Nat
        BY <1>5, <3>1
      <4> HIDE DEF x, y, e
      <4>2. Multiplier * (y - x) \in Nat
        BY <4>1, <2>1, <1>6, ProductNat
      <4>3. Multiplier * (y - x) = Multiplier * y - Multiplier * x
        BY <4>1, <2>1, <1>6
      <4>4. Multiplier * y \in Int /\ Multiplier * x \in Int
        BY <4>1, <2>1, <1>6
      <4>5. e <= Multiplier * y
        BY <4>2, <4>3, <4>4, <3>1, <1>9
      <4> QED BY <4>5 DEF y
    <3>2. ASSUME WithinReach(e, g, c) PROVE e <= Multiplier * x
      BY <1>5, <1>8, <2>1, <3>2
    <3> QED BY <1>8, <3>1, <3>2
  <2>3. ~(mode = "op" /\ e < 0) /\ x # None /\ ~(mode = "op" /\ e = -1)
    BY <1>6, <1>9, <2>1
  <2> HIDE DEF x, e
  <2> QED BY <1>2, <1>7, <1>9, <2>2, <2>3 DEF e
<1>10. CASE e \notin Nat
  <2>1. CASE e = Inapplicable
    BY <1>7, <2>1
  <2>2. CASE e = Broken /\ e # Inapplicable
    <3>1. e # -1
      BY <2>2, <1>6
    <3> QED BY <1>7, <1>10, <2>2, <3>1
  <2>3. CASE mode = "op" /\ e = -1
    <3>1. e < 0 /\ e # Broken
      BY <2>3, <1>6
    <3> QED BY <1>7, <2>3, <3>1
  <2> QED BY <1>2, <1>10, <2>1, <2>2, <2>3
<1> QED BY <1>9, <1>10

LEMMA PassesIsAdmissible ==
  ASSUME Shape, NEW S, NEW g \in Groups, Exact(S, g[1]), NEW r \in Of(results, g)
  PROVE  Passes(mode, S, g, r.data) <=> Admissible(r)
<1>1. <<r.task, r.kernel>> = g /\ \A c \in Checks : r.data.err[c] \in Errors(mode)
  BY ReportOfGroup
<1>2. \A c \in Checks \ Skipped : TensorPasses(mode, S, g, c, r.data.err[c]) <=>
           \/ r.data.err[c] = Inapplicable
           \/ r.data.err[c] \in Nat /\ WithinReach(r.data.err[c], g, c)
           \/ mode = "op" /\ r.data.err[c] = -1
  BY CheckPasses
<1>3. \A c \in Basic \ Skipped : Executed(r.data.err[c]) <=> r.data.err[c] \in Nat
  BY <1>1, ErrorKinds, DatabaseAssumption
<1> QED BY <1>1, <1>2, <1>3 DEF Passes, Admissible

\* The second program chooses among the fastest admissible reports.
LEMMA CandidatesAreFastest ==
  ASSUME Shape, NEW S, NEW g \in Groups, Exact(S, g[1])
  PROVE  Candidates(mode, S, results, g) = Fastest(g)
<1> DEFINE passing == {r \in Of(results, g) : Passes(mode, S, g, r.data)}
<1>1. \A r \in Of(results, g) : Passes(mode, S, g, r.data) <=> Admissible(r)
  BY PassesIsAdmissible
<1>2. passing = {r \in Of(results, g) : Admissible(r)}
  BY <1>1
<1>3. Candidates(mode, S, results, g) = {r \in passing : \A q \in passing : r.data.time <= q.data.time}
  BY DEF Candidates
<1> HIDE DEF passing
<1>4. Fastest(g) = {r \in Of(results, g) : Admissible(r)
                      /\ \A q \in Of(results, g) : Admissible(q) => r.data.time <= q.data.time}
  BY DEF Fastest, Measured
<1> QED BY <1>2, <1>3, <1>4

\* A task with such a report has a row of the accuracy table.
LEMMA FastestHasRow ==
  ASSUME Shape, NEW S, NEW g \in Groups, Exact(S, g[1]), Fastest(g) # {}
  PROVE  \E a \in S : a.task = g[1]
<1>1. PICK r \in Of(results, g) : Admissible(r)
  BY DEF Fastest, Measured
<1>2. g = <<g[1], g[2]>> /\ g[2] \in Kernels
  BY DEF Groups
<1> SUFFICES ASSUME NEW c \in Checks,
                    mode = "op" => SmallestError(mode, results, <<g[1], g[2]>>, c) # None
             PROVE  \E a \in S : a.task = g[1]
  <2>1. CASE mode = "op"
    <3>1. PICK c \in Basic \ Skipped : r.data.err[c] \in Nat
      BY <1>1, <2>1 DEF Admissible
    <3>2. c \in Checks
      BY DatabaseAssumption
    <3>3. SmallestError(mode, results, g, c) \in Nat
      BY <3>1, <3>2, SmallestOfReports
    <3>4. SmallestError(mode, results, g, c) # None
      BY <3>3, DatabaseAssumption
    <3> QED BY <1>2, <3>2, <3>4
  <2>2. CASE mode # "op"
    BY <2>2, DatabaseAssumption
  <2> QED BY <2>1, <2>2
<1> DEFINE a == [task |-> g[1], kernel |-> g[2], check |-> c,
                 error |-> SmallestError(mode, results, <<g[1], g[2]>>, c)]
<1>3. a \in AccuracyRows(mode, results, {g[1]})
  <2>1. Of(results, <<g[1], g[2]>>) # {}
    BY <1>1, <1>2
  <2> QED BY <1>2, <2>1, AccuracyRowOf DEF RowIs
<1>4. a \in S /\ a.task = g[1]
  BY <1>3 DEF Exact
<1> QED BY <1>4

LEMMA FastestOfGroup ==
  ASSUME NEW g, NEW r \in Fastest(g)
  PROVE  r \in results /\ <<r.task, r.kernel>> = g
  BY DEF Fastest, Measured, Of

-----------------------------------------------------------------------------
(* What stays as it was.                                                   *)

LEMMA FastestSame ==
  ASSUME mode' = mode, NEW g, Of(results', g) = Of(results, g)
  PROVE  Fastest(g)' = Fastest(g)
<1>1. Measured(g)' = Measured(g)
  BY DEF Measured
<1>2. \A e, c : WithinReach(e, g, c)' <=> WithinReach(e, g, c)
  BY <1>1 DEF WithinReach
<1>3. ASSUME NEW r \in Measured(g) PROVE Admissible(r)' <=> Admissible(r)
  <2>1. <<r.task, r.kernel>> = g
    BY DEF Measured, Of
  <2> QED BY <1>2, <2>1 DEF Admissible
<1> QED BY <1>1, <1>3 DEF Fastest

\* A task nobody touched: its reports and its status are what they were.
Untouched(t) ==
  /\ \A k : Of(results', <<t, k>>) = Of(results, <<t, k>>)
  /\ t \in cancelled' <=> t \in cancelled

LEMMA GroupUntouched ==
  ASSUME mode' = mode, NEW g \in Groups, Untouched(g[1])
  PROVE  Fastest(g)' = Fastest(g)
<1>1. g = <<g[1], g[2]>>
  BY DEF Groups
<1>2. Of(results', g) = Of(results, g)
  BY <1>1 DEF Untouched
<1> QED BY <1>2, FastestSame

LEMMA RowsUntouched ==
  ASSUME mode' = mode, NEW t, Untouched(t)
  PROVE  AccuracyRows(mode, results, {t})' = AccuracyRows(mode, results, {t})
<1>1. AccuracyRows(mode, results', {t}) = AccuracyRows(mode, results, {t})
  BY AccuracyOfSameReports DEF Untouched
<1> QED BY <1>1

LEMMA StepsKnown ==
  ASSUME Shape, NEW s \in Steps, bake.step = s
  PROVE  bake # Idle
  BY DEF Idle, Steps

\* What a worker, a reset or a cancellation can do beside a bake.
QueueStep ==
  /\ UNCHANGED <<mode, best, output, bake>>
  /\ results' \subseteq Reports[mode]
  /\ \/ accuracy' = accuracy
     \/ accuracy # None /\ \A a \in accuracy' : a \in accuracy
  /\ retry' = retry \/ (retry' \subseteq Tasks /\ (bake # Idle => retry' \subseteq moved'))
  /\ bake # Idle =>
       /\ moved \subseteq moved'
       /\ \A t : t \notin moved' =>
            /\ Untouched(t)
            /\ \A a : a.task = t => (a \in accuracy' <=> a \in accuracy)

LEMMA SaveIsQueueStep ==
  ASSUME Shape, NEW row \in Reports[mode], Save(row) PROVE QueueStep
<1>1. /\ UNCHANGED <<mode, best, output, bake, retry, accuracy, cancelled>>
      /\ results' = results \union {row} /\ Moved({row.task})
  BY DEF Save
<1>2. ASSUME bake # Idle, NEW t, t \notin moved'
      PROVE  \A k : Of(results', <<t, k>>) = Of(results, <<t, k>>)
  <2>1. t # row.task
    BY <1>1, <1>2 DEF Moved
  <2> QED BY <1>1, <2>1 DEF Of
<1> QED BY <1>1, <1>2 DEF QueueStep, Untouched, Moved, Shape

LEMMA CancelIsQueueStep ==
  ASSUME Shape, NEW t \in Tasks, Cancel(t) PROVE QueueStep
<1>1. /\ UNCHANGED <<mode, best, output, bake, retry, accuracy, results>>
      /\ cancelled' = cancelled \union {t} /\ Moved({t})
  BY DEF Cancel
<1> QED BY <1>1 DEF QueueStep, Untouched, Moved, Shape

LEMMA ResetIsQueueStep ==
  ASSUME Shape, NEW ts \in SUBSET Tasks, NEW listed \in BOOLEAN, Reset(ts, listed)
  PROVE  QueueStep
<1>1. /\ UNCHANGED <<mode, best, output, bake>>
      /\ accuracy # None
      /\ accuracy' = {a \in accuracy : a.task \notin ts}
      /\ results' = {r \in results : r.task \notin ts}
      /\ cancelled' = cancelled \ ts
      /\ retry' = IF listed THEN ts ELSE retry
      /\ Moved(ts)
  BY DEF Reset
<1>2. ASSUME bake # Idle, NEW t, t \notin moved'
      PROVE  \A k : Of(results', <<t, k>>) = Of(results, <<t, k>>)
  <2>1. t \notin ts
    BY <1>1, <1>2 DEF Moved
  <2> QED BY <1>1, <2>1 DEF Of
<1>3. bake # Idle => moved' = moved \union ts
  BY <1>1 DEF Moved
<1>4. results' \subseteq Reports[mode]
  BY <1>1 DEF Shape
<1> QED BY <1>1, <1>2, <1>3, <1>4 DEF QueueStep, Untouched

LEMMA QueueIsQueueStep ==
  ASSUME Shape, Queue PROVE QueueStep
  BY SaveIsQueueStep, CancelIsQueueStep, ResetIsQueueStep DEF Queue

-----------------------------------------------------------------------------
(* The queue keeps what a bake relies on.                                  *)

LEMMA QueueKeepsInv ==
  ASSUME DatabaseInv, QueueStep PROVE DatabaseInv'
<1>1. UNCHANGED <<mode, best, output, bake>> /\ Shape
  BY DEF QueueStep, DatabaseInv
<1>2. Shape'
  BY <1>1 DEF QueueStep, Shape
<1>3. CASE bake = Idle
  <2>1. bake'.step = "idle" /\ bake'.step \notin Steps
    BY <1>1, <1>3 DEF Idle, Steps
  <2> QED BY <1>2, <2>1
          DEF DatabaseInv, Listed, Cleared, Loaded, Streaming, Written, ExportRight, Steps
<1>4. CASE bake # Idle
  <2>1. /\ moved \subseteq moved'
        /\ \A t : t \notin moved' =>
             /\ Untouched(t)
             /\ \A a : a.task = t => (a \in accuracy' <=> a \in accuracy)
    BY <1>4 DEF QueueStep
  <2>2. \A t \in Still' : t \in Still /\ t \in bake.ids /\ Untouched(t)
    BY <1>1, <2>1 DEF Still
  <2>3. Listed'
    <3>1. Listed
      BY DEF DatabaseInv
    <3> QED BY <1>1, <1>4, <2>1, <3>1 DEF QueueStep, Listed
  <2>4. Cleared'
    <3>1. Cleared
      BY DEF DatabaseInv
    <3> QED BY <1>1, <3>1 DEF QueueStep, Cleared
  <2>5. \A g \in Groups : g[1] \in Still' => g[1] \in Still /\ Fastest(g)' = Fastest(g)
    BY <1>1, <2>2, GroupUntouched
  <2>6. \A t \in Still' : AccuracyRows(mode, results, {t})' = AccuracyRows(mode, results, {t})
    BY <1>1, <2>2, RowsUntouched
  <2>7. Loaded'
    <3> SUFFICES ASSUME bake.step = "load", NEW t \in Still' PROVE Exact(accuracy, t)'
      BY <1>1 DEF Loaded
    <3>1. Exact(accuracy, t)
      BY <2>2 DEF DatabaseInv, Loaded
    <3>2. {a \in accuracy' : a.task = t} = {a \in accuracy : a.task = t}
      BY <2>1 DEF Still
    <3> QED BY <2>6, <3>1, <3>2 DEF Exact
  <2>8. Streaming'
    <3> SUFFICES ASSUME bake.step = "stream" PROVE Streaming'
      BY <1>1 DEF Streaming
    <3>1. Streaming
      BY DEF DatabaseInv
    <3>2. \A t \in Still' : Exact(bake.thresholds, t)'
      BY <1>1, <2>2, <2>6, <3>1 DEF Streaming, Exact
    <3>3. ASSUME NEW g \in Groups, g[1] \in Still'
          PROVE  IF \E i \in bake'.work : Covers(i, g) THEN RowsOf(bake'.found, g) = {}
                                                       ELSE Chosen(bake.found, g)'
      <4>1. g[1] \in Still /\ Fastest(g)' = Fastest(g)
        BY <2>5, <3>3
      <4> QED BY <1>1, <3>1, <4>1 DEF Streaming, Chosen
    <3> QED BY <1>1, <3>1, <3>2, <3>3 DEF Streaming
  <2>9. Written'
    <3> SUFFICES ASSUME bake.step \in {"remove", "export", "exported"},
                        NEW g \in Groups, g[1] \in Still'
                 PROVE  Selected(g)'
      BY <1>1 DEF Written
    <3>1. g[1] \in Still /\ Fastest(g)' = Fastest(g)
      BY <2>5
    <3> QED BY <1>1, <3>1 DEF DatabaseInv, Written, Selected
  <2>10. ExportRight'
    <3> SUFFICES ASSUME bake.step = "exported", bake.kind = "full",
                        NEW k \in Kernels, NEW x \in {Key(t) : t \in Tasks},
                        {t \in Tasks : Key(t) = x} \cap moved' = {}
                 PROVE  LET ts == {t \in Tasks : Key(t) = x}
                            picks == UNION {Fastest(<<t, k>>)' : t \in ts \ cancelled'}
                        IN  IF picks = {} THEN <<k, x>> \notin DOMAIN output
                            ELSE <<k, x>> \in DOMAIN output /\ output[<<k, x>>] \in picks
      BY <1>1 DEF ExportRight
    <3> DEFINE ts == {t \in Tasks : Key(t) = x}
    <3>1. ts \cap moved = {} /\ \A t \in ts : Untouched(t)
      BY <2>1
    <3>2. ts \ cancelled' = ts \ cancelled
      BY <3>1 DEF Untouched
    <3>3. ASSUME NEW t \in ts PROVE Fastest(<<t, k>>)' = Fastest(<<t, k>>)
      <4>1. <<t, k>> \in Groups /\ <<t, k>>[1] = t
        BY DEF Groups
      <4> QED BY <1>1, <3>1, <4>1, GroupUntouched
    <3>4. {Fastest(<<t, k>>)' : t \in ts \ cancelled'} = {Fastest(<<t, k>>) : t \in ts \ cancelled}
      BY <3>2, <3>3
    <3> QED BY <3>1, <3>4 DEF DatabaseInv, ExportRight
  <2> QED BY <1>2, <2>3, <2>4, <2>7, <2>8, <2>9, <2>10 DEF DatabaseInv
<1> QED BY <1>3, <1>4

-----------------------------------------------------------------------------
(* The commits of a bake.                                                  *)

LEMMA ReportsStay ==
  ASSUME QueueAlone
  PROVE  /\ UNCHANGED <<mode, cancelled, results, retry>>
         /\ \A g : Fastest(g)' = Fastest(g)
         /\ \A t : AccuracyRows(mode, results, {t})' = AccuracyRows(mode, results, {t})
<1>1. UNCHANGED <<mode, cancelled, results, retry>>
  BY DEF QueueAlone
<1>2. ASSUME NEW g PROVE Fastest(g)' = Fastest(g)
  BY <1>1, FastestSame
<1>3. ASSUME NEW t PROVE AccuracyRows(mode, results, {t})' = AccuracyRows(mode, results, {t})
  BY <1>1
<1> QED BY <1>1, <1>2, <1>3

LEMMA GotoGives ==
  ASSUME Shape, bake # Idle, NEW s \in Steps, Goto(s)
  PROVE  /\ bake' # Idle /\ DOMAIN bake' = BakeFields
         /\ bake'.step = s
         /\ bake'.kind = bake.kind /\ bake'.ids = bake.ids
         /\ bake'.thresholds = bake.thresholds
         /\ bake'.work = bake.work /\ bake'.found = bake.found
<1>1. DOMAIN bake = BakeFields /\ bake' = [bake EXCEPT !.step = s]
  BY DEF Shape, Goto
<1>2. /\ DOMAIN bake' = BakeFields /\ bake'.step = s
      /\ bake'.kind = bake.kind /\ bake'.ids = bake.ids
      /\ bake'.thresholds = bake.thresholds
      /\ bake'.work = bake.work /\ bake'.found = bake.found
  BY <1>1 DEF BakeFields
<1>3. bake' # Idle
  BY <1>2 DEF Idle, Steps
<1> QED BY <1>2, <1>3

\* The fields of a bake under way, after a step to another of its steps.
LEMMA GotoShape ==
  ASSUME Shape, bake # Idle, NEW s \in Steps, Goto(s), QueueAlone, bake.step # "stream",
         s \in {"recreate", "drop", "create"} => bake.kind = "full",
         best' \subseteq Reports[mode],
         accuracy' # None => \A a \in accuracy' : a.task \in Tasks
  PROVE  Shape'
<1>1. UNCHANGED <<mode, results, retry>>
  BY DEF QueueAlone
<1> QED BY <1>1, GotoGives DEF Shape

\* Without a bake nothing is said but what things are.
LEMMA IdleInv ==
  ASSUME Shape', bake' = Idle PROVE DatabaseInv'
<1>1. bake'.step = "idle"
  BY DEF Idle
<1> QED BY <1>1 DEF DatabaseInv, Listed, Cleared, Loaded, Streaming, Written, ExportRight

LEMMA BeginKeepsInv ==
  ASSUME DatabaseInv, NEW kind \in {"full", "incremental", "fix"}, NEW ids \in SUBSET Tasks,
         Begin(kind, ids)
  PROVE  DatabaseInv'
<1> DEFINE s == IF kind = "full" THEN "recreate" ELSE "delete"
<1>1. /\ bake' = [step |-> s, kind |-> kind, ids |-> ids,
                  thresholds |-> {}, work |-> {}, found |-> {}]
      /\ kind = "full" => ids = Tasks
      /\ kind = "incremental" => ids = retry
      /\ UNCHANGED <<mode, results, retry, accuracy, best>>
  BY DEF Begin, QueueAlone
<1>2. /\ s \in Steps /\ s \notin {"insert", "load", "stream", "remove", "export", "exported"}
      /\ s \in {"recreate", "drop", "create"} => kind = "full"
  BY DEF Steps
<1> HIDE DEF s
<1>3. DOMAIN bake' = BakeFields
  BY <1>1 DEF BakeFields
<1>4. bake'.step = s /\ bake'.kind = kind /\ bake'.ids = ids /\ bake'.found = {}
  BY <1>1
<1>5. Shape'
  BY <1>1, <1>2, <1>3, <1>4 DEF Shape, DatabaseInv
<1>6. Listed'
  BY <1>1, <1>4 DEF Listed
<1> QED BY <1>2, <1>4, <1>5, <1>6
        DEF DatabaseInv, Cleared, Loaded, Streaming, Written, ExportRight

LEMMA RecreateKeepsInv ==
  ASSUME DatabaseInv, RecreateAccuracy \/ DropAccuracy PROVE DatabaseInv'
<1>1. PICK s \in {"drop", "create"} : Goto(s)
  BY DEF RecreateAccuracy, DropAccuracy
<1>2. /\ bake.step \in {"recreate", "drop"} /\ bake.step \in Steps /\ QueueAlone /\ best' = best
      /\ accuracy' = {} \/ accuracy' = None
  BY DEF RecreateAccuracy, DropAccuracy, At, Steps
<1>3. Shape /\ s \in Steps /\ bake # Idle
  BY <1>2, StepsKnown DEF DatabaseInv, Steps
<1>4. bake'.step = s
  BY <1>1, <1>3, GotoGives
<1>5. Shape'
  BY <1>1, <1>2, <1>3, GotoShape DEF Shape
<1> QED BY <1>4, <1>5
        DEF DatabaseInv, Listed, Cleared, Loaded, Streaming, Written, ExportRight

LEMMA CreateKeepsInv ==
  ASSUME DatabaseInv, CreateAccuracy PROVE DatabaseInv'
<1>1. /\ bake.step = "create" /\ Goto("load") /\ QueueAlone /\ best' = best
      /\ accuracy' = AccuracyRows(mode, results, Tasks)
      /\ moved' = moved
  BY DEF CreateAccuracy, At
<1>2. Shape /\ "load" \in Steps /\ bake # Idle
  BY <1>1, StepsKnown DEF DatabaseInv, Steps
<1>3. bake'.step = "load" /\ bake'.kind = bake.kind /\ bake'.ids = bake.ids
  BY <1>1, <1>2, GotoGives
<1>4. Shape'
  BY <1>1, <1>2, AccuracyTasks, GotoShape DEF Shape
<1>5. Loaded'
  <2> SUFFICES ASSUME NEW t \in Still' PROVE Exact(accuracy, t)'
    BY DEF Loaded
  <2>1. t \in Tasks
    BY <1>2, <1>3 DEF Still, Shape
  <2>2. {a \in accuracy' : a.task = t} = AccuracyRows(mode, results, {t})
    BY <1>1, <2>1, AccuracyOfTask
  <2> QED BY <1>1, <2>2, ReportsStay DEF Exact
<1>6. bake'.kind # "incremental"
  BY <1>1, <1>2, <1>3 DEF Shape
<1> QED BY <1>3, <1>4, <1>5, <1>6
        DEF DatabaseInv, Listed, Cleared, Streaming, Written, ExportRight

LEMMA DeleteKeepsInv ==
  ASSUME DatabaseInv, DeleteAccuracy PROVE DatabaseInv'
<1>1. /\ bake.step = "delete" /\ Goto("insert") /\ QueueAlone /\ best' = best
      /\ accuracy # None /\ accuracy' = {a \in accuracy : a.task \notin bake.ids}
      /\ moved' = moved
  BY DEF DeleteAccuracy, At
<1>2. Shape /\ Listed /\ "insert" \in Steps /\ bake # Idle
  BY <1>1, StepsKnown DEF DatabaseInv, Steps
<1>3. bake'.step = "insert" /\ bake'.kind = bake.kind /\ bake'.ids = bake.ids
  BY <1>1, <1>2, GotoGives
<1>4. \A a \in accuracy' : a.task \in Tasks \ bake.ids
  BY <1>1, <1>2 DEF Shape
<1>5. Shape'
  BY <1>1, <1>2, <1>4, GotoShape DEF Shape
<1>6. Cleared'
  BY <1>3, <1>4 DEF Cleared
<1>7. Listed'
  BY <1>1, <1>2, <1>3 DEF Listed, QueueAlone
<1> QED BY <1>3, <1>5, <1>6, <1>7
        DEF DatabaseInv, Loaded, Streaming, Written, ExportRight

LEMMA InsertKeepsInv ==
  ASSUME DatabaseInv, InsertAccuracy PROVE DatabaseInv'
<1>1. /\ bake.step = "insert" /\ Goto("load") /\ QueueAlone /\ best' = best
      /\ accuracy' = accuracy \union AccuracyRows(mode, results, bake.ids)
      /\ moved' = moved
  BY DEF InsertAccuracy, At
<1>2. Shape /\ Listed /\ "load" \in Steps /\ bake # Idle
  BY <1>1, StepsKnown DEF DatabaseInv, Steps
<1>3. bake'.step = "load" /\ bake'.kind = bake.kind /\ bake'.ids = bake.ids
  BY <1>1, <1>2, GotoGives
<1>4. \A a \in accuracy : a.task \in Tasks \ bake.ids
  BY <1>1 DEF DatabaseInv, Cleared
<1>5. \A a \in accuracy' : a.task \in Tasks
  BY <1>1, <1>2, <1>4, AccuracyTasks DEF Shape
<1>6. Shape'
  BY <1>1, <1>2, <1>5, GotoShape DEF Shape
<1>7. Listed'
  BY <1>1, <1>2, <1>3 DEF Listed, QueueAlone
<1>8. Loaded'
  <2> SUFFICES ASSUME NEW t \in Still' PROVE Exact(accuracy, t)'
    BY DEF Loaded
  <2>1. t \in bake.ids
    BY <1>3 DEF Still
  <2>2. {a \in AccuracyRows(mode, results, bake.ids) : a.task = t} = AccuracyRows(mode, results, {t})
    BY <2>1, AccuracyOfTask
  <2>3. {a \in accuracy' : a.task = t} = {a \in AccuracyRows(mode, results, bake.ids) : a.task = t}
    BY <1>1, <1>4, <2>1
  <2> QED BY <1>1, <2>2, <2>3, ReportsStay DEF Exact
<1> QED BY <1>3, <1>6, <1>7, <1>8
        DEF DatabaseInv, Cleared, Streaming, Written, ExportRight

\* The processes share the tasks with thresholds out, none of them twice.
LEMMA ItemsPartition ==
  ASSUME NEW S, \A a \in S : a.task \in Tasks, NEW kind, NEW ids, NEW g \in Groups
  PROVE  /\ \A i, j \in WorkItems(S, kind, ids) : Covers(i, g) /\ Covers(j, g) => i = j
         /\ (kind = "full" \/ g[1] \in ids) /\ (\E a \in S : a.task = g[1]) =>
              \E i \in WorkItems(S, kind, ids) : Covers(i, g)
<1> DEFINE archs == {Arch[a.task] : a \in S}
           ts(arch) == {a.task : a \in {x \in S : Arch[x.task] = arch}}
           bands(arch) == IF kind = "full" THEN Bands(ts(arch)) ELSE {ids}
           items(arch) == {[arch |-> arch, tasks |-> b] : b \in bands(arch)}
<1>1. WorkItems(S, kind, ids) = UNION {items(arch) : arch \in archs}
  BY DEF WorkItems
<1>2. ASSUME NEW arch \in archs PROVE ts(arch) \in SUBSET Tasks /\ ts(arch) # {}
  OBVIOUS
<1>3. g[1] \in Nat /\ g[1] \in Tasks
  BY DatabaseAssumption DEF Groups
<1>4. ASSUME NEW arch \in archs, NEW b \in bands(arch), NEW c \in bands(arch), g[1] \in b, g[1] \in c
      PROVE  b = c
  <2>1. CASE kind = "full"
    <3> DEFINE U == ts(arch)
    <3>1. U \in SUBSET Tasks /\ U # {} /\ b \in Bands(U) /\ c \in Bands(U)
      BY <1>2, <2>1
    <3> HIDE DEF U
    <3> QED BY <1>3, <1>4, <3>1, BandsPartition
  <2>2. CASE kind # "full"
    BY <2>2
  <2> QED BY <2>1, <2>2
<1>5. ASSUME NEW i \in WorkItems(S, kind, ids), NEW j \in WorkItems(S, kind, ids),
             Covers(i, g), Covers(j, g)
      PROVE  i = j
  <2>0. \A u \in WorkItems(S, kind, ids) :
          \E x \in archs : \E b \in bands(x) : u = [arch |-> x, tasks |-> b]
    BY <1>1
  <2> HIDE DEF archs, bands
  <2>1. PICK x \in archs : \E b \in bands(x) : i = [arch |-> x, tasks |-> b]
    BY <2>0
  <2>2. PICK b \in bands(x) : i = [arch |-> x, tasks |-> b]
    BY <2>1
  <2>3. PICK y \in archs : \E c \in bands(y) : j = [arch |-> y, tasks |-> c]
    BY <2>0
  <2>4. PICK c \in bands(y) : j = [arch |-> y, tasks |-> c]
    BY <2>3
  <2>5. x = y /\ g[1] \in b /\ g[1] \in c
    BY <1>5, <2>2, <2>4 DEF Covers
  <2> HIDE DEF bands, archs
  <2>6. b = c
    BY <1>4, <2>5
  <2> QED BY <2>2, <2>4, <2>5, <2>6
<1>6. ASSUME kind = "full" \/ g[1] \in ids, NEW a \in S, a.task = g[1]
      PROVE  \E i \in WorkItems(S, kind, ids) : Covers(i, g)
  <2> DEFINE x == Arch[g[1]]
             U == ts(x)
  <2>1. x \in archs /\ g[1] \in U
    BY <1>6
  <2>2. \E b \in bands(x) : g[1] \in b
    <3>1. CASE kind = "full"
      <4>1. U \in SUBSET Tasks /\ U # {}
        BY <1>2, <2>1
      <4>2. bands(x) = Bands(U)
        BY <3>1
      <4> HIDE DEF U, bands
      <4> QED BY <1>3, <2>1, <4>1, <4>2, BandsPartition
    <3>2. CASE kind # "full"
      BY <1>6, <3>2
    <3> QED BY <3>1, <3>2
  <2>3. PICK b \in bands(x) : g[1] \in b
    BY <2>2
  <2> DEFINE i == [arch |-> x, tasks |-> b]
  <2>4. i \in items(x)
    BY <2>3
  <2>5. i \in WorkItems(S, kind, ids)
    <3> HIDE DEF items, archs
    <3> QED BY <1>1, <2>1, <2>4
  <2>6. Covers(i, g)
    BY <2>3 DEF Covers
  <2> QED BY <2>5, <2>6
<1> QED BY <1>5, <1>6

LEMMA LoadKeepsInv ==
  ASSUME DatabaseInv, LoadThresholds PROVE DatabaseInv'
<1> DEFINE work == WorkItems(LoadedNow, bake.kind, ListedNow)
<1>1. /\ bake.step = "load" /\ accuracy # None /\ ListedNow # None
      /\ bake' = [bake EXCEPT !.step = "stream", !.ids = ListedNow,
                              !.thresholds = LoadedNow, !.work = work]
      /\ QueueAlone /\ UNCHANGED <<accuracy, best, moved>>
  BY DEF LoadThresholds, At
<1>2. Shape /\ Listed /\ Loaded /\ bake # Idle
  BY <1>1, StepsKnown DEF DatabaseInv, Steps
<1>2a. LET S == LoadedNow IN
         /\ \A a \in S : a.task \in Tasks
         /\ \A t \in ListedNow \ moved : t \in Still /\ Exact(S, t)
  <2>1. \A a \in LoadedNow : a \in accuracy
    BY DEF LoadedNow
  <2>2. ASSUME NEW t \in ListedNow \ moved PROVE t \in Still /\ Exact(LoadedNow, t)
    <3>1. t \in Still
      BY <1>1, <1>2, <2>2 DEF Still, ListedNow, Listed
    <3>2. Exact(accuracy, t)
      BY <1>1, <1>2, <3>1 DEF Loaded
    <3>3. {a \in LoadedNow : a.task = t} = {a \in accuracy : a.task = t}
      BY <2>2 DEF LoadedNow
    <3> QED BY <3>1, <3>2, <3>3 DEF Exact
  <2> QED BY <1>1, <1>2, <2>1, <2>2 DEF Shape
<1> DEFINE S == LoadedNow
           ids == ListedNow
<1>2b. ids \subseteq Tasks /\ (bake.kind = "full" => ids = Tasks)
  BY <1>1, <1>2 DEF Shape, ListedNow
<1> HIDE DEF work
<1>3. /\ DOMAIN bake' = BakeFields /\ bake'.step = "stream" /\ bake'.kind = bake.kind
      /\ bake'.ids = ids /\ bake'.thresholds = S /\ bake'.work = work
      /\ bake'.found = {}
  BY <1>1, <1>2 DEF Shape, BakeFields
<1>4. Shape'
  <2>1. UNCHANGED <<mode, results, retry>>
    BY <1>1 DEF QueueAlone
  <2>2. bake'.step \in Steps
    BY <1>3 DEF Steps
  <2> HIDE DEF S, ids
  <2> QED BY <1>1, <1>2, <1>2b, <1>3, <2>1, <2>2 DEF Shape
<1>5. Streaming'
  <2>1. \A t \in Still' : t \in ids /\ Exact(S, t)
    BY <1>1, <1>2a, <1>3 DEF Still
  <2>2. \A t \in Still' : Exact(bake.thresholds, t)'
    BY <1>1, <1>3, <2>1, ReportsStay DEF Exact
  <2>3. work = WorkItems(S, bake.kind, ids)
    BY DEF work
  <2> HIDE DEF S, ids
  <2>4. \A a \in S : a.task \in Tasks
    BY <1>2a DEF S
  <2>5. \A g \in Groups : \A i, j \in work : Covers(i, g) /\ Covers(j, g) => i = j
    BY <2>3, <2>4, ItemsPartition
  <2>6. \A g : RowsOf({}, g) = {}
    BY DEF RowsOf
  <2>7. ASSUME NEW g \in Groups, g[1] \in Still', ~ \E i \in work : Covers(i, g)
        PROVE  Fastest(g)' = {}
    <3>1. Fastest(g)' = Fastest(g)
      BY <1>1, ReportsStay
    <3>2. SUFFICES ASSUME Fastest(g) # {} PROVE FALSE
      BY <3>1
    <3>3. \E a \in S : a.task = g[1]
      BY <1>2, <2>1, <2>7, <3>2, FastestHasRow
    <3> QED BY <2>1, <2>3, <2>4, <2>7, <3>3, ItemsPartition
  <2>8. ASSUME NEW g \in Groups, g[1] \in Still'
        PROVE  IF \E i \in work : Covers(i, g) THEN RowsOf(bake'.found, g) = {}
                                               ELSE Chosen(bake.found, g)'
    <3>1. RowsOf(bake'.found, g) = {}
      BY <1>3, <2>6
    <3>2. CASE ~ \E i \in work : Covers(i, g)
      BY <2>7, <2>8, <3>1, <3>2 DEF Chosen
    <3> QED BY <3>1, <3>2
  <2> QED BY <1>3, <2>2, <2>5, <2>8 DEF Streaming
<1> QED BY <1>3, <1>4, <1>5
        DEF DatabaseInv, Listed, Cleared, Loaded, Written, ExportRight

LEMMA CandidateOfGroup ==
  ASSUME NEW S, NEW g, NEW r \in Candidates(mode, S, results, g)
  PROVE  r \in results /\ <<r.task, r.kernel>> = g
  BY DEF Candidates, Of

LEMMA StreamKeepsInv ==
  ASSUME DatabaseInv, bake.step = "stream", NEW item \in bake.work, Stream(item)
  PROVE  DatabaseInv'
<1> DEFINE mine == {g \in Groups : g[1] \in item.tasks /\ Arch[g[1]] = item.arch}
           choices(g) == Candidates(mode, bake.thresholds, results, g)
           D == {g \in mine : choices(g) # {}}
<1>1. PICK pick \in [D -> results] :
        /\ \A g \in DOMAIN pick : pick[g] \in choices(g)
        /\ bake' = [bake EXCEPT !.work = @ \ {item},
                                !.found = @ \union {pick[g] : g \in DOMAIN pick}]
  BY DEF Stream
<1>2. QueueAlone /\ UNCHANGED <<accuracy, best, moved>>
  BY DEF Stream
<1>3. Shape /\ Streaming /\ bake # Idle
  BY StepsKnown DEF DatabaseInv, Steps
<1> DEFINE found == bake.found \union {pick[g] : g \in D}
<1>4. /\ DOMAIN bake' = BakeFields /\ bake'.step = "stream" /\ bake'.kind = bake.kind
      /\ bake'.ids = bake.ids /\ bake'.thresholds = bake.thresholds
      /\ bake'.work = bake.work \ {item} /\ bake'.found = found
  BY <1>1, <1>3 DEF Shape, BakeFields
<1>5. /\ \A g \in D : pick[g] \in choices(g) /\ pick[g] \in results
      /\ \A g \in D : <<pick[g].task, pick[g].kernel>> = g
  BY <1>1, CandidateOfGroup
<1>6. \A g : g \in mine <=> g \in Groups /\ Covers(item, g)
  BY DEF Covers
<1>7. ASSUME NEW g \in Groups, g[1] \in Still PROVE choices(g) = Fastest(g)
  BY <1>3, <1>7, CandidatesAreFastest DEF Streaming
<1>8. \A g \in Groups : g \in D <=> Covers(item, g) /\ choices(g) # {}
  BY <1>6
<1> HIDE DEF D, mine, choices
<1>9. ASSUME NEW g \in Groups
      PROVE  RowsOf(found, g) = RowsOf(bake.found, g) \union (IF g \in D THEN {pick[g]} ELSE {})
  BY <1>5 DEF RowsOf
<1>10. found \subseteq Reports[mode]
  BY <1>3, <1>5 DEF Streaming, Shape
<1> HIDE DEF found
<1>11. Shape'
  <2>1. UNCHANGED <<mode, results, retry>>
    BY <1>2 DEF QueueAlone
  <2>2. bake'.step \in Steps
    BY <1>4 DEF Steps
  <2> QED BY <1>2, <1>3, <1>4, <2>1, <2>2 DEF Shape
<1>12. Streaming'
  <2>1. Still' = Still /\ mode' = mode
    BY <1>2, <1>4 DEF Still, QueueAlone
  <2>2. \A t \in Still' : Exact(bake.thresholds, t)'
    BY <1>2, <1>3, <1>4, <2>1, ReportsStay DEF Exact, Streaming
  <2>3. ASSUME NEW g \in Groups, g[1] \in Still
        PROVE  IF \E i \in bake'.work : Covers(i, g) THEN RowsOf(found, g) = {}
                                                    ELSE Chosen(found, g)
    <3>1. IF \E i \in bake.work : Covers(i, g) THEN RowsOf(bake.found, g) = {}
                                               ELSE Chosen(bake.found, g)
      BY <1>3, <2>3 DEF Streaming
    <3>2. CASE Covers(item, g)
      <4>1. ~ \E i \in bake'.work : Covers(i, g)
        BY <1>3, <1>4, <3>2 DEF Streaming
      <4>2. RowsOf(bake.found, g) = {}
        BY <3>1, <3>2
      <4>3. g \in D <=> Fastest(g) # {}
        BY <1>7, <1>8, <2>3, <3>2
      <4>4. g \in D => pick[g] \in Fastest(g)
        BY <1>5, <1>7, <2>3
      <4> QED BY <1>9, <4>1, <4>2, <4>3, <4>4 DEF Chosen
    <3>3. CASE ~Covers(item, g)
      <4>1. RowsOf(found, g) = RowsOf(bake.found, g)
        BY <1>8, <1>9, <3>3
      <4>2. (\E i \in bake'.work : Covers(i, g)) <=> \E i \in bake.work : Covers(i, g)
        BY <1>4, <3>3
      <4> QED BY <3>1, <4>1, <4>2 DEF Chosen
    <3> QED BY <3>2, <3>3
  <2>4. ASSUME NEW g \in Groups, g[1] \in Still
        PROVE  Chosen(bake.found, g)' <=> Chosen(found, g)
    <3>1. Fastest(g)' = Fastest(g)
      BY <1>2, ReportsStay
    <3> QED BY <1>4, <3>1 DEF Chosen
  <2> QED BY <1>3, <1>4, <1>10, <2>1, <2>2, <2>3, <2>4 DEF Streaming
<1> QED BY <1>4, <1>11, <1>12
        DEF DatabaseInv, Listed, Cleared, Loaded, Written, ExportRight

\* One commit puts what was found in the place of the rows of its groups.
LEMMA WriteKeepsInv ==
  ASSUME DatabaseInv, WriteResults PROVE DatabaseInv'
<1> DEFINE old == IF bake.kind = "full" THEN {}
                  ELSE {b \in best : \A f \in bake.found : <<f.task, f.kernel>> # <<b.task, b.kernel>>}
<1>1. /\ bake.step = "stream" /\ bake.work = {}
      /\ bake' = [bake EXCEPT !.step = "remove", !.thresholds = {}, !.found = {}]
      /\ best' = bake.found \union old
      /\ QueueAlone /\ UNCHANGED <<accuracy, moved>>
  BY DEF WriteResults, At
<1>2. Shape /\ Streaming /\ bake # Idle
  BY <1>1, StepsKnown DEF DatabaseInv, Steps
<1>3. /\ DOMAIN bake' = BakeFields /\ bake'.step = "remove" /\ bake'.kind = bake.kind
      /\ bake'.ids = bake.ids /\ bake'.found = {}
  BY <1>1, <1>2 DEF Shape, BakeFields
<1>4. old \subseteq best /\ (bake.kind = "full" => old = {})
      /\ \A b \in old, f \in bake.found : <<f.task, f.kernel>> # <<b.task, b.kernel>>
  OBVIOUS
<1> HIDE DEF old
<1>5. Shape'
  <2>1. UNCHANGED <<mode, results, retry>>
    BY <1>1 DEF QueueAlone
  <2>2. bake'.step \in Steps
    BY <1>3 DEF Steps
  <2>3. best' \subseteq Reports[mode]
    BY <1>1, <1>2, <1>4 DEF Shape, Streaming
  <2> QED BY <1>1, <1>2, <1>3, <2>1, <2>2, <2>3 DEF Shape
<1>6. Written'
  <2> SUFFICES ASSUME NEW g \in Groups, g[1] \in Still' PROVE Selected(g)'
    BY DEF Written
  <2>1. g[1] \in Still
    BY <1>1, <1>3 DEF Still
  <2>2. Chosen(bake.found, g)
    BY <1>1, <1>2, <2>1 DEF Streaming
  <2>3. Fastest(g)' = Fastest(g)
    BY <1>1, ReportsStay
  <2>4. RowsOf(best', g) = RowsOf(bake.found, g) \union RowsOf(old, g)
    BY <1>1 DEF RowsOf
  <2>5. RowsOf(bake.found, g) # {} => RowsOf(old, g) = {}
    BY <1>4 DEF RowsOf
  <2>6. bake.kind = "full" => RowsOf(old, g) = {}
    BY <1>4 DEF RowsOf
  <2> QED BY <1>3, <2>2, <2>3, <2>4, <2>5, <2>6 DEF Chosen, Selected
<1> QED BY <1>3, <1>5, <1>6
        DEF DatabaseInv, Listed, Cleared, Loaded, Streaming, ExportRight

LEMMA RemoveKeepsInv ==
  ASSUME DatabaseInv, RemoveOutput PROVE DatabaseInv'
<1>1. /\ bake.step = "remove" /\ Goto("export") /\ QueueAlone
      /\ UNCHANGED <<accuracy, best, moved>>
  BY DEF RemoveOutput, At
<1>2. Shape /\ Written /\ "export" \in Steps /\ bake # Idle
  BY <1>1, StepsKnown DEF DatabaseInv, Steps
<1>3. bake'.step = "export" /\ bake'.kind = bake.kind /\ bake'.ids = bake.ids
  BY <1>1, <1>2, GotoGives
<1>4. Shape'
  BY <1>1, <1>2, GotoShape DEF Shape
<1>5. Written'
  BY <1>1, <1>2, <1>3, ReportsStay DEF Written, Selected, Still
<1> QED BY <1>3, <1>4, <1>5
        DEF DatabaseInv, Listed, Cleared, Loaded, Streaming, ExportRight

\* Of tasks that are as they were, the rows a full bake left are their picks.
LEMMA LiveRowIsPick ==
  ASSUME Shape, Written, bake.step = "export", bake.kind = "full",
         NEW b \in Live(best), b.task \notin moved
  PROVE  /\ b.task \in Tasks \ cancelled /\ b.kernel \in Kernels
         /\ b \in Fastest(<<b.task, b.kernel>>)
<1> DEFINE g == <<b.task, b.kernel>>
<1>1. b \in best /\ b.task \notin cancelled
  BY DEF Live
<1>2. ReportOK(mode, b)
  BY <1>1, DatabaseAssumption DEF Shape
<1>3. g \in Groups /\ b.task \in Tasks /\ b.kernel \in Kernels
  BY <1>2 DEF ReportOK, Groups
<1>4. bake.ids = Tasks
  BY StepsKnown DEF Shape, Steps
<1>5. Selected(g)
  BY <1>3, <1>4 DEF Written, Still
<1>6. b \in RowsOf(best, g)
  BY <1>1 DEF RowsOf
<1> QED BY <1>1, <1>3, <1>5, <1>6 DEF Selected

LEMMA PickIsLive ==
  ASSUME Shape, Written, bake.step = "export", bake.kind = "full",
         NEW t \in Tasks \ (cancelled \cup moved), NEW k \in Kernels, Fastest(<<t, k>>) # {}
  PROVE  \E b \in Live(best) : b.task = t /\ b.kernel = k
<1> DEFINE g == <<t, k>>
<1>1. bake.ids = Tasks
  BY StepsKnown DEF Shape, Steps
<1>2. g \in Groups /\ g[1] = t
  BY DEF Groups
<1>3. Selected(g)
  BY <1>1, <1>2 DEF Written, Still
<1>4. PICK r \in Fastest(g) : RowsOf(best, g) = {r}
  BY <1>3 DEF Selected
<1>5. r \in best /\ <<r.task, r.kernel>> = <<t, k>>
  BY <1>4 DEF RowsOf
<1>6. r.task = t /\ r.kernel = k
  BY <1>5
<1> QED BY <1>5, <1>6 DEF Live

LEMMA ExportKeepsInv ==
  ASSUME DatabaseInv, export \/ export_op PROVE DatabaseInv'
<1>1. /\ bake.step = "export" /\ Goto("exported") /\ QueueAlone
      /\ UNCHANGED <<accuracy, best, moved>>
      /\ output' \in InsertedOrReplaced(Live(best))
  BY DEF export, export_op, At
<1>2. Shape /\ Written /\ "exported" \in Steps /\ bake # Idle
  BY <1>1, StepsKnown DEF DatabaseInv, Steps
<1>3. bake'.step = "exported" /\ bake'.kind = bake.kind /\ bake'.ids = bake.ids
  BY <1>1, <1>2, GotoGives
<1>4. Shape'
  BY <1>1, <1>2, GotoShape DEF Shape
<1>5. Written'
  BY <1>1, <1>2, <1>3, ReportsStay DEF Written, Selected, Still
<1>6. ExportRight'
  <2> SUFFICES ASSUME bake.kind = "full",
                      NEW k \in Kernels, NEW x \in {Key(t) : t \in Tasks},
                      {t \in Tasks : Key(t) = x} \cap moved = {}
               PROVE  LET ts == {t \in Tasks : Key(t) = x}
                          picks == UNION {Fastest(<<t, k>>)' : t \in ts \ cancelled'}
                      IN  IF picks = {} THEN <<k, x>> \notin DOMAIN output'
                          ELSE <<k, x>> \in DOMAIN output' /\ output'[<<k, x>>] \in picks
    BY <1>1, <1>3 DEF ExportRight
  <2> DEFINE ts == {t \in Tasks : Key(t) = x}
             picks == UNION {Fastest(<<t, k>>) : t \in ts \ cancelled}
             rows == Live(best)
             cells == {<<b.kernel, Key(b.task)>> : b \in rows}
             of(y) == {b \in rows : <<b.kernel, Key(b.task)>> = y}
  <2>1. {Fastest(<<t, k>>)' : t \in ts \ cancelled'} = {Fastest(<<t, k>>) : t \in ts \ cancelled}
    BY <1>1, ReportsStay
  <2>2. DOMAIN output' = cells /\ \A y \in cells : output'[y] \in of(y)
    BY <1>1 DEF InsertedOrReplaced
  <2>3. ASSUME NEW b \in rows, b.kernel = k, Key(b.task) = x PROVE b \in picks
    <3>1. b.task \in Tasks
      <4>1. b \in Reports[mode]
        BY <1>2 DEF Live, Shape
      <4> QED BY <4>1, <1>2, DatabaseAssumption DEF ReportOK, Shape
    <3>2. b.task \in ts /\ b.task \notin moved
      BY <2>3, <3>1
    <3>3. b.task \notin cancelled /\ b \in Fastest(<<b.task, k>>)
      BY <1>1, <1>2, <2>3, <3>2, LiveRowIsPick
    <3> QED BY <3>2, <3>3
  <2>4. <<k, x>> \in cells => output'[<<k, x>>] \in picks
    <3> SUFFICES ASSUME <<k, x>> \in cells PROVE output'[<<k, x>>] \in picks
      OBVIOUS
    <3> DEFINE b == output'[<<k, x>>]
    <3>1. b \in of(<<k, x>>)
      BY <2>2
    <3>2. b \in rows /\ b.kernel = k /\ Key(b.task) = x
      BY <3>1
    <3> QED BY <2>3, <3>2
  <2>5. picks # {} => <<k, x>> \in cells
    <3> SUFFICES ASSUME NEW t \in ts \ cancelled, Fastest(<<t, k>>) # {} PROVE <<k, x>> \in cells
      OBVIOUS
    <3>1. t \in Tasks \ (cancelled \cup moved) /\ Key(t) = x
      OBVIOUS
    <3>2. PICK b \in rows : b.task = t /\ b.kernel = k
      BY <1>1, <1>2, <3>1, PickIsLive
    <3> QED BY <3>1, <3>2
  <2> HIDE DEF picks, cells, of, rows
  <2>6. UNION {Fastest(<<t, k>>)' : t \in ts \ cancelled'} = picks
    BY <2>1 DEF picks
  <2> QED BY <2>2, <2>4, <2>5, <2>6
<1> QED BY <1>3, <1>4, <1>5, <1>6
        DEF DatabaseInv, Listed, Cleared, Loaded, Streaming

LEMMA EndKeepsInv ==
  ASSUME DatabaseInv, Done \/ Stop PROVE DatabaseInv'
<1>1. bake' = Idle /\ QueueAlone /\ UNCHANGED <<accuracy, best>>
  BY DEF Done, Stop
<1>2. Shape'
  BY <1>1 DEF Shape, DatabaseInv, QueueAlone
<1> QED BY <1>1, <1>2, IdleInv

LEMMA InitInv == Init => DatabaseInv
<1> SUFFICES ASSUME Init PROVE DatabaseInv
  OBVIOUS
<1>1. bake = Idle /\ bake.step = "idle"
  BY DEF Init, Idle
<1>2. Shape
  BY <1>1 DEF Init, Shape
<1> QED BY <1>1, <1>2 DEF DatabaseInv, Listed, Cleared, Loaded, Streaming, Written, ExportRight

LEMMA NextKeepsInv == DatabaseInv /\ [Next]_vars => DatabaseInv'
<1> SUFFICES ASSUME DatabaseInv, [Next]_vars PROVE DatabaseInv'
  OBVIOUS
<1>1. CASE Bake
  <2>1. ASSUME NEW kind \in {"full", "incremental", "fix"}, NEW ids \in SUBSET Tasks, Begin(kind, ids)
        PROVE  DatabaseInv'
    BY <2>1, BeginKeepsInv
  <2>2. ASSUME bake.step = "stream", NEW item \in bake.work, Stream(item) PROVE DatabaseInv'
    BY <2>2, StreamKeepsInv
  <2> QED BY <1>1, <2>1, <2>2, RecreateKeepsInv, CreateKeepsInv, DeleteKeepsInv, InsertKeepsInv,
             LoadKeepsInv, WriteKeepsInv, RemoveKeepsInv, ExportKeepsInv, EndKeepsInv DEF Bake
<1>2. CASE Queue
  BY <1>2, QueueIsQueueStep, QueueKeepsInv DEF DatabaseInv
<1>3. CASE UNCHANGED vars
  <2>1. /\ UNCHANGED <<mode, cancelled, results, accuracy, best, retry, output, bake, moved>>
    BY <1>3 DEF vars
  <2>2. QueueStep
    BY <2>1 DEF QueueStep, Untouched, DatabaseInv, Shape
  <2> QED BY <2>2, QueueKeepsInv
<1> QED BY <1>1, <1>2, <1>3 DEF Next

THEOREM InvariantAlways == Spec => []DatabaseInv
  BY InitInv, NextKeepsInv, PTL DEF Spec

-----------------------------------------------------------------------------
\* After the second program has committed, every task of the bake that is as it was
\* when the bake began has the fastest candidate within reach of the best error seen,
\* and after a full bake a task without such a candidate has none
\* (compute_best_results.main, worker_process_arch, populate).
THEOREM SelectionIsRight == Spec => []SelectionRight
<1>1. DatabaseInv => SelectionRight
  BY DEF DatabaseInv, Written, Selected, RowsOf, Still, SelectionRight
<1> QED BY <1>1, InvariantAlways, PTL

\* After a full bake the file holds, for every key nothing happened to, the pick of
\* one of its tasks that are not cancelled, and no row when none has a pick
\* (export, INSERT OR REPLACE).
THEOREM ExportIsRight == Spec => []ExportRight
<1>1. DatabaseInv => ExportRight
  BY DEF DatabaseInv
<1> QED BY <1>1, InvariantAlways, PTL
=============================================================================
