---------------------------- MODULE LookupTable ----------------------------
(***************************************************************************)
(* From the rows of the tuning database to the choice at run time.  The    *)
(* generator walks all functionals (an architecture and one choice for     *)
(* every parameter), asks the database for their rows and writes for each  *)
(* a lookup table over binned sequence lengths.  The generated entries     *)
(* share registries: of strings, addressed by offset, and of lookup        *)
(* functions, one per source text.  A generated function computes from the *)
(* arguments of a call the Goedel number, which is the place of the entry  *)
(* in the table of the architecture.  A kernel's table gives one of its    *)
(* compiled variants, an operator's one of its backends.                   *)
(***************************************************************************)
EXTENDS Integers, Sequences, FiniteSets, FiniteSetsExt, SequencesExt, Functions

CONSTANTS
  ParamChoices, \* per functional parameter, in order of appearance, its choices
  Partial,     \* PARTIALLY_TUNED_FUNCTIONALS: the choice to fall back to, or None
  Disabled(_, _), \* is_functional_disabled of an architecture and a tuple of choices
  Targets,     \* the architectures built, each with its name and its GPUs in order
  Reuse(_),    \* AOTRITON_TUNING_DATABASE_REUSE: the GPU whose rows a GPU uses
  Databases,   \* per kind of interface, the sets of rows the database may hold
  Calls,       \* GPU, arguments and the two sequence lengths of the calls
  FullShapes(_), \* the numbers of lengths of a full table, of an architecture
  Default,     \* the first choice of every tuned parameter, DEFAULT_COPT
  Length(_),   \* of a string
  None

\* The texts that stand for variants, in the rows and by default.
Texts ==
  Range(Default) \cup
  UNION {Range(r.pick) : r \in UNION UNION {Databases[of] : of \in DOMAIN Databases \cap {"kernel"}}}

\* A GPU has one place in one architecture; a database is finite, and a row of a kernel
\* names a variant by its two texts, a row of an operator a backend.
ASSUME LookupTableAssumption ==
  /\ Len(ParamChoices) \in Nat \ {0} /\ DOMAIN ParamChoices = 1..Len(ParamChoices)
  /\ \A c \in Range(ParamChoices) : Len(c) \in Nat \ {0} /\ DOMAIN c = 1..Len(c)
  /\ \A a \in DOMAIN Targets :
       Len(Targets[a].gpus) \in Nat \ {0} /\ DOMAIN Targets[a].gpus = 1..Len(Targets[a].gpus)
  /\ \A a, b \in DOMAIN Targets : \A i \in DOMAIN Targets[a].gpus, j \in DOMAIN Targets[b].gpus :
       Targets[a].gpus[i] = Targets[b].gpus[j] => a = b /\ i = j
  /\ DOMAIN Databases \subseteq {"kernel", "op"}
  /\ \A of \in DOMAIN Databases : \A db \in Databases[of] :
       /\ IsFiniteSet(db)
       /\ \A r \in db : /\ r.q \in Int /\ r.k \in Int
                        /\ IF of = "op" THEN r.pick \in Nat ELSE r.pick \in [1..2 -> Range(r.pick)]
  /\ Default \in [1..2 -> Range(Default)]
  /\ \A s \in Texts : Length(s) \in Nat
  /\ \A c \in Calls : c.q \in Int /\ c.k \in Int

VARIABLES
  kind,        \* "kernel" or "op"
  rows,        \* the database: gpu, choice, the lengths q and k, and the pick
  strict,      \* whether a kernel's table with holes stops the generator
  todo,        \* the functionals the generator has not come to
  strings,     \* StringRegistry: order of insertion, offsets and total size
  functions,   \* FunctionRegistry: the lookup functions, one per source
  table,       \* autotune_table, optune_table: the entry, or none (nullptr)
  phase,       \* "generate", "built" or "raised"
  answer       \* the call made last and what it gave, or None

vars == <<kind, rows, strict, todo, strings, functions, table, phase, answer>>

-----------------------------------------------------------------------------
(* Goedel numbers.                                                         *)

Params   == DOMAIN ParamChoices
nchoices == [i \in Params |-> Len(ParamChoices[i])]
Nths     == {n \in [Params -> UNION {0..(nchoices[i] - 1) : i \in Params}] :
               \A i \in Params : n[i] < nchoices[i]}

\* assign_godel_number: the last parameter has the stride 1.
Stride[i \in Params] == IF i = Len(ParamChoices) THEN 1 ELSE nchoices[i + 1] * Stride[i + 1]

\* The sum of the first elements of f, for each number of them.
Sums(n, f) == LET sum[i \in 0..n] == IF i = 0 THEN 0 ELSE sum[i - 1] + f[i] IN sum

GodelNumber(nths) == Sums(Len(ParamChoices), [i \in Params |-> nths[i] * Stride[i]])[Len(ParamChoices)]
Slots             == 0 .. (Stride[1] * nchoices[1] - 1)

\* codegen_godel_number_body: a parameter with one choice is not looked at, the last
\* match of another counts, and without a match the number is -1.
Matches(args, i) == {n \in 0..(nchoices[i] - 1) : ParamChoices[i][n + 1] = args[i]}

CallNumber(args) ==
  IF \E i \in Params : nchoices[i] > 1 /\ Matches(args, i) = {} THEN -1
  ELSE GodelNumber([i \in Params |-> IF nchoices[i] > 1 THEN Max(Matches(args, i)) ELSE 0])

\* get_archmod_number: the place of the architecture, and of the GPU in it.
ArchMod(gpu) ==
  UNION {{<<a, i>> : i \in {j \in DOMAIN Targets[a].gpus : Targets[a].gpus[j] = gpu}} : a \in DOMAIN Targets}

-----------------------------------------------------------------------------
(* The rows of a functional and its lookup table.                          *)

Functionals == (DOMAIN Targets) \X Nths
Gpus(f)     == [i \in DOMAIN Targets[f[1]].gpus |-> Reuse(Targets[f[1]].gpus[i])]
Choice(f)   == [i \in Params |-> ParamChoices[i][f[2][i] + 1]]

\* gen_functionals: the product of the choices, the last parameter fastest.
Before(f, g) == \/ f[1] < g[1]
                \/ f[1] = g[1] /\ \E i \in Params : /\ f[2][i] < g[2][i]
                                                   /\ \A j \in 1..(i - 1) : f[2][j] = g[2][j]

\* fallback_compact_dict: only parameters with several choices are compared at all.
Fallback(c) == [i \in Params |-> IF Partial[i] # None /\ nchoices[i] > 1 THEN Partial[i] ELSE c[i]]

RowsOf(f, c) == {r \in rows : /\ r.gpu \in Range(Gpus(f))
                              /\ \A i \in Params : nchoices[i] > 1 => r.choice[i] = c[i]}

\* create_view: the rows of the choice, or if there are none those of its fallback.
View(f) == IF RowsOf(f, Choice(f)) # {} THEN RowsOf(f, Choice(f)) ELSE RowsOf(f, Fallback(Choice(f)))

\* sorted, of numbers without duplicates.
Bins(lengths) == CHOOSE b \in [1..Cardinality(lengths) -> lengths] : \A i, j \in DOMAIN b : i < j => b[i] < b[j]

\* codegen_binning_lambda.
Bin(bins, x) == IF \E b \in DOMAIN bins : x <= bins[b]
                THEN Min({b \in DOMAIN bins : x <= bins[b]})
                ELSE Len(bins)

\* Fault: the text of a lookup function names the shape of its table, not the lengths.
SourceShape(n, bins) == <<n, [d \in DOMAIN bins |-> Len(bins[d])]>>

\* codegen_deduplicated_lut_function: the shape of the table and the bins.
Source(n, bins) == <<n, bins>>

\* A kernel's table holds the numbers of its signatures.
SigNum(r, sigs) == CHOOSE n \in DOMAIN sigs : sigs[n] = r.pick

\* An operator's table holds the backends themselves.
Stored(r, sigs) == IF kind = "op" THEN r.pick ELSE SigNum(r, sigs)

\* The table of a GPU starts as that of the first one, and its own rows are written over
\* it; -1 is a hole.
Cell(f, df, sigs, i, q, k) ==
  LET own(j) == {r \in df : r.gpu = Gpus(f)[j] /\ r.q = q /\ r.k = k}
      written == IF own(i) # {} THEN own(i) ELSE own(1)
  IN  IF written = {} THEN -1 ELSE Stored(CHOOSE r \in written : TRUE, sigs)

\* translate_dataframe.
Translate(f, df) ==
  LET bins == <<Bins({r.q : r \in df}), Bins({r.k : r \in df})>>
      sigs == SetToSeq({r.pick : r \in df})
  IN  [lut |-> [x \in (DOMAIN Gpus(f)) \X (DOMAIN bins[1]) \X (DOMAIN bins[2]) |->
                 Cell(f, df, sigs, x[1], bins[1][x[2]], bins[2][x[3]])],
       sigs |-> sigs, bins |-> bins]

\* translate_empty_dataframe: without bins, which stand here for one bin of all lengths.
TranslateEmpty(f) ==
  [lut |-> [x \in (DOMAIN Gpus(f)) \X {1} \X {1} |-> IF kind = "op" THEN 0 ELSE 1],
   sigs |-> <<IF kind = "op" THEN 0 ELSE Default>>, bins |-> <<<<0>>, <<0>>>>]

TableOf(f) == IF View(f) = {} THEN TranslateEmpty(f) ELSE Translate(f, View(f))

\* Fault: a table is complete when it has the right shape.
CompleteShape(f, t) == <<Len(t.bins[1]), Len(t.bins[2])>> \in FullShapes(f[1])

\* sancheck_lut_tensor: the numbers of lengths are compared, the lengths are not.
Complete(f, t) == /\ -1 \notin Range(t.lut)
                  /\ <<Len(t.bins[1]), Len(t.bins[2])>> \in FullShapes(f[1])

-----------------------------------------------------------------------------
(* The registries and the generator.                                       *)

\* StringRegistry.register.
RegisterString(reg, s) ==
  IF s \in DOMAIN reg.offset THEN reg
  ELSE [order |-> Append(reg.order, s),
        offset |-> [x \in DOMAIN reg.offset \cup {s} |-> IF x = s THEN reg.total ELSE reg.offset[x]],
        total |-> reg.total + Length(s) + 1]

\* codegen_compact_kernels: the two texts of every signature, in order.
RegisterSigs(reg, sigs) ==
  LET after[n \in 0..Len(sigs)] ==
        IF n = 0 THEN reg ELSE RegisterString(RegisterString(after[n - 1], sigs[n][1]), sigs[n][2])
  IN  after[Len(sigs)]

\* FunctionRegistry.register: the name returned ends in the place of the function.
RegisterFunction(source, bins) ==
  IF \E i \in DOMAIN functions : functions[i].source = source THEN functions
  ELSE Append(functions, [source |-> source, bins |-> bins])

Place(source, fns) == CHOOSE i \in DOMAIN fns : fns[i].source = source

Init ==
  /\ kind \in DOMAIN Databases /\ rows \in Databases[kind]
  /\ strict \in BOOLEAN /\ (kind = "op" => strict)
  /\ todo = Functionals /\ functions = <<>>
  /\ strings = [order |-> <<>>, offset |-> <<>>, total |-> 0]
  /\ table = [s \in (DOMAIN Targets) \X Slots |-> {}]
  /\ phase = "generate" /\ answer = None

Slot(f) == <<f[1], GodelNumber(f[2])>>

\* The functional whose turn it is.
Turn(f) == \A g \in todo \ {f} : Before(f, g)

\* is_functional_disabled: no entry is generated, the place in the table stays nullptr.
Skip(f) ==
  /\ kind = "kernel" /\ Disabled(f[1], Choice(f))
  /\ UNCHANGED <<strings, functions, table, phase>>

\* codegen_compact_kernels: where the two texts of every signature start.
Compact(sigs, reg) == [n \in DOMAIN sigs |-> [s \in 1..2 |-> reg.offset[sigs[n][s]]]]

\* AutotuneCodeGenerator: check the table, register the strings of the signatures and
\* the function.  The check looks only at tables made of rows.
Autotune(f) ==
  LET t == TableOf(f)
      source == Source(Len(Gpus(f)), t.bins)
  IN  /\ kind = "kernel" /\ ~Disabled(f[1], Choice(f))
      /\ IF View(f) # {} /\ ~Complete(f, t) /\ strict
         THEN phase' = "raised" /\ UNCHANGED <<strings, functions, table>>
         ELSE /\ strings' = RegisterSigs(strings, t.sigs)
              /\ functions' = RegisterFunction(source, t.bins)
              /\ table' = [table EXCEPT ![Slot(f)] =
                   {[lut |-> t.lut, function |-> Place(source, functions'),
                     meta |-> Compact(t.sigs, strings')]}]
              /\ UNCHANGED phase

\* is_trivial: a table with one value needs no function.
Trivial(t) == Cardinality(Range(t.lut)) <= 1

\* OptuneCodeGenerator.
Optune(f) ==
  LET t == TableOf(f)
      source == Source(Len(Gpus(f)), t.bins)
  IN  /\ kind = "op"
      /\ functions' = IF Trivial(t) THEN functions ELSE RegisterFunction(source, t.bins)
      /\ table' = [table EXCEPT ![Slot(f)] =
           IF Trivial(t) THEN {[backend |-> CHOOSE b \in Range(t.lut) : TRUE]}
           ELSE {[lut |-> t.lut, function |-> Place(source, functions')]}]
      /\ UNCHANGED <<strings, phase>>

Generate ==
  /\ phase = "generate"
  /\ \E f \in todo : /\ Turn(f) /\ todo' = todo \ {f}
                   /\ (Skip(f) \/ Autotune(f) \/ Optune(f))
  /\ UNCHANGED <<kind, rows, strict, answer>>

\* The shim with the whole table is written.
Write ==
  /\ phase = "generate" /\ todo = {}
  /\ phase' = "built"
  /\ UNCHANGED <<kind, rows, strict, todo, strings, functions, table, answer>>

-----------------------------------------------------------------------------
(* A call at run time.                                                     *)

Found(pick)   == [pick |-> pick]
Failure(what) == [failure |-> what]

\* The text that starts at an offset of the packed string.
StringAt(offset) ==
  LET order == strings.order
      starts == Sums(Len(order), [i \in DOMAIN order |-> Length(order[i]) + 1])
      here == {i \in DOMAIN order : starts[i - 1] = offset}
  IN  IF here = {} THEN None ELSE order[CHOOSE i \in here : TRUE]

\* The lookup function of an entry.
Lookup(entry, mod, call) ==
  LET bins == functions[entry.function].bins
  IN  entry.lut[<<mod, Bin(bins[1], call.q), Bin(bins[2], call.k)>>]

\* The entry of a kernel: the texts of the variant taken.
TakeVariant(entry, mod, call) ==
  LET n == Lookup(entry, mod, call)
  IN  IF n \notin DOMAIN entry.meta THEN Failure("SymbolNotFound")
      ELSE Found([s \in 1..2 |-> StringAt(entry.meta[n][s])])

\* The entry of an operator, and the fallback backend 0 where the table has a hole.
TakeBackend(entry, mod, call) ==
  Found(IF "backend" \in DOMAIN entry THEN entry.backend ELSE Max({0, Lookup(entry, mod, call)}))

\* lookup_optimal.
Optimal(call) ==
  LET number == CallNumber(call.args)
      am == CHOOSE x \in ArchMod(call.gpu) : TRUE
      entries == table[<<am[1], number>>]
      entry == CHOOSE e \in entries : TRUE
  IN  IF ArchMod(call.gpu) = {} THEN Failure("NoBinaryForGpu")
      ELSE IF number < 0 THEN Failure("NotSupported")
      ELSE IF entries = {} THEN Failure("ProfilerNotInitialized")
      ELSE IF kind = "op" THEN TakeBackend(entry, am[2], call)
      ELSE TakeVariant(entry, am[2], call)

Call(call) ==
  /\ phase = "built" /\ answer = None
  /\ answer' = [call |-> call, result |-> Optimal(call)]
  /\ UNCHANGED <<kind, rows, strict, todo, strings, functions, table, phase>>

Next == Generate \/ Write \/ \E call \in Calls : Call(call)

Spec == Init /\ [][Next]_vars

-----------------------------------------------------------------------------
(* Properties.                                                             *)

\* The length whose measurement serves a call: the shortest recorded one that is not
\* shorter than asked, or the longest.
Serving(lengths, x) == LET enough == {y \in lengths : y >= x}
                       IN  IF enough = {} THEN Max(lengths) ELSE Min(enough)

\* The rows of an architecture for these very arguments.
Recorded(a, args) ==
  {r \in rows : /\ \E i \in DOMAIN Targets[a].gpus : r.gpu = Reuse(Targets[a].gpus[i])
               /\ \A i \in Params : nchoices[i] = 1 \/ r.choice[i] = args[i]}

\* Where nothing was recorded for them, those for the arguments they fall back to.
Usable(a, args) == IF Recorded(a, args) # {} THEN Recorded(a, args) ELSE Recorded(a, Fallback(args))

\* The picks of the rows of a GPU that serve the lengths of a call.
Measured(call, a, gpu) ==
  LET usable == Usable(a, call.args)
  IN  {Found(r.pick) : r \in {x \in usable : /\ x.gpu = Reuse(gpu)
                                            /\ x.q = Serving({y.q : y \in usable}, call.q)
                                            /\ x.k = Serving({y.k : y \in usable}, call.k)}}

\* What a call ought to give, told from the rows alone: the pick of a row of the GPU or,
\* where it has none, of the first GPU of the architecture.
Expected(call, a) ==
  LET mine == Measured(call, a, call.gpu)
      first == Measured(call, a, Targets[a].gpus[1])
  IN  IF Usable(a, call.args) = {} THEN {Found(IF kind = "op" THEN 0 ELSE Default)}
      ELSE IF mine # {} THEN mine
      ELSE IF first # {} THEN first
      ELSE {IF kind = "op" THEN Found(0) ELSE Failure("SymbolNotFound")}

\* The choices a call stands for: its arguments, where there is a choice.
Understood(args) == [i \in Params |-> IF nchoices[i] = 1 THEN ParamChoices[i][1] ELSE args[i]]

\* The Goedel numbers, the tables, the shared functions and the shared string all agree:
\* a call gets the variant or the backend the database recorded for its arguments, its
\* GPU and the nearest recorded lengths, or the error that names what is missing.
LookupRight ==
  answer # None =>
    LET call == answer.call
        built == {a \in DOMAIN Targets : call.gpu \in Range(Targets[a].gpus)}
        supported == \A i \in Params : nchoices[i] > 1 => call.args[i] \in Range(ParamChoices[i])
    IN  CASE built = {} -> answer.result = Failure("NoBinaryForGpu")
          [] built # {} /\ ~supported -> answer.result = Failure("NotSupported")
          [] OTHER -> \A a \in built :
               IF kind = "kernel" /\ Disabled(a, Understood(call.args))
               THEN answer.result = Failure("ProfilerNotInitialized")
               ELSE answer.result \in Expected(call, a)

\* A table the strict check let pass has no hole: no call to a kernel, whatever its GPU
\* and lengths, comes to a place of the table where nothing was recorded.
ChecksSuffice == (answer # None /\ strict /\ kind = "kernel") => answer.result # Failure("SymbolNotFound")
=============================================================================
