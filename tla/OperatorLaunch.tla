--------------------------- MODULE OperatorLaunch ---------------------------
(***************************************************************************)
(* A call of the attention operator: take the backend asked for or the one *)
(* the operator's table gives (LookupTable), look up all kernels of the    *)
(* backend, then launch them one after the other.  A backend that cannot   *)
(* do the inputs makes way for the fallback, backend 0.  Buffers the call  *)
(* may need are lazy tensors: acquired when a kernel takes their pointer,  *)
(* disposed when the call returns.                                         *)
(***************************************************************************)
EXTENDS LookupTable

CONSTANTS
  Backends,    \* list_backends(): affine or not, and what it launches, in order
  Inputs,      \* sets of what decides the way of a call: see Rejects and Taken
  Options,     \* attn_options: a backend to force, or None, and deterministic
  Lazies,      \* the lazy tensors of the parameters, a feature of the inputs if given
  Uses(_)      \* the lazy tensors a kernel takes a pointer of

\* The fallback is no affine backend and no kernel of it is one of theirs; D is always
\* given, and a compiled kernel asks for nothing else.
ASSUME OperatorLaunchAssumption ==
  /\ Len(Backends) \in Nat \ {0} /\ DOMAIN Backends = 1..Len(Backends)
  /\ \A b \in Range(Backends) : /\ b.affine \in BOOLEAN
                                /\ Len(b.kernels) \in Nat \ {0} /\ DOMAIN b.kernels = 1..Len(b.kernels)
  /\ ~Backends[1].affine
  /\ LET names(b) == UNION {{e.yes, e.no} : e \in Range(b.kernels)}
     IN  /\ \A b \in Range(Backends) : b.affine => names(b) \cap names(Backends[1]) = {}
         /\ \A b \in Range(Backends) : ~b.affine => \A k \in names(b) : Uses(k) \cap Lazies \subseteq {"D"}
  /\ Lazies \subseteq {"D", "DQ_ACC"} /\ \A in \in Inputs : "D" \in in
  /\ \A o \in Options : o.force = None \/ o.force \in 0..(Len(Backends) - 1)
  /\ \A of \in DOMAIN Databases \cap {"op"} : \A db \in Databases[of] : \A r \in db : r.pick < Len(Backends)
  /\ None \notin {"success", "error", "missing", "unsupported"}

VARIABLES
  pc,          \* "idle", "lookup", "launch" or "over"
  inputs, option,
  backend,     \* backend_index, from 0
  at,          \* the kernel of the backend looked up or launched next
  launched,    \* the kernels launched so far
  acquired,    \* how often each lazy tensor was acquired
  freed,       \* whether the lazy tensors given were disposed
  outcome      \* what the call gave back, or None

launchVars == <<pc, inputs, option, backend, at, launched, acquired, freed, outcome>>

-----------------------------------------------------------------------------
\* disable_fallback.
Forced == option.force # None

\* A ConditionalKernel builds both contexts; the one whose launch_condition is false
\* neither looks up nor launches.  All those of this operator have an else.
Taken(entry) == IF entry.test \in inputs THEN entry.yes ELSE entry.no
Kernels(b)   == [i \in DOMAIN Backends[b + 1].kernels |-> Taken(Backends[b + 1].kernels[i])]
Affine(b)    == Backends[b + 1].affine

\* check_inputs_are_supported, what it asks of the inputs before it looks at pointers.
Rejects == inputs \cap {"extras", "compact", "padded"} # {} \/ "DQ_ACC" \notin inputs

\* Fault: the tensor is acquired whenever it is asked for.
AcquireAgain(ls) == acquired' = [l \in Lazies |-> IF l \in ls THEN acquired[l] + 1 ELSE acquired[l]]

\* LAZY_INIT: both contexts share the parameters, so a second use finds the tensor.
Acquire(ls) == acquired' = [l \in Lazies |-> IF l \in ls /\ acquired[l] = 0 THEN 1 ELSE acquired[l]]

\* The handler's end: D and DQ_ACC are disposed, whatever launch returned.
Return(what) == pc' = "over" /\ outcome' = what /\ freed' = TRUE /\ UNCHANGED <<backend, at>>

\* An error before launch, or an exception out of it: the handler's end is not reached.
Leave(what) == pc' = "over" /\ outcome' = what /\ UNCHANGED <<backend, at, freed>>

GoTo(place, n) == pc' = place /\ at' = n /\ UNCHANGED <<backend, freed, outcome>>

\* Fault: the fallback is taken although it was disabled.
UnsupportedAlways == pc' = "lookup" /\ backend' = 0 /\ at' = 1 /\ UNCHANGED <<freed, outcome>>

\* launch: hipErrorPeerAccessUnsupported sends the call to the fallback once.
Unsupported ==
  \/ Forced /\ Return("unsupported")
  \/ ~Forced /\ pc' = "lookup" /\ backend' = 0 /\ at' = 1 /\ UNCHANGED <<freed, outcome>>

-----------------------------------------------------------------------------
Idle ==
  /\ pc = "idle" /\ inputs = {} /\ option = None /\ backend = -1 /\ at = 0 /\ launched = <<>>
  /\ acquired = [l \in Lazies |-> 0] /\ freed = FALSE /\ outcome = None

\* The choice of the backend; deterministic means the split kernels.
attn_bwd(call, in, opt) ==
  /\ kind = "op" /\ phase = "built" /\ pc = "idle"
  /\ inputs' = in /\ option' = opt
  /\ IF opt.force # None \/ opt.deterministic
     THEN /\ backend' = IF opt.force # None THEN opt.force ELSE 0
          /\ pc' = "lookup" /\ at' = 1 /\ UNCHANGED <<freed, outcome, vars>>
     ELSE /\ Call(call)
          /\ IF "failure" \in DOMAIN answer'.result
             THEN Leave(answer'.result.failure)
             ELSE /\ backend' = answer'.result.pick
                  /\ pc' = "lookup" /\ at' = 1 /\ UNCHANGED <<freed, outcome>>
  /\ UNCHANGED <<launched, acquired>>

\* metro_launcher: the launches stand after all lookups.
AfterLookup == IF at < Len(Kernels(backend)) THEN GoTo("lookup", at + 1) ELSE GoTo("launch", 1)

\* lookup_optimal of a compiled kernel: found, or one of the errors of LookupTable.
LookupKernel ==
  /\ pc = "lookup" /\ ~Affine(backend)
  /\ AfterLookup \/ Return("missing")
  /\ UNCHANGED <<inputs, option, launched, acquired, vars>>

\* lookup_optimal of a slim affine kernel.  The arguments are made before the backend
\* is asked whether it has kernels for them, so the tensors are acquired by then.
LookupAffine ==
  /\ pc = "lookup" /\ Affine(backend)
  /\ \/ Return("missing") /\ UNCHANGED acquired
     \/ Rejects /\ Unsupported /\ UNCHANGED acquired
     \/ ~Rejects /\ Acquire(Lazies) /\ (Unsupported \/ GoTo("launch", 1))
  /\ UNCHANGED <<inputs, option, launched, vars>>

AfterLaunch == IF at < Len(Kernels(backend)) THEN GoTo("launch", at + 1) ELSE Return("success")

\* launch and invoke of a compiled kernel; the first error ends the call.
LaunchKernel ==
  /\ pc = "launch" /\ ~Affine(backend)
  /\ Acquire(Uses(Kernels(backend)[at]))
  /\ \/ launched' = Append(launched, Kernels(backend)[at]) /\ AfterLaunch
     \/ Return("error") /\ UNCHANGED launched
  /\ UNCHANGED <<inputs, option, vars>>

\* hipPeekAtLastError after a kernel: an error an earlier call left pending is taken for
\* the kernel's own and given back as unsupported.
Peek == AfterLaunch \/ Unsupported

\* launch_kernel of an assembler kernel; a failing launch throws.
LaunchAffine ==
  /\ pc = "launch" /\ Affine(backend)
  /\ \/ launched' = Append(launched, Kernels(backend)[at]) /\ Peek
     \/ Leave("thrown") /\ UNCHANGED launched
  /\ UNCHANGED <<inputs, option, acquired, vars>>

LaunchInit == Init /\ Idle

LaunchNext ==
  \/ (Generate \/ Write) /\ UNCHANGED launchVars
  \/ \E call \in Calls : kind = "kernel" /\ Call(call) /\ UNCHANGED launchVars
  \/ \E call \in Calls, in \in Inputs, opt \in Options : attn_bwd(call, in, opt)
  \/ LookupKernel \/ LookupAffine \/ LaunchKernel \/ LaunchAffine

LaunchSpec == LaunchInit /\ [][LaunchNext]_<<vars, launchVars>>

-----------------------------------------------------------------------------
(* Properties.                                                             *)

\* The backend the call was to use.
Wanted == IF Forced THEN option.force ELSE IF option.deterministic THEN 0 ELSE answer.result.pick

\* A call that succeeds has launched all kernels of one backend, in their order: of the
\* one it was to use or, if that may be left, of the fallback, after at most a few of
\* an affine one.  A call that misses a kernel has launched none of that backend, and a
\* deterministic call never launches another one.
LaunchRight ==
  /\ outcome = "success" =>
       \/ launched = Kernels(Wanted)
       \/ /\ ~Forced /\ Affine(Wanted)
          /\ \E n \in 0..Len(Kernels(Wanted)) : launched = SubSeq(Kernels(Wanted), 1, n) \o Kernels(0)
  /\ outcome = "missing" => Range(launched) \cap Range(Kernels(backend)) = {}
  /\ pc # "idle" /\ (Forced \/ option.deterministic) => Range(launched) \subseteq Range(Kernels(Wanted))

\* A lazy tensor is acquired at most once in a call, through a backend and its fallback,
\* and never when the caller gave none; a call that reports how its launch ended has
\* disposed of the tensors, and not before its last kernel was launched.
BuffersOnce ==
  /\ \A l \in Lazies : acquired[l] <= (IF l \in inputs THEN 1 ELSE 0)
  /\ outcome \in {"success", "error", "missing", "unsupported"} <=> freed
  /\ \A l \in Lazies : outcome = "success" /\ (\E k \in Range(launched) : l \in Uses(k)) => acquired[l] = 1
=============================================================================
