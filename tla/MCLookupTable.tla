--------------------------- MODULE MCLookupTable ---------------------------
(***************************************************************************)
(* Two architectures, the first with two GPUs of its own, the second with  *)
(* one GPU that borrows the rows of the first; a parameter with two choices *)
(* and one disabled tuple, one whose second choice falls back to the first, *)
(* and one with a single choice.                                           *)
(***************************************************************************)
EXTENDS OperatorLaunch

MCParamChoices == <<<<"16", "32">>, <<"F", "T">>, <<"1">>>>
MCPartial == <<None, "F", None>>
MCTargets == <<[name |-> "a", gpus |-> <<"a0", "a1">>], [name |-> "b", gpus |-> <<"b0">>]>>
MCReuse(gpu) == IF gpu = "b0" THEN "a0" ELSE gpu
MCDisabled(a, c) == a = 2 /\ c[1] = "32"
MCFullShapes(a) == IF a = 1 THEN {<<2, 2>>} ELSE {<<2, 2>>, <<1, 2>>}
MCLength(s) == IF s = "p16" THEN 3 ELSE 1
MCDefault == <<"p0", "c0">>

Row(gpu, c, q, k, pick) == [gpu |-> gpu, choice |-> c, q |-> q, k |-> k, pick |-> pick]

\* The pick of a place: two places share a perf section, two share the options.
Pick(of, gpu, q, k) ==
  IF of = "op" THEN (IF gpu = "a0" THEN 1 ELSE IF q <= 16 THEN 2 ELSE 1)
  ELSE <<IF q <= 16 THEN "p16" ELSE "p32", IF k = 16 /\ gpu = "a0" THEN "c0" ELSE "c1">>

Basic(of) == {Row(g, <<"16", "F", "1">>, q, k, Pick(of, g, q, k)) : g \in {"a0", "a1"}, q \in {16, 32}, k \in {16, 32}}

\* Rows of the other choices: none; one for the choice that otherwise falls back, with
\* another length; and some for the other value of the first parameter.
More(of) ==
  LET padded == {Row("a1", <<"16", "T", "1">>, 64, 16, Pick(of, "a1", 16, 32))}
      wide == {Row("a0", <<"32", "F", "1">>, q, k, Pick(of, "a0", q, k)) : q \in {8, 64}, k \in {16, 32}}
  IN  IF of = "op" THEN {{}, wide} ELSE {{}, padded, wide, padded \cup wide}

\* The rows of an operator are fewer: those of the shorter length of the keys.
MCDatabases == [of \in {"kernel", "op"} |->
  {some \cup more : some \in SUBSET {r \in Basic(of) : of = "op" => r.k = 16}, more \in More(of)}]

MCCalls == [gpu : {"a0", "a1", "b0", "c0"}, q : {9, 16, 33}, k : {16, 17},
            args : {<<"16", "F", "1">>, <<"16", "T", "1">>, <<"32", "T", "1">>, <<"64", "F", "1">>}]

\* The backends of the backward operator: split kernels, the fused one, assembler.
Always(k) == [test |-> "D", yes |-> k, no |-> k]
MCBackends == <<
  [affine |-> FALSE, kernels |-> <<[test |-> "compact", yes |-> "bwd_preprocess_varlen", no |-> "bwd_preprocess"],
                                   Always("bwd_kernel_dk_dv"), Always("bwd_kernel_dq")>>],
  [affine |-> FALSE, kernels |-> <<Always("bwd_kernel_fuse")>>],
  [affine |-> TRUE, kernels |-> <<Always("odo"), Always("dqdkdv"), Always("dq_convert")>>]>>

\* D is always given; DQ_ACC not by every caller.
MCInputs == {{"D"} \cup some : some \in {{}, {"DQ_ACC"}, {"compact"}, {"padded", "DQ_ACC"}, {"extras", "DQ_ACC"}}}
MCOptions == [force : {None, 0, 1, 2}, deterministic : BOOLEAN]
MCLazies == {"D", "DQ_ACC"}
MCUses(k) == IF k \in {"odo", "dqdkdv", "dq_convert"} THEN MCLazies ELSE IF k = "bwd_kernel_fuse" THEN {} ELSE {"D"}
=============================================================================
