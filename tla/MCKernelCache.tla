--------------------------- MODULE MCKernelCache ---------------------------
(* Bounds for KernelCache: kernels ka and kb share the one entry that is   *)
(* there, so that two kernels want one package; kc's entry is missing from *)
(* the file.  kb was not compiled.                                         *)
EXTENDS KernelCache, TLC
CONSTANTS ka, kb, kc, e1, e2, f1
MCEntryOf == (ka :> e1) @@ (kb :> e1) @@ (kc :> e2)
MCFileOf  == (e1 :> f1) @@ (e2 :> f1)
=============================================================================
