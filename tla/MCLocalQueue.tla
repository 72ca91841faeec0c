---------------------------- MODULE MCLocalQueue ----------------------------
(***************************************************************************)
(* Bounds for LocalQueue.  Fan-outs of one and of two implementations make *)
(* a postprocess message that waits for a first and for a last result; the *)
(* empty one is an operator with a single backend.                         *)
(***************************************************************************)
EXTENDS LocalQueueProperties, TLC

OneImpl   == { <<i>> : i \in Impls }
OneOrTwo  == OneImpl \cup { s \in Impls \X Impls : s[1] # s[2] }
NoneOrOne == OneImpl \cup {<<>>}
UpToTwo   == OneOrTwo \cup {<<>>}

Symmetry == Permutations(Tasks) \cup Permutations(Readers)
            \cup Permutations(GpuWorkers) \cup Permutations(CpuWorkers)
            \cup Permutations(Impls)
=============================================================================
