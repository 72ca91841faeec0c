--------------------------- MODULE MCServiceStop ---------------------------
(* Bounds for ServiceStop: one process of each kind, fan-outs of one and   *)
(* two implementations, one process killed among its forwards.             *)
EXTENDS ServiceStop

OneImpl  == { <<i>> : i \in Impls }
OneOrTwo == OneImpl \cup { s \in Impls \X Impls : s[1] # s[2] }
=============================================================================
