-------------------------- MODULE MCTuningDatabase --------------------------
(* An instance of TuningDatabase: two tasks of one architecture, exported  *)
(* to one key: they differ in the dropout and in the kind of causal mask.  *)
(* Their ids are 1 and 3, so that the first of the two bands covers an id *)
(* without a task; two checks of a "00_" test and of another one, and the  *)
(* check that is skipped.                                                  *)
EXTENDS TuningDatabase, TLC

CONSTANTS NoValue, NotANumber, DoesNotApply

MCTasks   == {1, 3}
MCArch    == [t \in MCTasks |-> "gfx"]
MCEntry   == [t \in MCTasks |-> [seqlen |-> 16, dropout_p |-> t,
                                 causal |-> IF t = 1 THEN "causal" ELSE "window"]]
MCChecks  == {"00_out", "02_dq", "01_gqa"}
MCBasic   == {"00_out"}
MCSkipped == {"01_gqa"}

Report(t, i, time, out, dq, gqa) ==
  [task |-> t, kernel |-> "k", index |-> i,
   data |-> [time |-> time,
             err |-> ("00_out" :> out) @@ ("02_dq" :> dq) @@ ("01_gqa" :> gqa)]]

\* Fast with four times the smallest error; slow and exact; fast with a tensor that
\* is not a number; three times the smallest error where it applies.  In op mode:
\* the "00_" input refused, another input refused, no times, and nothing measured.
MCReports == [
  kernel |-> {Report(1, 0, 5, 8, 1, 1), Report(1, 1, 9, 2, 1, 9),
              Report(3, 0, 5, 1, NotANumber, 0), Report(3, 1, 7, 3, DoesNotApply, NotANumber)},
  op     |-> {Report(1, 0, 4, -1, 1, 0), Report(1, 1, 9, 2, -1, 0),
              Report(3, 0, NoValue, 1, 1, 0), Report(3, 1, 7, 6, -1, -1),
              [task |-> 3, kernel |-> "k", index |-> 2, data |-> NoValue]}]
=============================================================================
