-------------------------- MODULE MCWorkerScheduler --------------------------
(***************************************************************************)
(* Bounds for WorkerScheduler: days of eight ticks, times a minute of two  *)
(* ticks apart, a week of two weekdays and a day of weekend.  Nights and   *)
(* days, with and without the weekend, from midnight, at one instant, and  *)
(* a schedule without times.                                               *)
(***************************************************************************)
EXTENDS WorkerScheduler

Hours(start, end, weekend) == [start |-> start, end |-> end, weekend |-> weekend]

Typical == {Hours(6, 2, "true"), Hours(2, 6, "false"), Hours(0, 4, "true"),
            Hours(4, 4, "false"), Hours(None, None, "true")}
=============================================================================
