----------------------------- MODULE BrokerQueue -----------------------------
(***************************************************************************)
(* The broker's named queues (LocalBroker.queues): deques of messages kept *)
(* in priority order by insertion, first in first out within a priority.   *)
(* A message is a record with at least a field `class'.                    *)
(***************************************************************************)
EXTENDS Integers, Sequences, FiniteSetsExt

\* _get_priority: classes the table does not name get 0, tune_backend too.
Priority(class) ==
  CASE class = "postprocess" -> 4
    [] class = "probe"       -> 3
    [] class = "tune_hsaco"  -> 2
    [] class = "preprocess"  -> 1
    [] OTHER                 -> 0

\* The positions whose message must yield to one of priority p.
LowerThan(q, p) == { i \in DOMAIN q : p > Priority(q[i].class) }

\* Where _enqueue_with_priority inserts: before the first lower priority.
InsertPosition(q, p) ==
  IF LowerThan(q, p) = {} THEN Len(q) + 1 ELSE Min(LowerThan(q, p))

\* _enqueue_with_priority for a run ms of messages of the one priority p
\* inserted one after the other (each lands right behind its predecessor).
Insert(q, ms, p) ==
  LET i == InsertPosition(q, p)
  IN  SubSeq(q, 1, i - 1) \o ms \o SubSeq(q, i, Len(q))

Enqueue(q, m) == Insert(q, <<m>>, Priority(m.class))

\* No message waits behind one of lower priority.
Sorted(q) ==
  \A i, j \in DOMAIN q : i < j => Priority(q[i].class) >= Priority(q[j].class)
=============================================================================
