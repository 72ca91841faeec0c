------------------------- MODULE LocalQueueProofs --------------------------
(***************************************************************************)
(* Proofs about LocalQueue for any number of tasks, readers, workers,      *)
(* implementations, stops, exceptions and resets.                          *)
(*                                                                         *)
(* First the queues, the types of everything, what is claimed, finished    *)
(* and acknowledged, and that the service implements the life cycle of a   *)
(* task.                                                                   *)
(*                                                                         *)
(* Then where the messages are, with crashes and exceptions but until      *)
(* stale tasks are reset: a task is in one place.  A message is under way  *)
(* at a place: a connection, a queue, a worker's hand.  Every step moves   *)
(* messages in one of two ways: some arrive (Arrival), or some take the    *)
(* place of one (Handover).  For a set M of messages that is all the       *)
(* invariants need to know: whether any of M is under way (Somewhere) and  *)
(* whether there is one at most (Unique).  StageInv says so of the         *)
(* messages that carry a task from stage to stage, LifeInv of the          *)
(* benchmarks a probe fans out, of what the held-back message waits for    *)
(* and of the task's directory.                                            *)
(*                                                                         *)
(* Then, without crashes and exceptions: a message the broker holds back   *)
(* will be released, because the process that benchmarks and the broker    *)
(* take turns.  Last, the stop of the service.                             *)
(***************************************************************************)
EXTENDS ServiceStop, SequenceTheorems, FiniteSetTheorems, WellFoundedInduction, TLAPS

-----------------------------------------------------------------------------
(* Inserting by priority keeps a queue of any messages sorted              *)

\* A set of positions has a least element: the position found is the first.
LEMMA MinIsLeast ==
  ASSUME NEW S \in SUBSET Nat, S # {}
  PROVE  Min(S) \in S /\ \A x \in S : Min(S) <= x
<1> DEFINE R == {ss \in Nat \X Nat : ss[1] < ss[2]}
<1>1. OpToRel(<, Nat) = R
  BY Zenon DEF OpToRel
<1>2. IsWellFoundedOn(R, Nat)
  BY <1>1, NatLessThanWellFounded
<1>3. PICK x \in S : \A y \in S : ~ (<<y, x>> \in R)
  <2> HIDE DEF R
  <2> QED BY <1>2, WFMin
<1>4. \A y \in S : x <= y
  <2> SUFFICES ASSUME NEW y \in S, y < x PROVE FALSE
    OBVIOUS
  <2>1. <<y, x>> \in R
    OBVIOUS
  <2> QED BY <2>1, <1>3
<1>5. QED
  BY <1>4 DEF Min

\* Priorities are numbers.
LEMMA PriorityType == ASSUME NEW c PROVE Priority(c) \in 0 .. 4
  BY DEF Priority

\* The position is one of the queue's or the one behind its last; everything
\* before it has at least the priority of the message, and the message at it,
\* if there is one, has less.
LEMMA InsertPositionSplits ==
  ASSUME NEW M, NEW q \in Seq(M), NEW p \in Int
  PROVE  /\ InsertPosition(q, p) \in 1 .. Len(q) + 1
         /\ \A i \in 1 .. InsertPosition(q, p) - 1 : Priority(q[i].class) >= p
         /\ InsertPosition(q, p) <= Len(q) =>
              p > Priority(q[InsertPosition(q, p)].class)
<1> DEFINE L == LowerThan(q, p)
<1>1. DOMAIN q = 1 .. Len(q) /\ Len(q) \in Nat
  BY LenProperties
<1>2. \A i \in 1 .. Len(q) : Priority(q[i].class) \in Int
  BY PriorityType
<1>3. L \subseteq 1 .. Len(q) /\ \A i \in 1 .. Len(q) : i \in L <=> p > Priority(q[i].class)
  BY <1>1 DEF LowerThan
<1>4. CASE L = {}
  <2>1. InsertPosition(q, p) = Len(q) + 1
    BY <1>4 DEF InsertPosition
  <2> HIDE DEF L
  <2> QED BY <2>1, <1>1, <1>2, <1>3, <1>4
<1>5. CASE L # {}
  <2>1. L \in SUBSET Nat
    BY <1>1, <1>3
  <2>2. Min(L) \in L /\ \A x \in L : Min(L) <= x
    BY <2>1, <1>5, MinIsLeast
  <2>3. InsertPosition(q, p) = Min(L)
    BY <1>5 DEF InsertPosition
  <2> DEFINE m == InsertPosition(q, p)
  <2>4. m \in L /\ \A x \in L : m <= x
    BY <2>2, <2>3
  <2> HIDE DEF L, m
  <2>5. m \in 1 .. Len(q) /\ p > Priority(q[m].class)
    BY <2>4, <1>3
  <2>6. ASSUME NEW i \in 1 .. m - 1 PROVE Priority(q[i].class) >= p
    <3>1. i \in 1 .. Len(q) /\ i < m
      BY <2>5, <1>1
    <3>2. i \notin L
      BY <3>1, <2>4, <2>5
    <3> QED BY <3>1, <3>2, <1>2, <1>3
  <2> QED BY <2>5, <2>6, <1>1 DEF m
<1> QED BY <1>4, <1>5

\* A queue of messages stays one: the new ones sit together at the position,
\* the others keep their order around them.
LEMMA InsertElements ==
  ASSUME NEW M, NEW q \in Seq(M), NEW ms \in Seq(M), NEW p \in Int,
         NEW k, k = InsertPosition(q, p)
  PROVE  /\ Insert(q, ms, p) \in Seq(M)
         /\ Len(Insert(q, ms, p)) = Len(q) + Len(ms)
         /\ \A i \in 1 .. Len(q) + Len(ms) :
              Insert(q, ms, p)[i] = IF i < k THEN q[i]
                                    ELSE IF i < k + Len(ms) THEN ms[i - k + 1]
                                    ELSE q[i - Len(ms)]
<1>1. k \in 1 .. Len(q) + 1 /\ Len(q) \in Nat /\ Len(ms) \in Nat
  BY InsertPositionSplits, LenProperties
<1> DEFINE a == SubSeq(q, 1, k - 1)
           b == SubSeq(q, k, Len(q))
<1>2. /\ a \in Seq(M) /\ Len(a) = k - 1
      /\ b \in Seq(M) /\ Len(b) = Len(q) + 1 - k
      /\ \A i \in 1 .. k - 1 : a[i] = q[i]
      /\ \A i \in 1 .. Len(q) + 1 - k : b[i] = q[k + i - 1]
  BY <1>1, SubSeqProperties, ElementOfSeq
<1>3. Insert(q, ms, p) = (a \o ms) \o b
  BY DEF Insert
<1> HIDE DEF a, b
<1>4. /\ a \o ms \in Seq(M) /\ Len(a \o ms) = k - 1 + Len(ms)
      /\ \A i \in 1 .. k - 1 + Len(ms) :
           (a \o ms)[i] = IF i < k THEN q[i] ELSE ms[i - k + 1]
  <2>1. /\ a \o ms \in Seq(M) /\ Len(a \o ms) = Len(a) + Len(ms)
        /\ \A i \in 1 .. Len(a) + Len(ms) :
             (a \o ms)[i] = IF i <= Len(a) THEN a[i] ELSE ms[i - Len(a)]
    BY <1>2, ConcatProperties
  <2>2. ASSUME NEW i \in 1 .. k - 1 + Len(ms)
        PROVE  (a \o ms)[i] = IF i < k THEN q[i] ELSE ms[i - k + 1]
    <3>1. (a \o ms)[i] = IF i <= k - 1 THEN a[i] ELSE ms[i - (k - 1)]
      BY <1>2, <2>1
    <3>2. i - (k - 1) = i - k + 1 /\ (i <= k - 1 <=> i < k)
      BY <1>1
    <3>3. i < k => a[i] = q[i]
      <4>1. i < k => i \in 1 .. k - 1
        BY <1>1
      <4> QED BY <4>1, <1>2
    <3> QED BY <3>1, <3>2, <3>3
  <2> QED BY <1>2, <2>1, <2>2
<1> DEFINE c == a \o ms
<1>5. /\ c \in Seq(M) /\ Len(c) = k - 1 + Len(ms)
      /\ \A i \in 1 .. k - 1 + Len(ms) : c[i] = IF i < k THEN q[i] ELSE ms[i - k + 1]
      /\ Insert(q, ms, p) = c \o b
  BY <1>3, <1>4
<1> HIDE DEF c
<1>6. /\ c \o b \in Seq(M) /\ Len(c \o b) = Len(c) + Len(b)
      /\ \A i \in 1 .. Len(c) + Len(b) :
           (c \o b)[i] = IF i <= Len(c) THEN c[i] ELSE b[i - Len(c)]
  <2>1. b \in Seq(M) /\ c \in Seq(M)
    BY <1>2, <1>5
  <2> QED BY ONLY <2>1, ConcatProperties
<1>7. Len(c) + Len(b) = Len(q) + Len(ms)
  <2>1. Len(c) = k - 1 + Len(ms) /\ Len(b) = Len(q) + 1 - k
    BY <1>2, <1>5
  <2>2. k \in Int /\ Len(q) \in Int /\ Len(ms) \in Int
    BY <1>1
  <2> QED BY ONLY <2>1, <2>2
<1>8. ASSUME NEW i \in 1 .. Len(q) + Len(ms)
      PROVE  (c \o b)[i] = IF i < k THEN q[i]
                           ELSE IF i < k + Len(ms) THEN ms[i - k + 1]
                           ELSE q[i - Len(ms)]
  <2>1. (c \o b)[i] = IF i <= k - 1 + Len(ms) THEN c[i] ELSE b[i - (k - 1 + Len(ms))]
    BY <1>5, <1>6, <1>7
  <2>2. CASE i < k + Len(ms)
    <3>1. i <= k - 1 + Len(ms) /\ i \in 1 .. k - 1 + Len(ms)
      BY <2>2, <1>1
    <3> QED BY <3>1, <2>1, <2>2, <1>1, <1>5
  <2>3. CASE ~ (i < k + Len(ms))
    <3> DEFINE x == i - (k - 1 + Len(ms))
    <3>1. /\ ~ (i <= k - 1 + Len(ms)) /\ ~ (i < k)
          /\ x \in 1 .. Len(q) + 1 - k /\ k + x - 1 = i - Len(ms)
      <4>1. i \in 1 .. Len(q) + Len(ms) /\ ~ (i < k + Len(ms))
        BY <2>3
      <4> QED BY ONLY <4>1, <1>1
    <3>2. (c \o b)[i] = b[x]
      BY <3>1, <2>1
    <3> HIDE DEF x
    <3> QED BY <3>1, <3>2, <2>3, <1>2
  <2> QED BY <2>2, <2>3
<1> QED BY <1>5, <1>6, <1>7, <1>8

\* _enqueue_with_priority keeps a sorted queue sorted.
THEOREM InsertKeepsSorted ==
  ASSUME NEW M, NEW q \in Seq(M), NEW ms \in Seq(M), NEW p \in Int, Sorted(q),
         \A i \in DOMAIN ms : Priority(ms[i].class) = p
  PROVE  Sorted(Insert(q, ms, p))
<1> DEFINE k == InsertPosition(q, p)
           n == Len(ms)
           s == Insert(q, ms, p)
<1>1. /\ k \in 1 .. Len(q) + 1 /\ Len(q) \in Nat /\ n \in Nat
      /\ DOMAIN q = 1 .. Len(q) /\ DOMAIN ms = 1 .. n
  BY InsertPositionSplits, LenProperties
<1>2. /\ s \in Seq(M) /\ Len(s) = Len(q) + n
      /\ \A i \in 1 .. Len(q) + n :
           s[i] = IF i < k THEN q[i] ELSE IF i < k + n THEN ms[i - k + 1] ELSE q[i - n]
  BY InsertElements
<1>3. DOMAIN s = 1 .. Len(q) + n
  BY <1>2, LenProperties
<1>4. \A i \in 1 .. Len(q) : Priority(q[i].class) \in Int
  BY PriorityType
<1>5. \A i \in 1 .. k - 1 : Priority(q[i].class) >= p
  BY InsertPositionSplits
<1>6. k <= Len(q) => p > Priority(q[k].class)
  BY InsertPositionSplits
<1>7. \A i, j \in 1 .. Len(q) : i < j => Priority(q[i].class) >= Priority(q[j].class)
  BY <1>1 DEF Sorted
<1>8. \A x \in 1 .. n : Priority(ms[x].class) = p
  BY <1>1
<1> HIDE DEF k, n, s
<1>9. \A i \in k .. Len(q) : p > Priority(q[i].class)
  BY <1>1, <1>4, <1>6, <1>7
<1>10. SUFFICES ASSUME NEW i \in 1 .. Len(q) + n, NEW j \in 1 .. Len(q) + n, i < j
               PROVE  Priority(s[i].class) >= Priority(s[j].class)
  <2>1. Sorted(s) = Sorted(Insert(q, ms, p))
    BY DEF s
  <2> QED BY <1>3, <2>1 DEF Sorted
<1>11. CASE j < k
  <2>1. i < k /\ i \in 1 .. Len(q) /\ j \in 1 .. Len(q)
    BY <1>1, <1>10, <1>11
  <2>2. s[i] = q[i] /\ s[j] = q[j]
    BY <1>2, <1>11, <2>1
  <2> QED BY <1>7, <1>10, <2>1, <2>2
<1>12. CASE k <= j /\ j < k + n
  <2>1. Priority(s[j].class) = p
    <3>1. s[j] = ms[j - k + 1] /\ j - k + 1 \in 1 .. n
      BY <1>12, <1>1, <1>2
    <3> QED BY <3>1, <1>8
  <2>2. CASE i < k
    BY <2>1, <2>2, <1>10, <1>1, <1>2, <1>5
  <2>3. CASE ~ (i < k)
    <3>1. s[i] = ms[i - k + 1] /\ i - k + 1 \in 1 .. n
      BY <2>3, <1>10, <1>12, <1>1, <1>2
    <3>2. p >= p
      OBVIOUS
    <3> QED BY <3>1, <3>2, <2>1, <1>8
  <2> QED BY <2>2, <2>3
<1>13. CASE k + n <= j
  <2>1. s[j] = q[j - n] /\ j - n \in k .. Len(q)
    BY <1>13, <1>1, <1>2
  <2>2. CASE i < k
    BY <2>1, <2>2, <1>10, <1>1, <1>2, <1>7
  <2>3. CASE k <= i /\ i < k + n
    <3>1. s[i] = ms[i - k + 1] /\ i - k + 1 \in 1 .. n
      BY <2>3, <1>10, <1>1, <1>2
    <3> QED BY <3>1, <2>1, <1>9, <1>4, <1>1, <1>8
  <2>4. CASE k + n <= i
    <3>1. s[i] = q[i - n] /\ i - n \in k .. Len(q) /\ i - n < j - n
      BY <2>4, <1>10, <1>1, <1>2
    <3> QED BY <3>1, <2>1, <1>7, <1>1
  <2> QED BY <2>2, <2>3, <2>4, <1>10, <1>1
<1> QED BY <1>11, <1>12, <1>13, <1>10, <1>1

-----------------------------------------------------------------------------
(* Types of messages                                                       *)

LEMMA MessageTypes ==
  ASSUME NEW t \in Tasks
  PROVE  /\ \A c \in Stages \ {"postprocess"} : StageMsg(c, t) \in Message
         /\ \A c \in Stages : StageMsg(c, t) \in Work
         /\ \A c \in {TuneClass, ResultClass}, i \in Impls : ImplMsg(c, t, i) \in Message
         /\ \A n \in Nat, e \in SUBSET Impls : PostMsg(t, n, e) \in Message
         /\ \A sign \in {"ack", "nak"} : AckMsg(t, sign) \in Message
<1>1. \A c \in Stages \ {"postprocess"} : StageMsg(c, t) \in Message
  BY DEF StageMsg, Message
<1>2. \A c \in Stages : StageMsg(c, t) \in Work
  BY DEF StageMsg, Work
<1>3. \A c \in {TuneClass, ResultClass}, i \in Impls : ImplMsg(c, t, i) \in Message
  BY DEF ImplMsg, ImplMessage, Message
<1>4. \A n \in Nat, e \in SUBSET Impls : PostMsg(t, n, e) \in Message
  BY DEF PostMsg, PostMessage, Message
<1>5. \A sign \in {"ack", "nak"} : AckMsg(t, sign) \in Message
  BY DEF AckMsg, AckMessage, Message
<1> QED BY <1>1, <1>2, <1>3, <1>4, <1>5

LEMMA MessageFields ==
  ASSUME NEW m \in Message
  PROVE  /\ m.task \in Tasks
         /\ m.class = "postprocess" => m \in PostMessage
         /\ m.class = ResultClass => m \in ImplMessage /\ m.impl \in Impls /\ m \in Work
         /\ m.class \notin {"postprocess", "tune_kernel_ack", ResultClass} => m \in Work
  BY DEF Message, Work, Stages, ImplMessage, PostMessage, AckMessage, TuneClass, ResultClass

LEMMA WorkFields ==
  ASSUME NEW m \in Work
  PROVE  /\ m.task \in Tasks
         /\ m.class \in {TuneClass, ResultClass} => m.impl \in Impls
  BY DEF Work, Stages, ImplMessage, TuneClass, ResultClass

LEMMA ForwardsType ==
  ASSUME NEW ms \in Seq(Message)
  PROVE  /\ Forwards(ms) \in Seq(Request)
         /\ Len(Forwards(ms)) = Len(ms)
         /\ \A i \in 1 .. Len(ms) : Forwards(ms)[i] = [type |-> "forward", message |-> ms[i]]
  BY DEF Forwards, Request

-----------------------------------------------------------------------------
(* Type correctness                                                        *)

\* The broker holds finitely many messages back.
TypeInv == TypeOK /\ IsFiniteSet(blocked)

LEMMA InitTypeInv == Init => TypeInv
<1> SUFFICES ASSUME Init PROVE TypeInv
  OBVIOUS
<1>1. IsFiniteSet(blocked)
  BY FS_EmptySet DEF Init
<1>2. TypeOK
  BY LocalQueueAssumption DEF Init, TypeOK, Terminal
<1> QED BY <1>1, <1>2 DEF TypeInv

\* A worker at work holds a message a queue may hold.
LEMMA HandlingFields ==
  ASSUME TypeInv, NEW w \in Workers, NEW c, Handling(w, c)
  PROVE  /\ Head(hand[w]) \in Work
         /\ Head(hand[w]).class = c
         /\ Head(hand[w]).task \in Tasks
  BY WorkFields DEF TypeInv, TypeOK, Handling

LEMMA ReturnType ==
  ASSUME TypeInv, NEW w \in Workers, NEW ms \in Seq(Message), Return(w, ms)
  PROVE  /\ hand' \in [Workers -> Seq(Work)]
         /\ toBroker' \in [Procs -> Seq(Request)]
         /\ running' \in SUBSET Procs
         /\ stops' \in 0 .. MaxStops
         /\ UNCHANGED <<awaiting, asked, broker, toWorker, raises, resets>>
<1>1. w \in Procs
  BY DEF Procs
<1>2. \A k \in 0 .. Len(ms) - 1 : SubSeq(ms, 1, k) \in Seq(Message)
  BY SubSeqProperties, LenProperties, ElementOfSeq
<1>3. hand' \in [Workers -> Seq(Work)]
  BY DEF Return, TypeInv, TypeOK
<1>4. CASE /\ toBroker' = [toBroker EXCEPT ![w] = @ \o Forwards(ms)]
           /\ UNCHANGED <<running, stops>>
  BY <1>1, <1>3, <1>4, ForwardsType DEF Return, TypeInv, TypeOK
<1>5. CASE /\ stops < MaxStops
           /\ \E k \in 0 .. Len(ms) - 1 :
                toBroker' = [toBroker EXCEPT ![w] = @ \o Forwards(SubSeq(ms, 1, k))]
           /\ running' = running \ {w}
           /\ stops' = stops + 1
  <2>1. PICK k \in 0 .. Len(ms) - 1 :
               toBroker' = [toBroker EXCEPT ![w] = @ \o Forwards(SubSeq(ms, 1, k))]
    BY <1>5
  <2>2. Forwards(SubSeq(ms, 1, k)) \in Seq(Request)
    BY <1>2, ForwardsType
  <2>3. toBroker' \in [Procs -> Seq(Request)]
    BY <1>1, <2>1, <2>2 DEF TypeInv, TypeOK
  <2>4. stops' \in 0 .. MaxStops
    BY <1>5, LocalQueueAssumption DEF TypeInv, TypeOK
  <2> QED BY <1>3, <1>5, <2>3, <2>4 DEF Return, TypeInv, TypeOK
<1> QED BY <1>4, <1>5 DEF Return

\* What a handler leaves alone is typed; the rest is for its own proof.
LEMMA HandlerType ==
  ASSUME TypeInv, NEW w \in Workers, NEW ms \in Seq(Message), Return(w, ms),
         status' \in [Tasks -> {"pending", "running"} \cup Terminal],
         saved' \in [Tasks -> SUBSET Impls],
         tmpdirs' \in SUBSET Tasks,
         fanouts' \in [Tasks -> Seq(SUBSET Impls)]
  PROVE  TypeInv'
  BY ReturnType DEF TypeInv, TypeOK, broker

LEMMA FanoutType ==
  ASSUME TypeInv, NEW t \in Tasks, NEW f \in Fanouts
  PROVE  /\ Fanout(t, f) \in Seq(Message)
         /\ ImplSet(f) \in SUBSET Impls
<1>1. f \in Seq(Impls)
  BY LocalQueueAssumption
<1>2. ImplSet(f) \in SUBSET Impls
  BY <1>1 DEF ImplSet
<1>3. TuneMsgs(t, f) \in Seq(Message)
  BY <1>1, MessageTypes DEF TuneMsgs
<1>4. Len(fanouts[t]) + 1 \in Nat
  BY DEF TypeInv, TypeOK
<1>5. PostMsg(t, Len(fanouts[t]) + 1, ImplSet(f)) \in Message
  BY <1>2, <1>4, MessageTypes
<1> QED BY <1>2, <1>3, <1>5 DEF Fanout

LEMMA HandleType ==
  ASSUME TypeInv, NEW w \in Workers, Handle(w)
  PROVE  TypeInv'
<1> DEFINE m == Head(hand[w])
           t == m.task
<1> USE DEF TypeInv, TypeOK, Terminal, Stages
<1>1. CASE TuneKernel(w)
  <2>1. t \in Tasks
    BY <1>1, HandlingFields DEF TuneKernel
  <2>2. <<StageMsg("preprocess", t)>> \in Seq(Message)
    BY <2>1, MessageTypes
  <2> QED BY <1>1, <2>2, HandlerType DEF TuneKernel, db
<1>2. CASE PreprocessOk(w)
  <2>1. t \in Tasks
    BY <1>2, HandlingFields DEF PreprocessOk
  <2>2. <<StageMsg("probe", t)>> \in Seq(Message)
    BY <2>1, MessageTypes
  <2> QED BY <1>2, <2>1, <2>2, HandlerType DEF PreprocessOk, db
<1>3. CASE PreprocessFails(w)
  <2>1. t \in Tasks
    BY <1>3, HandlingFields DEF PreprocessFails
  <2>2. <<StageMsg("mark_task_failed", t)>> \in Seq(Message)
    BY <2>1, MessageTypes
  <2> QED BY <1>3, <2>1, <2>2, HandlerType DEF PreprocessFails, db
<1>4. CASE ProbeOk(w)
  <2>1. t \in Tasks
    BY <1>4, HandlingFields DEF ProbeOk
  <2>2. PICK f \in Fanouts :
               /\ fanouts' = [fanouts EXCEPT ![t] = Append(@, ImplSet(f))]
               /\ Return(w, Fanout(t, f))
    BY <1>4 DEF ProbeOk
  <2>3. Fanout(t, f) \in Seq(Message) /\ ImplSet(f) \in SUBSET Impls
    BY <2>1, FanoutType
  <2>4. fanouts' \in [Tasks -> Seq(SUBSET Impls)]
    BY <2>1, <2>2, <2>3
  <2> QED BY <1>4, <2>2, <2>3, <2>4, HandlerType DEF ProbeOk, db
<1>5. CASE ProbeFails(w)
  <2>1. t \in Tasks
    BY <1>5, HandlingFields DEF ProbeFails
  <2>2. <<StageMsg("mark_task_failed", t)>> \in Seq(Message)
    BY <2>1, MessageTypes
  <2> QED BY <1>5, <2>2, HandlerType DEF ProbeFails, db
<1>6. CASE TuneImpl(w)
  <2>1. t \in Tasks /\ m.impl \in Impls
    BY <1>6, HandlingFields, WorkFields DEF TuneImpl
  <2>2. <<ImplMsg(ResultClass, t, m.impl)>> \in Seq(Message)
    BY <2>1, MessageTypes
  <2> QED BY <1>6, <2>2, HandlerType DEF TuneImpl, db
<1>7. CASE WriteResult(w)
  <2>1. t \in Tasks /\ m.impl \in Impls
    BY <1>7, HandlingFields, WorkFields DEF WriteResult
  <2>2. <<>> \in Seq(Message)
    OBVIOUS
  <2>3. saved' \in [Tasks -> SUBSET Impls]
    BY <1>7, <2>1 DEF WriteResult
  <2> QED BY <1>7, <2>2, <2>3, HandlerType DEF WriteResult
<1>8. CASE Postprocess(w)
  <2>1. t \in Tasks
    BY <1>8, HandlingFields DEF Postprocess
  <2>2. <<AckMsg(t, "ack")>> \in Seq(Message)
    BY <2>1, MessageTypes
  <2>3. status' \in [Tasks -> {"pending", "running"} \cup Terminal]
    <3>1. status' = [status EXCEPT ![t] = "completed"]
      BY <1>8 DEF Postprocess
    <3> QED BY <3>1
  <2>4. tmpdirs' \in SUBSET Tasks
    BY <1>8 DEF Postprocess, RemoveTmpdir
  <2>5. saved' = saved /\ fanouts' = fanouts
    BY <1>8 DEF Postprocess
  <2> QED BY <1>8, <2>2, <2>3, <2>4, <2>5, HandlerType DEF Postprocess
<1>9. CASE MarkTaskFailed(w)
  <2>1. t \in Tasks
    BY <1>9, HandlingFields DEF MarkTaskFailed
  <2>2. <<AckMsg(t, "nak")>> \in Seq(Message)
    BY <2>1, MessageTypes
  <2>3. status' \in [Tasks -> {"pending", "running"} \cup Terminal]
    <3>1. status' = [status EXCEPT ![t] = "failed"]
      BY <1>9 DEF MarkTaskFailed
    <3> QED BY <3>1
  <2>4. tmpdirs' \in SUBSET Tasks
    BY <1>9 DEF MarkTaskFailed, RemoveTmpdir
  <2>5. saved' = saved /\ fanouts' = fanouts
    BY <1>9 DEF MarkTaskFailed
  <2> QED BY <1>9, <2>2, <2>3, <2>4, <2>5, HandlerType DEF MarkTaskFailed
<1> QED BY <1>1, <1>2, <1>3, <1>4, <1>5, <1>6, <1>7, <1>8, <1>9 DEF Handle

LEMMA SubmissionType ==
  ASSUME NEW t \in Tasks
  PROVE  /\ Submission(t) \in Seq(Request)
         /\ \A k \in 0 .. 1 : SubSeq(Submission(t), 1, k) \in Seq(Request)
<1>1. [type |-> "register_ack", task |-> t] \in Request
  BY DEF Request
<1>2. StageMsg("tune_kernel", t) \in Message
  BY MessageTypes DEF Stages
<1>3. [type |-> "forward", message |-> StageMsg("tune_kernel", t)] \in Request
  BY <1>2 DEF Request
<1>4. Submission(t) \in Seq(Request)
  BY <1>1, <1>3 DEF Submission
<1>5. Len(Submission(t)) = 2
  BY DEF Submission
<1> QED BY <1>4, <1>5, SubSeqProperties, ElementOfSeq

LEMMA ReaderType ==
  ASSUME TypeInv, NEW r \in Readers, Fetch(r) \/ FetchFault(r) \/ ReceiveAck(r)
  PROVE  TypeInv'
<1> USE DEF TypeInv, TypeOK
<1>1. r \in Procs
  BY DEF Procs
<1>2. ASSUME NEW t \in Tasks, FetchTask(r, t) PROVE TypeInv'
  BY <1>1, <1>2, SubmissionType DEF FetchTask, Claim, worker, broker, bounds
<1>3. ASSUME NEW t \in Tasks, FetchRaises(r, t) PROVE TypeInv'
  BY <1>3, LocalQueueAssumption DEF FetchRaises, Claim, worker, broker
<1>4. ASSUME NEW t \in Tasks, DieFetching(r, t) PROVE TypeInv'
  <2>1. PICK k \in 0 .. 1 :
               toBroker' = [toBroker EXCEPT ![r] = @ \o SubSeq(Submission(t), 1, k)]
    BY <1>4 DEF DieFetching
  <2>2. toBroker' \in [Procs -> Seq(Request)]
    BY <2>1, <1>1, SubmissionType
  <2>3. status' \in [Tasks -> {"pending", "running"} \cup Terminal] /\ saved' = saved
    BY <1>4 DEF DieFetching, Claim
  <2> QED BY <1>4, <2>2, <2>3, LocalQueueAssumption DEF DieFetching, worker, broker
<1>5. CASE ReceiveAck(r)
  <2>1. toWorker' \in [Procs -> Seq(Response)]
    BY <1>1, <1>5 DEF ReceiveAck
  <2>2. awaiting' \in [Readers -> Tasks \cup {None}]
    BY <1>5 DEF ReceiveAck
  <2> QED BY <1>5, <2>1, <2>2 DEF ReceiveAck, db, worker, broker, bounds
<1> QED BY <1>2, <1>3, <1>4, <1>5 DEF Fetch, FetchFault

LEMMA ResponseMessage ==
  ASSUME NEW x \in Response, x.type = "task"
  PROVE  x.message \in Work
  BY DEF Response

LEMMA WorkerType ==
  ASSUME TypeInv, NEW w \in Workers, GetTask(w) \/ ReceiveReply(w) \/ HandlerRaises(w)
  PROVE  TypeInv'
<1> USE DEF TypeInv, TypeOK
<1>1. w \in Procs
  BY DEF Procs
<1>2. CASE GetTask(w)
  <2>1. [type |-> "get_task"] \in Request
    BY DEF Request
  <2> QED BY <1>1, <1>2, <2>1 DEF GetTask, db, broker, bounds
<1>3. CASE ReceiveReply(w)
  <2>1. Head(toWorker[w]) \in Response
    BY <1>1, <1>3 DEF ReceiveReply
  <2>2. Head(toWorker[w]).type = "task" => Head(toWorker[w]).message \in Work
    BY <2>1, ResponseMessage
  <2>3. hand' \in [Workers -> Seq(Work)]
    BY <1>3, <2>2 DEF ReceiveReply
  <2>4. toWorker' \in [Procs -> Seq(Response)]
    BY <1>1, <1>3 DEF ReceiveReply
  <2> QED BY <1>3, <2>3, <2>4 DEF ReceiveReply, db, broker, bounds
<1>4. CASE HandlerRaises(w)
  <2>1. Head(hand[w]).task \in Tasks
    BY <1>4, WorkFields DEF HandlerRaises
  <2>2. tmpdirs' \in SUBSET Tasks
    BY <1>4, <2>1 DEF HandlerRaises
  <2>3. hand' \in [Workers -> Seq(Work)]
    BY <1>4 DEF HandlerRaises
  <2>4. raises' \in 0 .. MaxRaises
    BY <1>4, LocalQueueAssumption DEF HandlerRaises
  <2> QED BY <1>4, <2>2, <2>3, <2>4 DEF HandlerRaises, db, broker
<1> QED BY <1>2, <1>3, <1>4

\* Serving a request takes it off its connection and leaves the rest alone.
LEMMA ServeType ==
  ASSUME TypeInv, NEW p \in Procs, NEW type, Serve(p, type)
  PROVE  /\ toBroker' \in [Procs -> Seq(Request)]
         /\ Head(toBroker[p]) \in Request
         /\ Head(toBroker[p]).type = type
         /\ UNCHANGED <<db, tmpdirs, awaiting, worker, running, connected, fanouts, bounds>>
  BY DEF Serve, TypeInv, TypeOK

LEMMA RequestFields ==
  ASSUME NEW x \in Request
  PROVE  /\ x.type = "forward" => x.message \in Message
         /\ x.type = "register_ack" => x.task \in Tasks
  BY DEF Request

\* Entering a result keeps blocked messages what they are, and finitely many.
LEMMA BlockedType ==
  ASSUME TypeInv, NEW m, m.impl \in Impls
  PROVE  /\ StillBlocked(m) \in SUBSET PostMessage
         /\ IsFiniteSet(StillBlocked(m))
         /\ Cardinality(Unblocked(m)) \in Nat
<1> DEFINE S == blocked \ Unblocked(m)
           f == [b \in S |-> Received(b, m)]
<1>1. IsFiniteSet(S)
  BY FS_Difference DEF TypeInv
<1>2. StillBlocked(m) = { Received(b, m) : b \in S }
  BY DEF StillBlocked
<1>3. \A b \in blocked : Received(b, m) \in PostMessage
  BY DEF TypeInv, TypeOK, PostMessage, Received
<1>4. f \in Surjection(S, StillBlocked(m))
  BY <1>2 DEF Surjection
<1>5. IsFiniteSet(StillBlocked(m))
  BY <1>1, <1>4, FS_Surjection
<1>6. IsFiniteSet(Unblocked(m))
  BY FS_Subset DEF TypeInv, Unblocked
<1> QED BY <1>2, <1>3, <1>5, <1>6, FS_CardinalityType

\* The messages a result releases, and the queues they and others enter.
LEMMA EnqueueType ==
  ASSUME NEW q \in Seq(Work), NEW m \in Work
  PROVE  Enqueue(q, m) \in Seq(Work)
<1>1. <<m>> \in Seq(Work) /\ Priority(m.class) \in Int
  BY PriorityType
<1> QED BY <1>1, InsertElements DEF Enqueue

LEMMA ReleasedType ==
  ASSUME TypeInv, NEW m, m.task \in Tasks, m.impl \in Impls
  PROVE  Released(m) \in Seq(Work)
<1>1. StageMsg("postprocess", m.task) \in Work
  BY MessageTypes DEF Stages
<1> QED BY <1>1, BlockedType DEF Released

LEMMA BrokerType ==
  ASSUME TypeInv, NEW p \in Procs, Broker(p)
  PROVE  TypeInv'
<1> USE DEF TypeInv, TypeOK
<1> DEFINE m == Forwarded(p)
<1>1. CASE p \in Workers /\ HandleGetTask(p)
  <2> DEFINE q == QueueOf(p)
  <2>1. q \in QueueName
    BY DEF QueueOf, QueueName
  <2>2. Serve(p, "get_task")
    BY <1>1 DEF HandleGetTask
  <2>3. CASE queue[q] = <<>>
    <3>1. [type |-> "no_task"] \in Response
      BY DEF Response
    <3>2. toWorker' = [toWorker EXCEPT ![p] = Append(@, [type |-> "no_task"])] /\ queue' = queue
      BY <1>1, <2>3 DEF HandleGetTask
    <3>3. toWorker' \in [Procs -> Seq(Response)]
      BY <3>1, <3>2
    <3> QED BY <1>1, <2>2, <3>2, <3>3, ServeType DEF HandleGetTask, db, worker, bounds
  <2>4. CASE queue[q] # <<>>
    <3>1. Head(queue[q]) \in Work
      BY <2>1, <2>4
    <3>2. [type |-> "task", message |-> Head(queue[q])] \in Response
      BY <3>1 DEF Response
    <3>3. /\ toWorker' = [toWorker EXCEPT ![p] =
                            Append(@, [type |-> "task", message |-> Head(queue[q])])]
          /\ queue' = [queue EXCEPT ![q] = Tail(@)]
      BY <1>1, <2>4 DEF HandleGetTask
    <3>4. queue' \in [QueueName -> Seq(Work)]
      BY <2>1, <2>4, <3>3
    <3>5. toWorker' \in [Procs -> Seq(Response)]
      BY <3>2, <3>3
    <3> QED BY <1>1, <2>2, <3>4, <3>5, ServeType DEF HandleGetTask, db, worker, bounds
  <2> QED BY <2>3, <2>4
<1>2. CASE p \in Readers /\ HandleRegisterAck(p)
  <2>1. Serve(p, "register_ack")
    BY <1>2 DEF HandleRegisterAck
  <2>2. Head(toBroker[p]).task \in Tasks
    BY <2>1, ServeType, RequestFields
  <2>3. pendingAcks' \in [Tasks -> [Readers -> Nat]]
    <3>1. pendingAcks[Head(toBroker[p]).task][p] + 1 \in Nat
      BY <1>2, <2>2
    <3>2. pendingAcks' = [pendingAcks EXCEPT ![Head(toBroker[p]).task][p] = @ + 1]
      BY <1>2 DEF HandleRegisterAck
    <3> QED BY <1>2, <2>2, <3>1, <3>2
  <2>4. named' \in SUBSET Readers
    BY <1>2 DEF HandleRegisterAck
  <2> QED BY <1>2, <2>1, <2>3, <2>4, ServeType DEF HandleRegisterAck, db, worker, bounds
<1>3. Serve(p, "forward") => m \in Message
  BY ServeType, RequestFields DEF Forwarded
<1>4. CASE ForwardBlocked(p)
  <2>1. Serve(p, "forward") /\ m \in PostMessage
    BY <1>3, <1>4, MessageFields DEF ForwardBlocked
  <2>2. blocked' = blocked \cup {m}
    BY <1>4 DEF ForwardBlocked
  <2>3. IsFiniteSet(blocked')
    BY <2>2, FS_AddElement
  <2>4. blocked' \in SUBSET PostMessage
    BY <2>1, <2>2
  <2> QED BY <1>4, <2>1, <2>3, <2>4, ServeType DEF ForwardBlocked, db, worker, bounds
<1>5. CASE ForwardResult(p)
  <2>1. Serve(p, "forward") /\ m \in Work /\ m.task \in Tasks /\ m.impl \in Impls
    BY <1>3, <1>5, MessageFields DEF ForwardResult
  <2> DEFINE cpu == Insert(queue["cpu_queue"], Released(m), Priority("postprocess"))
  <2>2. cpu \in Seq(Work)
    <3>1. Released(m) \in Seq(Work)
      BY <2>1, ReleasedType
    <3>2. queue["cpu_queue"] \in Seq(Work)
      BY DEF QueueName
    <3>3. Priority("postprocess") \in Int
      BY DEF Priority
    <3> QED BY <3>1, <3>2, <3>3, InsertElements
  <2>3. queue' = [queue EXCEPT !["cpu_queue"] = Enqueue(cpu, m)]
    BY <1>5 DEF ForwardResult
  <2> HIDE DEF cpu
  <2>4. queue' \in [QueueName -> Seq(Work)]
    BY <2>1, <2>2, <2>3, EnqueueType
  <2>5. blocked' \in SUBSET PostMessage /\ IsFiniteSet(blocked')
    BY <1>5, <2>1, BlockedType DEF ForwardResult
  <2> QED BY <1>5, <2>1, <2>4, <2>5, ServeType DEF ForwardResult, db, worker, bounds
<1>6. CASE ForwardAck(p)
  <2> DEFINE t == m.task
             acks(r) == [i \in 1 .. pendingAcks[t][r] |->
                           [type |-> "ack", task |-> t, sign |-> "ack"]]
  <2>1. Serve(p, "forward") /\ t \in Tasks
    BY <1>3, <1>6, MessageFields DEF ForwardAck
  <2>2. [type |-> "ack", task |-> t, sign |-> "ack"] \in Response
    BY <2>1 DEF Response
  <2>3. \A r \in named : acks(r) \in Seq(Response)
    <3> SUFFICES ASSUME NEW r \in named PROVE acks(r) \in Seq(Response)
      OBVIOUS
    <3>1. pendingAcks[t][r] \in Nat
      BY <2>1
    <3> DEFINE x == [type |-> "ack", task |-> t, sign |-> "ack"]
               n == pendingAcks[t][r]
    <3>2. n \in Nat /\ x \in Response
      BY <2>2, <3>1
    <3> HIDE DEF x, n
    <3>3. [i \in 1 .. n |-> x] \in Seq(Response)
      BY <3>2
    <3> QED BY <3>3 DEF x, n
  <2>4. toWorker' = [s \in Procs |-> IF s \in named THEN toWorker[s] \o acks(s) ELSE toWorker[s]]
    BY <1>6 DEF ForwardAck
  <2> HIDE DEF acks
  <2>5. toWorker' \in [Procs -> Seq(Response)]
    BY <2>3, <2>4
  <2>6. pendingAcks' \in [Tasks -> [Readers -> Nat]]
    BY <1>6, <2>1 DEF ForwardAck
  <2> QED BY <1>6, <2>1, <2>5, <2>6, ServeType DEF ForwardAck, db, worker, bounds
<1>7. CASE ForwardPlain(p)
  <2>1. Serve(p, "forward") /\ m \in Work
    BY <1>3, <1>7, MessageFields DEF ForwardPlain
  <2>2. TargetQueue(m) \in QueueName
    BY DEF TargetQueue, QueueName
  <2>3. queue' = [queue EXCEPT ![TargetQueue(m)] = Enqueue(@, m)]
    BY <1>7 DEF ForwardPlain
  <2>4. queue' \in [QueueName -> Seq(Work)]
    BY <2>1, <2>2, <2>3, EnqueueType
  <2> QED BY <1>7, <2>1, <2>4, ServeType DEF ForwardPlain, db, worker, bounds
<1>8. CASE RemoveWorker(p)
  <2>1. toWorker' \in [Procs -> Seq(Response)]
    BY <1>8 DEF RemoveWorker
  <2> QED BY <1>8, <2>1 DEF RemoveWorker, db, worker, bounds
<1> QED BY <1>1, <1>2, <1>4, <1>5, <1>6, <1>7, <1>8 DEF Broker

LEMMA EnvironmentType ==
  ASSUME TypeInv,
         \/ \E p \in Procs : Stop(p) \/ Restart(p)
         \/ \E stale \in SUBSET Tasks : ResetStale(stale)
  PROVE  TypeInv'
<1> USE DEF TypeInv, TypeOK
<1>1. ASSUME NEW p \in Procs, Stop(p) PROVE TypeInv'
  BY <1>1, LocalQueueAssumption DEF Stop, db, worker, broker
<1>2. ASSUME NEW p \in Procs, Restart(p) PROVE TypeInv'
  <2>1. CASE p \in Readers
    BY <1>2, <2>1 DEF Restart, db, worker, bounds
  <2>2. CASE p \notin Readers
    <3>1. /\ asked' = [asked EXCEPT ![p] = FALSE]
          /\ hand' = [hand EXCEPT ![p] = <<>>]
          /\ awaiting' = awaiting
      BY <1>2, <2>2 DEF Restart
    <3>2. asked' \in [Workers -> BOOLEAN]
      BY <3>1, Zenon
    <3>3. hand' \in [Workers -> Seq(Work)]
      <4>1. <<>> \in Seq(Work)
        OBVIOUS
      <4> QED BY <3>1, <4>1
    <3> QED BY <1>2, <3>1, <3>2, <3>3 DEF Restart, db, bounds
  <2> QED BY <2>1, <2>2
<1>3. ASSUME NEW stale \in SUBSET Tasks, ResetStale(stale) PROVE TypeInv'
  BY <1>3, LocalQueueAssumption DEF ResetStale, worker, broker
<1> QED BY <1>1, <1>2, <1>3

LEMMA NextType == TypeInv /\ [Next]_vars => TypeInv'
<1> SUFFICES ASSUME TypeInv, [Next]_vars PROVE TypeInv'
  OBVIOUS
<1>1. CASE \E r \in Readers : Fetch(r) \/ FetchFault(r) \/ ReceiveAck(r)
  BY <1>1, ReaderType
<1>2. CASE \E w \in Workers : GetTask(w) \/ ReceiveReply(w) \/ Handle(w) \/ HandlerRaises(w)
  BY <1>2, WorkerType, HandleType
<1>3. CASE \E p \in Procs : Broker(p)
  BY <1>3, BrokerType
<1>4. CASE \/ \E p \in Procs : Stop(p) \/ Restart(p)
           \/ \E stale \in SUBSET Tasks : ResetStale(stale)
  BY <1>4, EnvironmentType
<1>5. CASE UNCHANGED vars
  BY <1>5 DEF TypeInv, TypeOK, vars, db, worker, broker, bounds
<1> QED BY <1>1, <1>2, <1>3, <1>4, <1>5 DEF Next

\* Every message, queue and counter stays what the code takes it for: no ack
\* and no postprocess message with dependencies ever enters a queue, and
\* whatever a handler is given is a message of a class it knows.
THEOREM TypeCorrect == Spec => []TypeOK
<1>1. TypeInv => TypeOK
  BY DEF TypeInv
<1> QED BY <1>1, InitTypeInv, NextType, PTL DEF Spec

-----------------------------------------------------------------------------
(* A finished task stays finished                                          *)

\* Who writes task_queue.status, and how.
LEMMA StatusSteps ==
  ASSUME TypeInv, [Next]_vars, NEW t \in Tasks, status'[t] # status[t]
  PROVE  \/ status[t] = "pending" /\ status'[t] = "running"
         \/ status'[t] \in Terminal
         \/ status[t] = "running" /\ status'[t] = "pending" /\ resets' = resets + 1
<1> USE DEF TypeInv, TypeOK
<1>1. ASSUME NEW r \in Readers, Fetch(r) \/ FetchFault(r) \/ ReceiveAck(r)
      PROVE  status[t] = "pending" /\ status'[t] = "running"
  <2>1. ASSUME NEW u \in Tasks, Claim(u) PROVE status[t] = "pending" /\ status'[t] = "running"
    BY <2>1 DEF Claim
  <2>2. ~ ReceiveAck(r)
    BY DEF ReceiveAck, db
  <2> QED BY <1>1, <2>1, <2>2 DEF Fetch, FetchFault, FetchTask, FetchRaises, DieFetching
<1>2. ASSUME NEW w \in Workers, GetTask(w) \/ ReceiveReply(w) \/ Handle(w) \/ HandlerRaises(w)
      PROVE  status'[t] \in Terminal
  <2>1. CASE Postprocess(w)
    BY <2>1, HandlingFields DEF Postprocess, Terminal
  <2>2. CASE MarkTaskFailed(w)
    BY <2>2, HandlingFields DEF MarkTaskFailed, Terminal
  <2> QED BY <1>2, <2>1, <2>2 DEF GetTask, ReceiveReply, HandlerRaises, Handle, TuneKernel,
          PreprocessOk, PreprocessFails, ProbeOk, ProbeFails, TuneImpl, WriteResult, db
<1>3. ASSUME NEW p \in Procs PROVE ~ (Broker(p) \/ Stop(p) \/ Restart(p))
  BY DEF Broker, HandleGetTask, HandleRegisterAck, ForwardBlocked, ForwardResult, ForwardAck,
         ForwardPlain, RemoveWorker, Serve, Stop, Restart, db
<1>4. ASSUME NEW stale \in SUBSET Tasks, ResetStale(stale)
      PROVE  status[t] = "running" /\ status'[t] = "pending" /\ resets' = resets + 1
  BY <1>4 DEF ResetStale
<1>5. ~ UNCHANGED vars
  BY DEF vars, db
<1> QED BY <1>1, <1>2, <1>3, <1>4, <1>5 DEF Next

LEMMA TerminalStep ==
  TypeInv /\ [Next]_vars => \A t \in Tasks : status[t] \in Terminal => status'[t] \in Terminal
<1> SUFFICES ASSUME TypeInv, [Next]_vars, NEW t \in Tasks, status[t] \in Terminal
             PROVE  status'[t] \in Terminal
  OBVIOUS
<1> QED BY StatusSteps DEF Terminal

\* fetch_tasks and reset_stale_tasks leave finished rows alone, and the
\* handlers that write rows unconditionally write a terminal status.
THEOREM FinishedIsFinal == Spec => FinishedStaysFinished
<1>1. TypeInv /\ [Next]_vars =>
        [\A t \in Tasks : status[t] \in Terminal => status'[t] \in Terminal]_vars
  BY TerminalStep
<1> QED BY <1>1, InitTypeInv, NextType, PTL DEF Spec, FinishedStaysFinished

-----------------------------------------------------------------------------
(* Acks follow the database                                                *)

\* An element of a concatenation is one of either part.
LEMMA ConcatIndex ==
  ASSUME NEW S, NEW a \in Seq(S), NEW b \in Seq(S), NEW i \in DOMAIN (a \o b)
  PROVE  \/ i \in DOMAIN a /\ (a \o b)[i] = a[i]
         \/ \E j \in DOMAIN b : (a \o b)[i] = b[j]
<1>1. /\ a \o b \in Seq(S) /\ Len(a \o b) = Len(a) + Len(b)
      /\ \A k \in 1 .. Len(a) + Len(b) :
           (a \o b)[k] = IF k <= Len(a) THEN a[k] ELSE b[k - Len(a)]
  BY ConcatProperties
<1> DEFINE c == a \o b
<1>2. c \in Seq(S) /\ Len(c) = Len(a) + Len(b) /\ i \in DOMAIN c
      /\ \A k \in 1 .. Len(a) + Len(b) :
           c[k] = IF k <= Len(a) THEN a[k] ELSE b[k - Len(a)]
  BY <1>1
<1> HIDE DEF c
<1>3. /\ DOMAIN c = 1 .. Len(c) /\ DOMAIN a = 1 .. Len(a) /\ DOMAIN b = 1 .. Len(b)
      /\ Len(a) \in Nat /\ Len(b) \in Nat
  BY <1>2, LenProperties
<1>4. CASE i <= Len(a)
  BY <1>2, <1>3, <1>4 DEF c
<1>5. CASE ~ (i <= Len(a))
  <2>1. i - Len(a) \in DOMAIN b /\ c[i] = b[i - Len(a)]
    BY <1>2, <1>3, <1>5
  <2> QED BY <2>1 DEF c
<1> QED BY <1>4, <1>5

\* What becomes of acks when a worker returns ms.
LEMMA ReturnAcks ==
  ASSUME TypeInv, NEW w \in Workers, NEW ms \in Seq(Message), Return(w, ms),
         NEW t \in Tasks
  PROVE  /\ AckSent(t)' => \/ AckSent(t)
                           \/ \E i \in 1 .. Len(ms) : /\ ms[i].class = "tune_kernel_ack"
                                                      /\ ms[i].task = t
         /\ AckDelivered(t)' => AckDelivered(t)
<1> USE DEF TypeInv, TypeOK
<1>1. w \in Procs
  BY DEF Procs
<1>2. PICK n \in 0 .. Len(ms) :
             toBroker' = [toBroker EXCEPT ![w] = @ \o Forwards(SubSeq(ms, 1, n))]
  <2>1. CASE toBroker' = [toBroker EXCEPT ![w] = @ \o Forwards(ms)]
    <3>1. SubSeq(ms, 1, Len(ms)) = ms /\ Len(ms) \in 0 .. Len(ms)
      BY SubSeqFull, LenProperties
    <3> QED BY <2>1, <3>1
  <2>2. CASE \E k \in 0 .. Len(ms) - 1 :
               toBroker' = [toBroker EXCEPT ![w] = @ \o Forwards(SubSeq(ms, 1, k))]
    <3>1. Len(ms) \in Nat
      BY LenProperties
    <3>2. 0 .. Len(ms) - 1 \subseteq 0 .. Len(ms)
      BY <3>1
    <3> QED BY <2>2, <3>2
  <2> QED BY <2>1, <2>2 DEF Return
<1> DEFINE sent == SubSeq(ms, 1, n)
           s == toBroker[w]
<1>3. /\ sent \in Seq(Message) /\ Len(sent) = n
      /\ \A i \in 1 .. n : sent[i] = ms[i]
  BY SubSeqProperties, ElementOfSeq, LenProperties
<1> HIDE DEF sent
<1>4. /\ Forwards(sent) \in Seq(Request) /\ Len(Forwards(sent)) = n
      /\ \A i \in 1 .. n : Forwards(sent)[i] = [type |-> "forward", message |-> ms[i]]
  BY <1>3, ForwardsType
<1>5. ASSUME NEW p \in Procs, NEW i \in DOMAIN toBroker'[p],
             toBroker'[p][i].type = "forward",
             toBroker'[p][i].message.class = "tune_kernel_ack",
             toBroker'[p][i].message.task = t
      PROVE  AckSent(t) \/ \E j \in 1 .. Len(ms) : ms[j].class = "tune_kernel_ack" /\ ms[j].task = t
  <2>1. CASE p # w \/ i \in DOMAIN s
    <3>1. i \in DOMAIN toBroker[p] /\ toBroker'[p][i] = toBroker[p][i]
      BY <1>1, <1>2, <1>4, <1>5, <2>1, ConcatProperties, LenProperties DEF sent
    <3> QED BY <1>5, <3>1 DEF AckSent
  <2>2. CASE p = w /\ i \notin DOMAIN s
    <3>1. /\ i - Len(s) \in 1 .. n
          /\ toBroker'[p][i] = [type |-> "forward", message |-> ms[i - Len(s)]]
      <4>1. toBroker'[p] = s \o Forwards(sent)
        BY <1>1, <1>2, <2>2 DEF sent
      <4>2. s \in Seq(Request) /\ DOMAIN s = 1 .. Len(s) /\ Len(s) \in Nat
        BY <1>1, LenProperties
      <4>3. /\ i \in 1 .. Len(s) + n /\ i > Len(s)
            /\ toBroker'[p][i] = Forwards(sent)[i - Len(s)]
        BY <1>4, <1>5, <2>2, <4>1, <4>2, ConcatProperties, LenProperties
      <4>4. n \in Nat
        BY LenProperties
      <4>5. i - Len(s) \in 1 .. n
        BY ONLY <4>2, <4>3, <4>4
      <4>6. Forwards(sent)[i - Len(s)] = [type |-> "forward", message |-> ms[i - Len(s)]]
        BY ONLY <1>4, <4>5
      <4> QED BY ONLY <4>3, <4>5, <4>6
    <3> QED BY <1>5, <3>1
  <2> QED BY <2>1, <2>2
<1>6. AckDelivered(t)' => AckDelivered(t)
  BY DEF Return, AckDelivered
<1> QED BY <1>5, <1>6 DEF AckSent

LEMMA FanoutNoAcks ==
  ASSUME NEW t \in Tasks, NEW f \in Fanouts
  PROVE  \A i \in 1 .. Len(Fanout(t, f)) : Fanout(t, f)[i].class # "tune_kernel_ack"
<1>1. f \in Seq(Impls)
  BY LocalQueueAssumption
<1> DEFINE m == PostMsg(t, Len(fanouts[t]) + 1, ImplSet(f))
           S == {x \in {m} \cup {ImplMsg(TuneClass, t, i) : i \in Impls} : TRUE}
<1>2. \A x \in S : x.class # "tune_kernel_ack"
  BY DEF PostMsg, ImplMsg, TuneClass
<1>3. TuneMsgs(t, f) \in Seq(S)
  BY <1>1 DEF TuneMsgs
<1>4. Append(TuneMsgs(t, f), m) \in Seq(S)
  BY <1>3
<1> QED BY <1>2, <1>4, ElementOfSeq DEF Fanout

\* Handlers: an ack is forwarded only with the terminal status written.
LEMMA HandleAcks ==
  ASSUME TypeInv, AckAfterFinish, NEW w \in Workers, Handle(w)
  PROVE  AckAfterFinish'
<1> SUFFICES ASSUME NEW t \in Tasks, (AckSent(t) \/ AckDelivered(t))'
             PROVE  status'[t] \in Terminal
  BY DEF AckAfterFinish
<1> DEFINE m == Head(hand[w])
           u == m.task
<1>1. status[t] \in Terminal => status'[t] \in Terminal
  <2>1. [Next]_vars
    BY DEF Next
  <2> QED BY <2>1, TerminalStep
<1>2. SUFFICES ASSUME ~ (AckSent(t) \/ AckDelivered(t)) PROVE status'[t] \in Terminal
  BY <1>1 DEF AckAfterFinish
<1>3. ASSUME NEW ms \in Seq(Message), Return(w, ms)
      PROVE  \E i \in 1 .. Len(ms) : ms[i].class = "tune_kernel_ack" /\ ms[i].task = t
  BY <1>2, <1>3, ReturnAcks
<1>4. ASSUME NEW x \in Message, Return(w, <<x>>)
      PROVE  x.class = "tune_kernel_ack" /\ x.task = t
  <2> DEFINE ms == <<x>>
  <2>1. ms \in Seq(Message) /\ Len(ms) = 1 /\ ms[1] = x
    OBVIOUS
  <2>2. Return(w, ms)
    BY <1>4
  <2> HIDE DEF ms
  <2>3. \E i \in 1 .. Len(ms) : ms[i].class = "tune_kernel_ack" /\ ms[i].task = t
    BY <1>3, <2>1, <2>2
  <2> QED BY <2>1, <2>3
<1>5. ASSUME NEW c \in Stages \ {"postprocess"}, u \in Tasks, Return(w, <<StageMsg(c, u)>>)
      PROVE  FALSE
  BY <1>4, <1>5, MessageTypes DEF StageMsg, Stages
<1>6. CASE TuneKernel(w)
  BY <1>5, <1>6, HandlingFields DEF TuneKernel, Stages
<1>7. CASE PreprocessOk(w)
  BY <1>5, <1>7, HandlingFields DEF PreprocessOk, Stages
<1>8. CASE PreprocessFails(w)
  BY <1>5, <1>8, HandlingFields DEF PreprocessFails, Stages
<1>9. CASE ProbeOk(w)
  <2>1. u \in Tasks
    BY <1>9, HandlingFields DEF ProbeOk
  <2>2. PICK f \in Fanouts : Return(w, Fanout(u, f))
    BY <1>9 DEF ProbeOk
  <2> QED BY <1>3, <2>1, <2>2, FanoutType, FanoutNoAcks
<1>10. CASE ProbeFails(w)
  BY <1>5, <1>10, HandlingFields DEF ProbeFails, Stages
<1>11. CASE TuneImpl(w)
  <2>1. u \in Tasks /\ m.impl \in Impls
    BY <1>11, HandlingFields, WorkFields DEF TuneImpl
  <2>2. ImplMsg(ResultClass, u, m.impl) \in Message
    BY <2>1, MessageTypes
  <2> QED BY <1>4, <1>11, <2>2 DEF TuneImpl, ImplMsg, ResultClass
<1>12. CASE WriteResult(w)
  <2> DEFINE ms == <<>>
  <2>1. ms \in Seq(Message) /\ Len(ms) = 0
    OBVIOUS
  <2>2. Return(w, ms)
    BY <1>12 DEF WriteResult
  <2> HIDE DEF ms
  <2>3. \E i \in 1 .. Len(ms) : ms[i].class = "tune_kernel_ack" /\ ms[i].task = t
    BY <1>3, <2>1, <2>2
  <2> QED BY <2>1, <2>3
<1>13. CASE Postprocess(w)
  <2>1. u \in Tasks
    BY <1>13, HandlingFields DEF Postprocess
  <2>2. u = t
    BY <1>4, <1>13, <2>1, MessageTypes DEF Postprocess, AckMsg
  <2> QED BY <1>13, <2>1, <2>2 DEF Postprocess, Terminal, TypeInv, TypeOK
<1>14. CASE MarkTaskFailed(w)
  <2>1. u \in Tasks
    BY <1>14, HandlingFields DEF MarkTaskFailed
  <2>2. u = t
    BY <1>4, <1>14, <2>1, MessageTypes DEF MarkTaskFailed, AckMsg
  <2> QED BY <1>14, <2>1, <2>2 DEF MarkTaskFailed, Terminal, TypeInv, TypeOK
<1> QED BY <1>6, <1>7, <1>8, <1>9, <1>10, <1>11, <1>12, <1>13, <1>14 DEF Handle

LEMMA BrokerAcks ==
  ASSUME TypeInv, AckAfterFinish, NEW p \in Procs, Broker(p)
  PROVE  AckAfterFinish'
<1> USE DEF TypeInv, TypeOK
<1> SUFFICES ASSUME NEW t \in Tasks, (AckSent(t) \/ AckDelivered(t))'
             PROVE  AckSent(t) \/ AckDelivered(t)
  <2>1. status' = status
    BY DEF Broker, HandleGetTask, HandleRegisterAck, ForwardBlocked, ForwardResult, ForwardAck,
           ForwardPlain, RemoveWorker, Serve, db
  <2> QED BY <2>1 DEF AckAfterFinish
<1>1. ASSUME NEW type, Serve(p, type), AckSent(t)' PROVE AckSent(t)
  <2>1. toBroker[p] \in Seq(Request) /\ toBroker[p] # <<>> /\ toBroker' = [toBroker EXCEPT ![p] = Tail(@)]
    BY <1>1 DEF Serve
  <2>0. PICK s \in Procs : \E i \in DOMAIN toBroker'[s] :
               /\ toBroker'[s][i].type = "forward"
               /\ toBroker'[s][i].message.class = "tune_kernel_ack"
               /\ toBroker'[s][i].message.task = t
    BY <1>1 DEF AckSent
  <2>2. PICK i \in DOMAIN toBroker'[s] :
               /\ toBroker'[s][i].type = "forward"
               /\ toBroker'[s][i].message.class = "tune_kernel_ack"
               /\ toBroker'[s][i].message.task = t
    BY <2>0
  <2>3. CASE s = p
    <3>1. i + 1 \in DOMAIN toBroker[p] /\ toBroker'[p][i] = toBroker[p][i + 1]
      BY <2>1, <2>2, <2>3, HeadTailProperties, LenProperties
    <3> QED BY <2>2, <2>3, <3>1 DEF AckSent
  <2>4. CASE s # p
    BY <2>1, <2>2, <2>4 DEF AckSent
  <2> QED BY <2>3, <2>4
\* A response that is not an ack of t, appended for one process.
<1>2. ASSUME NEW x \in Response, x.type # "ack",
             toWorker' = [toWorker EXCEPT ![p] = Append(@, x)], AckDelivered(t)'
      PROVE  AckDelivered(t)
  <2>0. PICK s \in Procs : \E i \in DOMAIN toWorker'[s] :
               toWorker'[s][i].type = "ack" /\ toWorker'[s][i].task = t
    BY <1>2 DEF AckDelivered
  <2>1. PICK i \in DOMAIN toWorker'[s] :
               toWorker'[s][i].type = "ack" /\ toWorker'[s][i].task = t
    BY <2>0
  <2>2. toWorker[s] \in Seq(Response)
    OBVIOUS
  <2>3. i \in DOMAIN toWorker[s] /\ toWorker'[s][i] = toWorker[s][i]
    <3>1. CASE s # p
      BY <1>2, <2>1, <3>1
    <3>2. CASE s = p
      <4>1. toWorker'[s] = Append(toWorker[s], x)
        BY <1>2, <3>2
      <4> QED BY <1>2, <2>1, <2>2, <4>1, AppendProperties, LenProperties
    <3> QED BY <3>1, <3>2
  <2> QED BY <2>1, <2>3 DEF AckDelivered
<1>3. CASE p \in Workers /\ HandleGetTask(p)
  <2>1. Serve(p, "get_task")
    BY <1>3 DEF HandleGetTask
  <2>2. CASE queue[QueueOf(p)] = <<>>
    <3>1. [type |-> "no_task"] \in Response /\ [type |-> "no_task"].type # "ack"
      BY DEF Response
    <3>2. toWorker' = [toWorker EXCEPT ![p] = Append(@, [type |-> "no_task"])]
      BY <1>3, <2>2 DEF HandleGetTask
    <3> QED BY <1>1, <1>2, <2>1, <3>1, <3>2
  <2>3. CASE queue[QueueOf(p)] # <<>>
    <3> DEFINE x == [type |-> "task", message |-> Head(queue[QueueOf(p)])]
    <3>1. Head(queue[QueueOf(p)]) \in Work
      BY <2>3 DEF QueueOf, QueueName
    <3>2. x \in Response /\ x.type # "ack"
      BY <3>1 DEF Response
    <3>3. toWorker' = [toWorker EXCEPT ![p] = Append(@, x)]
      BY <1>3, <2>3 DEF HandleGetTask
    <3> QED BY <1>1, <1>2, <2>1, <3>2, <3>3
  <2> QED BY <2>2, <2>3
<1>4. CASE p \in Readers /\ HandleRegisterAck(p)
  <2>1. Serve(p, "register_ack") /\ toWorker' = toWorker
    BY <1>4 DEF HandleRegisterAck
  <2> QED BY <1>1, <2>1 DEF AckDelivered
<1>5. CASE ForwardBlocked(p) \/ ForwardResult(p) \/ ForwardPlain(p)
  <2>1. Serve(p, "forward") /\ toWorker' = toWorker
    BY <1>5 DEF ForwardBlocked, ForwardResult, ForwardPlain
  <2> QED BY <1>1, <2>1 DEF AckDelivered
<1>6. CASE ForwardAck(p)
  <2> DEFINE u == Forwarded(p).task
             acks(r) == [i \in 1 .. pendingAcks[u][r] |->
                           [type |-> "ack", task |-> u, sign |-> "ack"]]
  <2>1. Serve(p, "forward") /\ Forwarded(p).class = "tune_kernel_ack"
    BY <1>6 DEF ForwardAck
  <2>2. AckSent(u)
    <3>1. /\ toBroker[p] \in Seq(Request) /\ toBroker[p] # <<>>
          /\ Head(toBroker[p]).type = "forward"
      BY <2>1 DEF Serve
    <3>2. 1 \in DOMAIN toBroker[p] /\ toBroker[p][1] = Head(toBroker[p])
      BY <3>1
    <3> QED BY <2>1, <3>1, <3>2 DEF AckSent, Forwarded
  <2>3. CASE u = t
    BY <2>2, <2>3
  <2>4. CASE u # t
    <3>1. ASSUME AckDelivered(t)' PROVE AckDelivered(t)
      <4>0. PICK s \in Procs : \E i \in DOMAIN toWorker'[s] :
                   toWorker'[s][i].type = "ack" /\ toWorker'[s][i].task = t
        BY <3>1 DEF AckDelivered
      <4>1. PICK i \in DOMAIN toWorker'[s] :
                   toWorker'[s][i].type = "ack" /\ toWorker'[s][i].task = t
        BY <4>0
      <4>2. CASE s \notin named
        <5>1. toWorker'[s] = toWorker[s]
          BY <1>6, <4>2 DEF ForwardAck
        <5> QED BY <4>1, <5>1 DEF AckDelivered
      <4>3. CASE s \in named
        <5>1. toWorker'[s] = toWorker[s] \o acks(s)
          BY <1>6, <4>3 DEF ForwardAck
        <5>2. pendingAcks[u][s] \in Nat
          <6>1. Head(toBroker[p]) \in Request /\ Head(toBroker[p]).type = "forward"
            BY <2>1, ServeType
          <6>2. Head(toBroker[p]).message \in Message
            BY <6>1, RequestFields
          <6>3. u \in Tasks
            BY <6>2, MessageFields DEF Forwarded
          <6> QED BY <4>3, <6>3
        <5> DEFINE n == pendingAcks[u][s]
                   b == [type |-> "ack", task |-> u, sign |-> "ack"]
                   a == [j \in 1 .. n |-> b]
        <5>3. n \in Nat /\ a = acks(s) /\ b.task # t
          BY <2>4, <5>2
        <5> HIDE DEF n, b
        <5>4. a \in Seq({b}) /\ Len(a) = n /\ \A j \in 1 .. n : a[j] = b
          BY <5>3
        <5>5. toWorker[s] \in Seq(Response \cup {b}) /\ a \in Seq(Response \cup {b})
          BY <5>4, SeqMonotonic
        <5> HIDE DEF a
        <5>6. i \in DOMAIN toWorker[s] /\ toWorker'[s][i] = toWorker[s][i]
          <6>1. toWorker'[s] = toWorker[s] \o a
            BY <5>1, <5>3
          <6>2. DOMAIN a = 1 .. n
            BY <5>3, <5>4, LenProperties
          <6>3. ~ \E j \in DOMAIN a : toWorker'[s][i] = a[j]
            BY <4>1, <5>3, <5>4, <6>2
          <6> QED BY <4>1, <5>5, <6>1, <6>3, ConcatIndex
        <5> QED BY <4>1, <5>6 DEF AckDelivered
      <4> QED BY <4>2, <4>3
    <3> QED BY <1>1, <2>1, <3>1
  <2> QED BY <2>3, <2>4
<1>7. CASE RemoveWorker(p)
  <2>1. toBroker' = toBroker /\ toWorker' = [toWorker EXCEPT ![p] = <<>>]
    BY <1>7 DEF RemoveWorker
  <2> QED BY <2>1 DEF AckSent, AckDelivered
<1> QED BY <1>3, <1>4, <1>5, <1>6, <1>7 DEF Broker

\* Requests that are no acks, sent by one process.
LEMMA SendNoAcks ==
  ASSUME TypeInv, NEW p \in Procs, NEW ms \in Seq(Request), NEW t \in Tasks,
         \A j \in DOMAIN ms : ms[j].type = "forward" => ms[j].message.class # "tune_kernel_ack",
         toBroker' = [toBroker EXCEPT ![p] = @ \o ms], AckSent(t)'
  PROVE  AckSent(t)
<1> USE DEF TypeInv, TypeOK
<1>1. PICK s \in Procs : \E i \in DOMAIN toBroker'[s] :
             /\ toBroker'[s][i].type = "forward"
             /\ toBroker'[s][i].message.class = "tune_kernel_ack"
             /\ toBroker'[s][i].message.task = t
  BY DEF AckSent
<1>2. PICK i \in DOMAIN toBroker'[s] :
             /\ toBroker'[s][i].type = "forward"
             /\ toBroker'[s][i].message.class = "tune_kernel_ack"
             /\ toBroker'[s][i].message.task = t
  BY <1>1
<1>3. i \in DOMAIN toBroker[s] /\ toBroker'[s][i] = toBroker[s][i]
  <2>1. CASE s # p
    BY <2>1
  <2>2. CASE s = p
    <3>1. toBroker'[s] = toBroker[s] \o ms
      BY <2>2
    <3>2. toBroker[s] \in Seq(Request)
      OBVIOUS
    <3> QED BY <1>2, <3>1, <3>2, ConcatIndex
  <2> QED BY <2>1, <2>2
<1> QED BY <1>2, <1>3 DEF AckSent

\* A response taken off a connection.
LEMMA ReceiveNoAcks ==
  ASSUME TypeInv, NEW p \in Procs, NEW t \in Tasks, toWorker[p] # <<>>,
         toWorker' = [toWorker EXCEPT ![p] = Tail(@)], AckDelivered(t)'
  PROVE  AckDelivered(t)
<1> USE DEF TypeInv, TypeOK
<1>1. PICK s \in Procs : \E i \in DOMAIN toWorker'[s] :
             toWorker'[s][i].type = "ack" /\ toWorker'[s][i].task = t
  BY DEF AckDelivered
<1>2. PICK i \in DOMAIN toWorker'[s] :
             toWorker'[s][i].type = "ack" /\ toWorker'[s][i].task = t
  BY <1>1
<1>3. CASE s = p
  <2>1. toWorker[p] \in Seq(Response) /\ toWorker'[p] = Tail(toWorker[p])
    OBVIOUS
  <2>2. i + 1 \in DOMAIN toWorker[p] /\ toWorker'[p][i] = toWorker[p][i + 1]
    BY <1>2, <1>3, <2>1, HeadTailProperties, LenProperties
  <2> QED BY <1>2, <1>3, <2>2 DEF AckDelivered
<1>4. CASE s # p
  BY <1>2, <1>4 DEF AckDelivered
<1> QED BY <1>3, <1>4

LEMMA SubmissionNoAcks ==
  ASSUME NEW t \in Tasks, NEW k \in 0 .. 2,
         NEW j \in DOMAIN SubSeq(Submission(t), 1, k),
         SubSeq(Submission(t), 1, k)[j].type = "forward"
  PROVE  SubSeq(Submission(t), 1, k)[j].message.class # "tune_kernel_ack"
<1> DEFINE s == Submission(t)
<1>1. s \in Seq(Request) /\ Len(s) = 2
  BY SubmissionType DEF Submission
<1>2. /\ s[1] = [type |-> "register_ack", task |-> t]
      /\ s[2] = [type |-> "forward", message |-> StageMsg("tune_kernel", t)]
  BY DEF Submission
<1>3. SubSeq(s, 1, k)[j] \in {s[1], s[2]}
  <2> HIDE DEF s
  <2> QED BY <1>1, SubSeqProperties, LenProperties
<1> QED BY <1>2, <1>3 DEF StageMsg

LEMMA ReaderAcks ==
  ASSUME TypeInv, NEW r \in Readers, Fetch(r) \/ FetchFault(r) \/ ReceiveAck(r),
         NEW t \in Tasks
  PROVE  /\ AckSent(t)' => AckSent(t)
         /\ AckDelivered(t)' => AckDelivered(t)
<1>1. r \in Procs
  BY DEF Procs
<1>2. ASSUME NEW u \in Tasks, NEW k \in 0 .. 2, AckSent(t)',
             toBroker' = [toBroker EXCEPT ![r] = @ \o SubSeq(Submission(u), 1, k)]
      PROVE  AckSent(t)
  <2>1. SubSeq(Submission(u), 1, k) \in Seq(Request)
    BY SubmissionType, SubSeqProperties DEF Submission
  <2> DEFINE ms == SubSeq(Submission(u), 1, k)
  <2>2. \A j \in DOMAIN ms : ms[j].type = "forward" => ms[j].message.class # "tune_kernel_ack"
    BY SubmissionNoAcks
  <2>3. toBroker' = [toBroker EXCEPT ![r] = @ \o ms] /\ ms \in Seq(Request)
    BY <1>2, <2>1
  <2> HIDE DEF ms
  <2> QED BY <1>1, <1>2, <2>2, <2>3, SendNoAcks
<1>3. ASSUME NEW u \in Tasks, FetchTask(r, u), AckSent(t)' PROVE AckSent(t)
  <2>1. SubSeq(Submission(u), 1, 2) = Submission(u)
    <3>1. Submission(u) \in Seq(Request) /\ Len(Submission(u)) = 2
      BY SubmissionType DEF Submission
    <3> QED BY <3>1, SubSeqFull
  <2>2. toBroker' = [toBroker EXCEPT ![r] = @ \o SubSeq(Submission(u), 1, 2)]
    BY <1>3, <2>1 DEF FetchTask
  <2>3. 2 \in 0 .. 2
    OBVIOUS
  <2> QED BY <1>2, <1>3, <2>2, <2>3
<1>4. ASSUME NEW u \in Tasks, FetchRaises(r, u) PROVE AckSent(t)' <=> AckSent(t)
  <2>1. toBroker' = toBroker
    BY <1>4 DEF FetchRaises
  <2> QED BY <2>1 DEF AckSent
<1>5. ASSUME NEW u \in Tasks, DieFetching(r, u), AckSent(t)' PROVE AckSent(t)
  <2>1. PICK k \in 0 .. 1 :
               toBroker' = [toBroker EXCEPT ![r] = @ \o SubSeq(Submission(u), 1, k)]
    BY <1>5 DEF DieFetching
  <2>2. k \in 0 .. 2
    OBVIOUS
  <2> QED BY <1>2, <1>5, <2>1, <2>2
<1>6. CASE Fetch(r) \/ FetchFault(r)
  <2>1. toWorker' = toWorker
    BY <1>6 DEF Fetch, FetchFault, FetchTask, FetchRaises, DieFetching
  <2>2. AckDelivered(t)' => AckDelivered(t)
    BY <2>1 DEF AckDelivered
  <2> QED BY <1>3, <1>4, <1>5, <1>6, <2>2 DEF Fetch, FetchFault
<1>7. CASE ReceiveAck(r)
  <2>1. AckSent(t)' <=> AckSent(t)
    BY <1>7 DEF ReceiveAck, AckSent
  <2>2. toWorker[r] # <<>> /\ toWorker' = [toWorker EXCEPT ![r] = Tail(@)]
    BY <1>7 DEF ReceiveAck
  <2> QED BY <1>1, <2>1, <2>2, ReceiveNoAcks
<1> QED BY <1>6, <1>7

LEMMA WorkerAcks ==
  ASSUME TypeInv, NEW w \in Workers, GetTask(w) \/ ReceiveReply(w) \/ HandlerRaises(w),
         NEW t \in Tasks
  PROVE  /\ AckSent(t)' => AckSent(t)
         /\ AckDelivered(t)' => AckDelivered(t)
<1>1. w \in Procs
  BY DEF Procs
<1>2. CASE GetTask(w)
  <2> DEFINE m == [type |-> "get_task"]
             ms == <<m>>
  <2>1. m \in Request /\ m.type # "forward"
    BY DEF Request
  <2>2. toBroker' = [toBroker EXCEPT ![w] = Append(@, m)]
    BY <1>2 DEF GetTask
  <2>3. toBroker[w] \in Seq(Request)
    BY <1>1 DEF TypeInv, TypeOK
  <2> HIDE DEF m
  <2>4. ms \in Seq(Request) /\ \A j \in DOMAIN ms : ms[j] = m
    BY <2>1
  <2>5. toBroker' = [toBroker EXCEPT ![w] = @ \o ms]
    <3>1. Append(toBroker[w], m) = toBroker[w] \o ms
      BY <2>1, <2>3, AppendIsConcat
    <3> QED BY <2>2, <3>1
  <2> HIDE DEF ms
  <2>6. AckSent(t)' => AckSent(t)
    BY <1>1, <2>1, <2>4, <2>5, SendNoAcks
  <2> QED BY <1>2, <2>6 DEF GetTask, AckDelivered
<1>3. CASE ReceiveReply(w)
  <2>1. AckSent(t)' <=> AckSent(t)
    BY <1>3 DEF ReceiveReply, AckSent
  <2>2. toWorker[w] # <<>> /\ toWorker' = [toWorker EXCEPT ![w] = Tail(@)]
    BY <1>3 DEF ReceiveReply
  <2> QED BY <1>1, <2>1, <2>2, ReceiveNoAcks
<1>4. CASE HandlerRaises(w)
  BY <1>4 DEF HandlerRaises, AckSent, AckDelivered
<1> QED BY <1>2, <1>3, <1>4

LEMMA NextAcks ==
  TypeInv /\ AckAfterFinish /\ [Next]_vars => AckAfterFinish'
<1> SUFFICES ASSUME TypeInv, AckAfterFinish, [Next]_vars PROVE AckAfterFinish'
  OBVIOUS
<1>1. ASSUME \A t \in Tasks : /\ AckSent(t)' => AckSent(t)
                              /\ AckDelivered(t)' => AckDelivered(t)
      PROVE  AckAfterFinish'
  BY <1>1, TerminalStep DEF AckAfterFinish
<1>2. CASE \E r \in Readers : Fetch(r) \/ FetchFault(r) \/ ReceiveAck(r)
  BY <1>1, <1>2, ReaderAcks
<1>3. CASE \E w \in Workers : GetTask(w) \/ ReceiveReply(w) \/ HandlerRaises(w)
  BY <1>1, <1>3, WorkerAcks
<1>4. CASE \E w \in Workers : Handle(w)
  BY <1>4, HandleAcks
<1>5. CASE \E p \in Procs : Broker(p)
  BY <1>5, BrokerAcks
<1>6. CASE \/ \E p \in Procs : Stop(p) \/ Restart(p)
           \/ \E stale \in SUBSET Tasks : ResetStale(stale)
  <2>1. toBroker' = toBroker /\ toWorker' = toWorker
    BY <1>6 DEF Stop, Restart, ResetStale
  <2> QED BY <1>1, <2>1 DEF AckSent, AckDelivered
<1>7. CASE UNCHANGED vars
  BY <1>1, <1>7 DEF vars, AckSent, AckDelivered
<1> QED BY <1>2, <1>3, <1>4, <1>5, <1>6, <1>7 DEF Next

LEMMA InitAcks == Init => AckAfterFinish
<1> SUFFICES ASSUME Init, NEW t \in Tasks PROVE ~ (AckSent(t) \/ AckDelivered(t))
  BY DEF AckAfterFinish
<1>1. \A p \in Procs : DOMAIN toBroker[p] = {} /\ DOMAIN toWorker[p] = {}
  BY DEF Init
<1> QED BY <1>1 DEF AckSent, AckDelivered

\* Postprocess and MarkTaskFailed write the row before they return the ack, so
\* no ack is ever on its way, in either direction, for an unfinished task.
THEOREM AcksFollowDatabase == Spec => []AckAfterFinish
<1>1. TypeInv /\ AckAfterFinish /\ [Next]_vars => (TypeInv /\ AckAfterFinish)'
  BY NextType, NextAcks
<1> QED BY <1>1, InitTypeInv, InitAcks, PTL DEF Spec

-----------------------------------------------------------------------------
(* Readers and the database                                                *)

\* The steps that change what a running reader waits for.
LEMMA AwaitingSteps ==
  ASSUME TypeInv, [Next]_vars, NEW r \in Readers, awaiting'[r] # awaiting[r]
  PROVE  \/ \E t \in Tasks : FetchTask(r, t)
         \/ /\ ReceiveAck(r) /\ Acknowledges(Head(toWorker[r]), awaiting[r])
            /\ awaiting' = [awaiting EXCEPT ![r] = None]
         \/ Restart(r)
<1> USE DEF TypeInv, TypeOK
<1>1. ASSUME NEW s \in Readers, NEW t \in Tasks, FetchTask(s, t) PROVE s = r
  BY <1>1 DEF FetchTask
<1>2. ASSUME NEW s \in Readers, FetchFault(s) PROVE FALSE
  BY <1>2 DEF FetchFault, FetchRaises, DieFetching
<1>3. ASSUME NEW s \in Readers, ReceiveAck(s)
      PROVE  /\ s = r /\ Acknowledges(Head(toWorker[s]), awaiting[s])
             /\ awaiting' = [awaiting EXCEPT ![s] = None]
  BY <1>3 DEF ReceiveAck
<1>4. ASSUME NEW w \in Workers, GetTask(w) \/ ReceiveReply(w) \/ Handle(w) \/ HandlerRaises(w)
      PROVE  FALSE
  BY <1>4 DEF GetTask, ReceiveReply, HandlerRaises, Handle, TuneKernel, PreprocessOk,
     PreprocessFails, ProbeOk, ProbeFails, TuneImpl, WriteResult, Postprocess, MarkTaskFailed,
     Return
<1>5. ASSUME NEW p \in Procs, Broker(p) \/ Stop(p) PROVE FALSE
  BY <1>5 DEF Broker, HandleGetTask, HandleRegisterAck, ForwardBlocked, ForwardResult,
     ForwardAck, ForwardPlain, RemoveWorker, Serve, Stop
<1>6. ASSUME NEW p \in Procs, Restart(p) PROVE p = r
  BY <1>6 DEF Restart
<1>7. ASSUME NEW stale \in SUBSET Tasks, ResetStale(stale) PROVE FALSE
  BY <1>7 DEF ResetStale
<1>8. ~ UNCHANGED vars
  BY DEF vars
<1> QED BY <1>1, <1>2, <1>3, <1>4, <1>5, <1>6, <1>7, <1>8 DEF Next, Fetch

\* The ack that ends a reader's wait was delivered, so its task is finished.
LEMMA AckedIsFinished ==
  ASSUME TypeInv, AckAfterFinish, NEW r \in Readers, ReceiveAck(r),
         Acknowledges(Head(toWorker[r]), awaiting[r])
  PROVE  awaiting[r] \in Tasks /\ status[awaiting[r]] \in Terminal
<1>1. awaiting[r] \in Tasks
  BY DEF ReceiveAck, TypeInv, TypeOK
<1>2. /\ toWorker[r] \in Seq(Response) /\ toWorker[r] # <<>>
      /\ Head(toWorker[r]).type = "ack" /\ Head(toWorker[r]).task = awaiting[r]
  BY DEF ReceiveAck, TypeInv, TypeOK, Procs, Acknowledges
<1>3. 1 \in DOMAIN toWorker[r] /\ toWorker[r][1] = Head(toWorker[r])
  BY <1>2
<1>4. AckDelivered(awaiting[r])
  BY <1>2, <1>3 DEF AckDelivered, Procs
<1> QED BY <1>1, <1>4 DEF AckAfterFinish

\* A running reader leaves its ack wait for a finished task only: the first
\* half of the throttle in PGReaderWorker.run.
THEOREM ReleaseFollowsFinish == Spec => ReleasedAfterFinish
<1> DEFINE Step == \A r \in running \cap Readers :
                     awaiting[r] # None /\ awaiting'[r] # awaiting[r]
                       => status[awaiting[r]] \in Terminal
<1>1. TypeInv /\ AckAfterFinish /\ [Next]_vars => [Step]_vars
  <2> SUFFICES ASSUME TypeInv, AckAfterFinish, [Next]_vars,
                      NEW r \in running \cap Readers,
                      awaiting[r] # None, awaiting'[r] # awaiting[r]
               PROVE  status[awaiting[r]] \in Terminal
    OBVIOUS
  <2>1. ~ Restart(r) /\ \A t \in Tasks : ~ FetchTask(r, t)
    BY DEF Restart, FetchTask
  <2> QED BY <2>1, AwaitingSteps, AckedIsFinished
<1>2. TypeInv /\ AckAfterFinish /\ [Next]_vars => (TypeInv /\ AckAfterFinish)'
  BY NextType, NextAcks
<1> QED BY <1>1, <1>2, InitTypeInv, InitAcks, PTL DEF Spec, ReleasedAfterFinish

\* Resets are counted, and only they are.
LEMMA ResetsCounted ==
  ASSUME TypeInv, [Next]_vars
  PROVE  resets' = resets \/ resets' = resets + 1
<1>1. ASSUME NEW r \in Readers, Fetch(r) \/ FetchFault(r) \/ ReceiveAck(r)
      PROVE  resets' = resets
  BY <1>1 DEF Fetch, FetchFault, FetchTask, FetchRaises, DieFetching, ReceiveAck, bounds
<1>2. ASSUME NEW w \in Workers, GetTask(w) \/ ReceiveReply(w) \/ Handle(w) \/ HandlerRaises(w)
      PROVE  resets' = resets
  BY <1>2 DEF GetTask, ReceiveReply, HandlerRaises, Handle, TuneKernel, PreprocessOk,
     PreprocessFails, ProbeOk, ProbeFails, TuneImpl, WriteResult, Postprocess, MarkTaskFailed,
     Return, bounds
<1>3. ASSUME NEW p \in Procs, Broker(p) \/ Stop(p) \/ Restart(p)
      PROVE  resets' = resets
  BY <1>3 DEF Broker, HandleGetTask, HandleRegisterAck, ForwardBlocked, ForwardResult,
     ForwardAck, ForwardPlain, RemoveWorker, Serve, Stop, Restart, bounds
<1>4. ASSUME NEW stale \in SUBSET Tasks, ResetStale(stale)
      PROVE  resets' = resets + 1
  BY <1>4 DEF ResetStale
<1>5. UNCHANGED vars => resets' = resets
  BY DEF vars, bounds
<1> QED BY <1>1, <1>2, <1>3, <1>4, <1>5 DEF Next

\* As long as no stale task was reset, a task that a reader waits for is not
\* pending: this is what keeps another reader from claiming it.
ClaimedNotPending ==
  resets = 0 => \A r \in Readers : awaiting[r] # None => status[awaiting[r]] # "pending"

ClaimInv == TypeInv /\ ClaimedNotPending /\ ExclusiveClaim

LEMMA NextClaim == ClaimInv /\ [Next]_vars => ClaimInv'
<1> SUFFICES ASSUME ClaimInv, [Next]_vars, resets' = 0 PROVE ClaimInv'
  BY NextType DEF ClaimInv, ClaimedNotPending, ExclusiveClaim
<1> USE DEF ClaimInv
<1>1. resets = 0 /\ resets' # resets + 1
  BY ResetsCounted DEF TypeInv, TypeOK
<1>2. \A t \in Tasks : status[t] # "pending" => status'[t] # "pending"
  BY <1>1, StatusSteps DEF Terminal
<1>3. CASE awaiting' = awaiting
  BY <1>1, <1>2, <1>3, NextType DEF ClaimedNotPending, ExclusiveClaim, TypeInv, TypeOK
<1>4. ASSUME NEW r \in Readers, NEW t \in Tasks, FetchTask(r, t) PROVE ClaimInv'
  <2>1. /\ awaiting' = [awaiting EXCEPT ![r] = t] /\ status[t] = "pending"
        /\ status' = [status EXCEPT ![t] = "running"]
    BY <1>4 DEF FetchTask, Claim
  <2>2. \A s \in Readers : awaiting[s] # t
    BY <1>1, <2>1, LocalQueueAssumption DEF ClaimedNotPending
  <2>3. ClaimedNotPending'
    BY <1>1, <1>2, <2>1 DEF ClaimedNotPending, TypeInv, TypeOK
  <2>4. ExclusiveClaim'
    BY <1>1, <2>1, <2>2 DEF ExclusiveClaim, TypeInv, TypeOK
  <2> QED BY <2>3, <2>4, NextType
<1>5. ASSUME NEW r \in Readers, awaiting' = [awaiting EXCEPT ![r] = None] PROVE ClaimInv'
  <2>1. ClaimedNotPending'
    BY <1>1, <1>2, <1>5 DEF ClaimedNotPending, TypeInv, TypeOK
  <2>2. ExclusiveClaim'
    BY <1>1, <1>5 DEF ExclusiveClaim, TypeInv, TypeOK
  <2> QED BY <2>1, <2>2, NextType
<1>6. CASE awaiting' # awaiting
  <2>1. awaiting \in [Readers -> Tasks \cup {None}] /\ awaiting' \in [Readers -> Tasks \cup {None}]
    BY NextType DEF TypeInv, TypeOK
  <2>2. PICK r \in Readers : awaiting'[r] # awaiting[r]
    BY <1>6, <2>1
  <2>3. CASE Restart(r)
    <3>1. awaiting' = [awaiting EXCEPT ![r] = None]
      BY <2>3 DEF Restart
    <3> QED BY <1>5, <3>1
  <2> QED BY <1>4, <1>5, <2>2, <2>3, AwaitingSteps
<1> QED BY <1>3, <1>6

\* fetch_tasks claims pending rows atomically, so two readers never wait for
\* one task unless reset_stale_tasks took it from the first.
THEOREM ClaimsAreExclusive == Spec => []ExclusiveClaim
<1>1. Init => ClaimInv
  BY InitTypeInv DEF Init, ClaimInv, ClaimedNotPending, ExclusiveClaim
<1>2. ClaimInv => ExclusiveClaim
  BY DEF ClaimInv
<1> QED BY <1>1, <1>2, NextClaim, PTL DEF Spec

-----------------------------------------------------------------------------
(* The queues stay in priority order                                       *)

LEMMA EnqueueKeepsSorted ==
  ASSUME NEW q \in Seq(Work), NEW m \in Work, Sorted(q)
  PROVE  Sorted(Enqueue(q, m))
<1> DEFINE ms == <<m>>
<1>1. ms \in Seq(Work) /\ \A i \in DOMAIN ms : ms[i] = m
  OBVIOUS
<1>2. Priority(m.class) \in Int
  BY PriorityType
<1>3. Enqueue(q, m) = Insert(q, ms, Priority(m.class))
  BY DEF Enqueue
<1> HIDE DEF ms
<1> QED BY <1>1, <1>2, <1>3, InsertKeepsSorted

LEMMA TailSorted ==
  ASSUME NEW q \in Seq(Work), q # <<>>, Sorted(q)
  PROVE  Sorted(Tail(q))
<1>1. /\ Tail(q) \in Seq(Work) /\ Len(Tail(q)) = Len(q) - 1 /\ Len(q) \in Nat
      /\ \A i \in 1 .. Len(Tail(q)) : Tail(q)[i] = q[i + 1]
  BY HeadTailProperties, LenProperties
<1>2. DOMAIN q = 1 .. Len(q) /\ DOMAIN Tail(q) = 1 .. Len(q) - 1
  BY <1>1, LenProperties
<1> SUFFICES ASSUME NEW i \in DOMAIN Tail(q), NEW j \in DOMAIN Tail(q), i < j
             PROVE  Priority(Tail(q)[i].class) >= Priority(Tail(q)[j].class)
  BY DEF Sorted
<1>3. i + 1 \in DOMAIN q /\ j + 1 \in DOMAIN q /\ i + 1 < j + 1
  BY <1>2
<1>4. Priority(q[i + 1].class) >= Priority(q[j + 1].class)
  BY <1>3 DEF Sorted
<1> QED BY <1>1, <1>2, <1>4

LEMMA NextSorted == TypeInv /\ SortedQueues /\ [Next]_vars => SortedQueues'
<1> SUFFICES ASSUME TypeInv, SortedQueues, [Next]_vars PROVE SortedQueues'
  OBVIOUS
<1> USE DEF TypeInv, TypeOK
<1>1. CASE queue' = queue
  BY <1>1 DEF SortedQueues
<1>2. ASSUME NEW p \in Workers, HandleGetTask(p) PROVE SortedQueues'
  <2>1. QueueOf(p) \in QueueName
    BY DEF QueueOf, QueueName
  <2>2. CASE queue[QueueOf(p)] # <<>>
    <3>1. queue' = [queue EXCEPT ![QueueOf(p)] = Tail(@)]
      BY <1>2, <2>2 DEF HandleGetTask
    <3>2. Sorted(Tail(queue[QueueOf(p)]))
      BY <2>1, <2>2, TailSorted DEF SortedQueues
    <3> QED BY <2>1, <3>1, <3>2 DEF SortedQueues
  <2> QED BY <1>1, <1>2, <2>2 DEF HandleGetTask
<1>3. ASSUME NEW p \in Procs, Serve(p, "forward") PROVE Forwarded(p) \in Message
  BY <1>3, ServeType, RequestFields DEF Forwarded
<1>4. ASSUME NEW p \in Procs, ForwardResult(p) PROVE SortedQueues'
  <2> DEFINE m == Forwarded(p)
             ms == Released(m)
             four == Priority("postprocess")
             cpu == Insert(queue["cpu_queue"], ms, four)
  <2>1. m \in Work /\ m.task \in Tasks /\ m.impl \in Impls
    BY <1>3, <1>4, MessageFields DEF ForwardResult
  <2>2. ms \in Seq(Work) /\ \A i \in DOMAIN ms : Priority(ms[i].class) = four
    BY <2>1, ReleasedType DEF Released, StageMsg
  <2>3. four \in Int
    BY DEF Priority
  <2>4. queue["cpu_queue"] \in Seq(Work) /\ Sorted(queue["cpu_queue"])
    <3>1. "cpu_queue" \in QueueName
      BY DEF QueueName
    <3>2. Sorted(queue["cpu_queue"])
      BY <3>1 DEF SortedQueues
    <3> QED BY <3>1, <3>2
  <2>5. queue' = [queue EXCEPT !["cpu_queue"] = Enqueue(cpu, m)]
    BY <1>4 DEF ForwardResult
  <2> HIDE DEF ms, four
  <2>6. cpu \in Seq(Work) /\ Sorted(cpu)
    BY <2>2, <2>3, <2>4, InsertKeepsSorted, InsertElements
  <2> HIDE DEF cpu
  <2>7. Sorted(Enqueue(cpu, m))
    BY <2>1, <2>6, EnqueueKeepsSorted
  <2> QED BY <2>5, <2>7 DEF SortedQueues, QueueName
<1>5. ASSUME NEW p \in Procs, ForwardPlain(p) PROVE SortedQueues'
  <2> DEFINE m == Forwarded(p)
             q == TargetQueue(m)
  <2>1. m \in Work /\ q \in QueueName
    BY <1>3, <1>5, MessageFields DEF ForwardPlain, TargetQueue, QueueName
  <2>2. Sorted(Enqueue(queue[q], m))
    BY <2>1, EnqueueKeepsSorted DEF SortedQueues
  <2>3. queue' = [queue EXCEPT ![q] = Enqueue(@, m)]
    BY <1>5 DEF ForwardPlain
  <2> HIDE DEF m, q
  <2> QED BY <2>1, <2>2, <2>3 DEF SortedQueues
<1>6. ASSUME NEW p \in Procs, Broker(p) PROVE SortedQueues'
  <2>1. HandleRegisterAck(p) \/ ForwardBlocked(p) \/ ForwardAck(p) \/ RemoveWorker(p)
          => queue' = queue
    BY DEF HandleRegisterAck, ForwardBlocked, ForwardAck, RemoveWorker
  <2> QED BY <1>1, <1>2, <1>4, <1>5, <1>6, <2>1 DEF Broker
<1>7. ASSUME NEW r \in Readers, Fetch(r) \/ FetchFault(r) \/ ReceiveAck(r) PROVE queue' = queue
  BY <1>7 DEF Fetch, FetchFault, FetchTask, FetchRaises, DieFetching, ReceiveAck, broker
<1>8. ASSUME NEW w \in Workers, GetTask(w) \/ ReceiveReply(w) \/ Handle(w) \/ HandlerRaises(w)
      PROVE  queue' = queue
  BY <1>8 DEF GetTask, ReceiveReply, HandlerRaises, Handle, TuneKernel, PreprocessOk,
     PreprocessFails, ProbeOk, ProbeFails, TuneImpl, WriteResult, Postprocess, MarkTaskFailed,
     Return, broker
<1>9. ASSUME NEW p \in Procs, Stop(p) \/ Restart(p) PROVE queue' = queue
  BY <1>9 DEF Stop, Restart, broker
<1>10. ASSUME NEW stale \in SUBSET Tasks, ResetStale(stale) PROVE queue' = queue
  BY <1>10 DEF ResetStale, broker
<1>11. CASE UNCHANGED vars
  BY <1>1, <1>11 DEF vars, broker
<1> QED BY <1>1, <1>6, <1>7, <1>8, <1>9, <1>10, <1>11 DEF Next

\* _enqueue_with_priority and _dequeue_task keep every queue in priority order,
\* with any number of messages released by one result.
THEOREM QueuesStaySorted == Spec => []SortedQueues
<1>1. Init => SortedQueues
  <2> SUFFICES ASSUME Init, NEW q \in QueueName PROVE Sorted(queue[q])
    BY DEF SortedQueues
  <2>1. DOMAIN queue[q] = {}
    BY DEF Init
  <2> QED BY <2>1 DEF Sorted
<1>2. TypeInv /\ SortedQueues /\ [Next]_vars => (TypeInv /\ SortedQueues)'
  BY NextType, NextSorted
<1> QED BY <1>1, <1>2, InitTypeInv, PTL DEF Spec

-----------------------------------------------------------------------------
(* The life cycle of a task: the rows of task_queue and the readers' waits *)
(* move only as TaskLifecycle allows, whatever messages are under way      *)

LEMMA LifecycleInit == Init => Lifecycle!Init
  BY DEF Init, Lifecycle!Init

\* Readers: a claim is the life cycle's Claim, or its Orphan when the reader
\* raised or died after it; an ack that ends the wait is a Release.
LEMMA ReaderImplements ==
  ASSUME Faulty, TypeInv, AckAfterFinish, NEW r \in Readers,
         Fetch(r) \/ FetchFault(r) \/ ReceiveAck(r)
  PROVE  [Lifecycle!Next]_Lifecycle!vars
<1>1. ASSUME NEW t \in Tasks, FetchTask(r, t) PROVE Lifecycle!Claim(r, t)
  BY <1>1 DEF FetchTask, Claim, Lifecycle!Claim
<1>2. ASSUME NEW t \in Tasks, FetchRaises(r, t) \/ DieFetching(r, t) PROVE Lifecycle!Orphan(t)
  BY <1>2 DEF FetchRaises, DieFetching, Claim, Lifecycle!Orphan
<1>3. CASE ReceiveAck(r) /\ Acknowledges(Head(toWorker[r]), awaiting[r])
  <2>1. awaiting' = [awaiting EXCEPT ![r] = None] /\ status' = status /\ awaiting[r] # None
    BY <1>3 DEF ReceiveAck, db
  <2>2. status[awaiting[r]] \in Lifecycle!Terminal
    BY <1>3, AckedIsFinished DEF Terminal, Lifecycle!Terminal
  <2>3. Lifecycle!Release(r)
    BY <2>1, <2>2 DEF Lifecycle!Release
  <2> QED BY <2>3 DEF Lifecycle!Next
<1>4. CASE ReceiveAck(r) /\ ~ Acknowledges(Head(toWorker[r]), awaiting[r])
  <2>1. awaiting' = awaiting /\ status' = status
    BY <1>4 DEF ReceiveAck, db, TypeInv, TypeOK
  <2> QED BY <2>1 DEF Lifecycle!vars
<1> QED BY <1>1, <1>2, <1>3, <1>4 DEF Fetch, FetchFault, Lifecycle!Next

\* Workers: the two handlers that write task_queue finish the task.
LEMMA WorkerImplements ==
  ASSUME Faulty, TypeInv, NEW w \in Workers,
         GetTask(w) \/ ReceiveReply(w) \/ Handle(w) \/ HandlerRaises(w)
  PROVE  [Lifecycle!Next]_Lifecycle!vars
<1>1. awaiting' = awaiting
  BY DEF GetTask, ReceiveReply, HandlerRaises, Handle, TuneKernel, PreprocessOk,
     PreprocessFails, ProbeOk, ProbeFails, TuneImpl, WriteResult, Postprocess, MarkTaskFailed,
     Return
<1>2. CASE Postprocess(w) \/ MarkTaskFailed(w)
  <2> DEFINE t == Head(hand[w]).task
  <2>1. t \in Tasks
    BY <1>2, HandlingFields DEF Postprocess, MarkTaskFailed
  <2>2. \E outcome \in Lifecycle!Terminal : status' = [status EXCEPT ![t] = outcome]
    BY <1>2 DEF Postprocess, MarkTaskFailed, Lifecycle!Terminal
  <2>3. Lifecycle!Finish(t)
    BY <1>1, <2>2 DEF Lifecycle!Finish
  <2> QED BY <2>1, <2>3 DEF Lifecycle!Next
<1>3. CASE ~ (Postprocess(w) \/ MarkTaskFailed(w))
  <2>1. status' = status
    BY <1>3 DEF GetTask, ReceiveReply, HandlerRaises, Handle, TuneKernel, PreprocessOk,
       PreprocessFails, ProbeOk, ProbeFails, TuneImpl, WriteResult, db
  <2> QED BY <1>1, <2>1 DEF Lifecycle!vars
<1> QED BY <1>2, <1>3

\* The broker and a stopping process touch neither; a restarted reader forgets;
\* reset_stale_tasks is Reset.
LEMMA BrokerImplements ==
  ASSUME NEW p \in Procs, Broker(p) \/ Stop(p)
  PROVE  UNCHANGED Lifecycle!vars
  BY DEF Broker, HandleGetTask, HandleRegisterAck, ForwardBlocked, ForwardResult,
     ForwardAck, ForwardPlain, RemoveWorker, Serve, Stop, db, Lifecycle!vars

LEMMA EnvironmentImplements ==
  ASSUME Faulty,
         \/ \E p \in Procs : Restart(p)
         \/ \E stale \in SUBSET Tasks : ResetStale(stale)
  PROVE  [Lifecycle!Next]_Lifecycle!vars
<1>1. ASSUME NEW p \in Procs, Restart(p), p \in Readers PROVE Lifecycle!Forget(p)
  BY <1>1 DEF Restart, db, Lifecycle!Forget
<1>2. ASSUME NEW p \in Procs, Restart(p), p \notin Readers PROVE UNCHANGED Lifecycle!vars
  BY <1>2 DEF Restart, db, Lifecycle!vars
<1>3. ASSUME NEW stale \in SUBSET Tasks, ResetStale(stale) PROVE Lifecycle!Reset(stale)
  BY <1>3 DEF ResetStale, Lifecycle!Reset
<1> QED BY <1>1, <1>2, <1>3 DEF Lifecycle!Next

\* With crashes, exceptions and resets admitted, the service still implements
\* the life cycle: no step of it releases a waiting reader early, claims a task
\* that is not pending or takes a finished one back.
THEOREM QueueImplementsLifecycle == Faulty => (Spec => ImplementsLifecycle)
<1> SUFFICES ASSUME Faulty PROVE Spec => ImplementsLifecycle
  OBVIOUS
<1>1. TypeInv /\ AckAfterFinish /\ [Next]_vars => [Lifecycle!Next]_Lifecycle!vars
  <2> SUFFICES ASSUME TypeInv, AckAfterFinish, [Next]_vars
               PROVE  [Lifecycle!Next]_Lifecycle!vars
    OBVIOUS
  <2>1. CASE UNCHANGED vars
    BY <2>1 DEF vars, db, Lifecycle!vars
  <2> QED BY <2>1, ReaderImplements, WorkerImplements, BrokerImplements, EnvironmentImplements
          DEF Next
<1>2. TypeInv /\ AckAfterFinish /\ [Next]_vars => (TypeInv /\ AckAfterFinish)'
  BY NextType, NextAcks
<1> QED BY <1>1, <1>2, LifecycleInit, InitTypeInv, InitAcks, PTL
        DEF Spec, ImplementsLifecycle, Lifecycle!Spec

-----------------------------------------------------------------------------
(* Where the elements of a set are in a sequence                           *)

Hits(s, S) == { i \in DOMAIN s : s[i] \in S }
Lone(I)    == \A i, j \in I : i = j

\* Every element of c comes from one of a or of b, and from another one each.
Blend(c, a, b) ==
  \A S :
    /\ Hits(c, S) # {} => Hits(a, S) # {} \/ Hits(b, S) # {}
    /\ Lone(Hits(a, S)) /\ Hits(b, S) = {} => Lone(Hits(c, S))
    /\ Hits(a, S) = {} /\ Lone(Hits(b, S)) => Lone(Hits(c, S))

\* c is a without an occurrence of e.
Drop(c, a, e) ==
  /\ Blend(c, a, <<>>)
  /\ \A S : e \in S => /\ Hits(a, S) # {}
                       /\ Lone(Hits(a, S)) => Hits(c, S) = {}

\* f gives the position each element of c comes from, in a for those in L.
Origin(f, L, c, a, b) ==
  /\ \A i \in DOMAIN c : i \in L => f[i] \in DOMAIN a /\ c[i] = a[f[i]]
  /\ \A i \in DOMAIN c : i \notin L => f[i] \in DOMAIN b /\ c[i] = b[f[i]]
  /\ \A i, j \in DOMAIN c : f[i] = f[j] /\ (i \in L <=> j \in L) => i = j

LEMMA BlendByOrigin ==
  ASSUME NEW a, NEW b, NEW c, NEW L, NEW f, Origin(f, L, c, a, b)
  PROVE  Blend(c, a, b)
<1> SUFFICES ASSUME NEW S
             PROVE  /\ Hits(c, S) # {} => Hits(a, S) # {} \/ Hits(b, S) # {}
                    /\ Lone(Hits(a, S)) /\ Hits(b, S) = {} => Lone(Hits(c, S))
                    /\ Hits(a, S) = {} /\ Lone(Hits(b, S)) => Lone(Hits(c, S))
  BY DEF Blend
<1>1. \A i \in Hits(c, S) : IF i \in L THEN f[i] \in Hits(a, S) ELSE f[i] \in Hits(b, S)
  BY DEF Hits, Origin
<1>2. Hits(c, S) \subseteq DOMAIN c
  BY DEF Hits
<1> QED BY <1>1, <1>2 DEF Lone, Origin

LEMMA BlendSame == ASSUME NEW a, NEW b PROVE Blend(a, a, b) /\ Blend(b, a, b)
  BY DEF Blend, Lone

LEMMA EmptyHits == ASSUME NEW S PROVE Hits(<<>>, S) = {}
  BY DEF Hits

LEMMA BlendEmpty == ASSUME NEW a, NEW b PROVE Blend(<<>>, a, b)
  BY EmptyHits DEF Blend, Lone

LEMMA DropAll == ASSUME NEW A, NEW a \in Seq(A), a # <<>> PROVE Drop(<<>>, a, Head(a))
<1>1. \A S : Head(a) \in S => 1 \in Hits(a, S)
  BY DEF Hits
<1> QED BY <1>1, EmptyHits, BlendEmpty DEF Drop

LEMMA DropHead ==
  ASSUME NEW A, NEW a \in Seq(A), a # <<>>
  PROVE  Drop(Tail(a), a, Head(a))
<1> DEFINE c == Tail(a)
<1>1. /\ c \in Seq(A) /\ DOMAIN c = 1 .. Len(a) - 1 /\ DOMAIN a = 1 .. Len(a)
      /\ Len(a) \in Nat \ {0}
      /\ \A i \in DOMAIN c : c[i] = a[i + 1] /\ i + 1 \in DOMAIN a
      /\ Head(a) = a[1] /\ 1 \in DOMAIN a
  OBVIOUS
<1> HIDE DEF c
<1>2. Blend(c, a, <<>>)
  <2> DEFINE f == [i \in DOMAIN c |-> i + 1]
  <2>1. \A i \in DOMAIN c : f[i] = i + 1
    OBVIOUS
  <2> HIDE DEF f
  <2>2. Origin(f, DOMAIN c, c, a, <<>>)
    BY <1>1, <2>1 DEF Origin
  <2> QED BY <2>2, BlendByOrigin
<1>3. ASSUME NEW S, Head(a) \in S PROVE Hits(a, S) # {} /\ (Lone(Hits(a, S)) => Hits(c, S) = {})
  <2>1. 1 \in Hits(a, S)
    BY <1>1, <1>3 DEF Hits
  <2>2. ASSUME NEW i \in Hits(c, S) PROVE i + 1 \in Hits(a, S) /\ i + 1 # 1
    BY <1>1, <2>2 DEF Hits
  <2> QED BY <2>1, <2>2 DEF Lone
<1> QED BY <1>2, <1>3 DEF Drop, c

(* Concatenation under a name of its own, which the provers do not expand. *)
Joined(a, b) == a \o b

LEMMA AppendJoins ==
  ASSUME NEW A
  PROVE  \A s \in Seq(A), x \in A : Append(s, x) = Joined(s, <<x>>)
BY AppendIsConcat DEF Joined

LEMMA BlendConcat ==
  ASSUME NEW A, NEW a \in Seq(A), NEW b \in Seq(A)
  PROVE  Blend(a \o b, a, b)
<1> DEFINE c == a \o b
           f == [i \in DOMAIN c |-> IF i <= Len(a) THEN i ELSE i - Len(a)]
<1>1. /\ DOMAIN a = 1 .. Len(a) /\ DOMAIN b = 1 .. Len(b)
      /\ Len(a) \in Nat /\ Len(b) \in Nat /\ DOMAIN c = 1 .. Len(a) + Len(b)
      /\ \A i \in DOMAIN c : c[i] = IF i <= Len(a) THEN a[i] ELSE b[i - Len(a)]
  OBVIOUS
<1>2. \A i \in DOMAIN c : f[i] = IF i <= Len(a) THEN i ELSE i - Len(a)
  OBVIOUS
<1> HIDE DEF c, f
<1>3. Origin(f, DOMAIN a, c, a, b)
  BY <1>1, <1>2 DEF Origin
<1>4. Blend(c, a, b)
  BY <1>3, BlendByOrigin
<1> QED BY <1>4 DEF c

LEMMA BlendPrefix ==
  ASSUME NEW A, NEW a \in Seq(A), NEW k \in 0 .. Len(a)
  PROVE  Blend(SubSeq(a, 1, k), a, <<>>)
<1> DEFINE c == SubSeq(a, 1, k)
           f == [i \in DOMAIN c |-> i]
<1>1. /\ DOMAIN c = 1 .. k /\ DOMAIN a = 1 .. Len(a) /\ k <= Len(a)
      /\ \A i \in DOMAIN c : c[i] = a[i]
  BY SubSeqProperties
<1>2. \A i \in DOMAIN c : f[i] = i
  OBVIOUS
<1> HIDE DEF c, f
<1>3. Origin(f, DOMAIN c, c, a, <<>>)
  BY <1>1, <1>2 DEF Origin
<1>4. Blend(c, a, <<>>)
  BY <1>3, BlendByOrigin
<1> QED BY <1>4 DEF c

LEMMA BlendInsert ==
  ASSUME NEW A, NEW q \in Seq(A), NEW ms \in Seq(A), NEW p \in Int
  PROVE  Blend(Insert(q, ms, p), q, ms)
<1> DEFINE c == Insert(q, ms, p)
           k == InsertPosition(q, p)
           L == { i \in DOMAIN c : i < k \/ i >= k + Len(ms) }
           f == [i \in DOMAIN c |-> IF i < k THEN i
                                    ELSE IF i < k + Len(ms) THEN i - k + 1
                                    ELSE i - Len(ms)]
<1>1. /\ DOMAIN q = 1 .. Len(q) /\ DOMAIN ms = 1 .. Len(ms)
      /\ Len(q) \in Nat /\ Len(ms) \in Nat
  OBVIOUS
<1>2. k \in 1 .. Len(q) + 1
  BY InsertPositionSplits
<1>3. /\ DOMAIN c = 1 .. Len(q) + Len(ms)
      /\ \A i \in 1 .. Len(q) + Len(ms) :
           c[i] = IF i < k THEN q[i]
                  ELSE IF i < k + Len(ms) THEN ms[i - k + 1]
                  ELSE q[i - Len(ms)]
  <2>1. /\ c \in Seq(A) /\ Len(c) = Len(q) + Len(ms)
        /\ \A i \in 1 .. Len(q) + Len(ms) :
             c[i] = IF i < k THEN q[i]
                    ELSE IF i < k + Len(ms) THEN ms[i - k + 1]
                    ELSE q[i - Len(ms)]
    BY InsertElements
  <2> HIDE DEF c
  <2>2. DOMAIN c = 1 .. Len(c)
    BY <2>1
  <2> QED BY <2>1, <2>2
<1> HIDE DEF k, c
<1>4. \A i \in DOMAIN c : f[i] = IF i < k THEN i
                                 ELSE IF i < k + Len(ms) THEN i - k + 1
                                 ELSE i - Len(ms)
  OBVIOUS
<1> HIDE DEF f
<1>5. Origin(f, L, c, q, ms)
  BY <1>1, <1>2, <1>3, <1>4, SMTT(30) DEF Origin
<1> HIDE DEF L
<1>6. Blend(c, q, ms)
  BY <1>5, BlendByOrigin
<1> QED BY <1>6 DEF c

LEMMA BlendEnqueue ==
  ASSUME NEW q \in Seq(Work), NEW m \in Work
  PROVE  Blend(Enqueue(q, m), q, <<m>>)
<1>1. <<m>> \in Seq(Work) /\ Priority(m.class) \in Int
  BY PriorityType
<1> DEFINE ms == <<m>>
           p == Priority(m.class)
<1> HIDE DEF ms, p
<1>2. Blend(Insert(q, ms, p), q, ms)
  BY <1>1, BlendInsert DEF ms, p
<1> QED BY <1>2 DEF Enqueue, ms, p

\* Blending in one sequence after the other.
LEMMA ConcatHits ==
  ASSUME NEW A, NEW a \in Seq(A), NEW b \in Seq(A), NEW S
  PROVE  /\ Hits(a \o b, S) # {} <=> Hits(a, S) # {} \/ Hits(b, S) # {}
         /\ Lone(Hits(a \o b, S)) => /\ Lone(Hits(a, S)) /\ Lone(Hits(b, S))
                                     /\ Hits(a, S) = {} \/ Hits(b, S) = {}
<1> DEFINE c == a \o b
<1>1. /\ DOMAIN a = 1 .. Len(a) /\ DOMAIN b = 1 .. Len(b)
      /\ Len(a) \in Nat /\ Len(b) \in Nat /\ DOMAIN c = 1 .. Len(a) + Len(b)
      /\ \A i \in DOMAIN c : c[i] = IF i <= Len(a) THEN a[i] ELSE b[i - Len(a)]
  OBVIOUS
<1> HIDE DEF c
<1>2. \A i \in Hits(a, S) : i \in Hits(c, S) /\ i <= Len(a) /\ i \in Int
  BY <1>1 DEF Hits
<1>3. \A i \in Hits(b, S) : Len(a) + i \in Hits(c, S) /\ Len(a) + i > Len(a) /\ i \in Int
  BY <1>1 DEF Hits
<1>4. \A i \in Hits(c, S) : i \in Hits(a, S) \/ i - Len(a) \in Hits(b, S)
  BY <1>1 DEF Hits
<1>5. Hits(c, S) # {} <=> Hits(a, S) # {} \/ Hits(b, S) # {}
  BY <1>2, <1>3, <1>4
<1>6. ASSUME Lone(Hits(c, S))
      PROVE  /\ Lone(Hits(a, S)) /\ Lone(Hits(b, S))
             /\ Hits(a, S) = {} \/ Hits(b, S) = {}
  <2>1. Lone(Hits(a, S))
    BY <1>2, <1>6 DEF Lone
  <2>2. Lone(Hits(b, S))
    <3> SUFFICES ASSUME NEW i \in Hits(b, S), NEW j \in Hits(b, S) PROVE i = j
      BY DEF Lone
    <3>1. Len(a) + i = Len(a) + j /\ i \in Int /\ j \in Int
      BY <1>3, <1>6 DEF Lone
    <3> QED BY <1>1, <3>1
  <2>3. ASSUME NEW i \in Hits(a, S), NEW j \in Hits(b, S) PROVE FALSE
    <3>1. i = Len(a) + j
      BY <1>2, <1>3, <1>6 DEF Lone
    <3> QED BY <1>1, <1>2, <1>3, <3>1
  <2> QED BY <2>1, <2>2, <2>3
<1> QED BY <1>5, <1>6 DEF c

LEMMA BlendTwice ==
  ASSUME NEW A, NEW a \in Seq(A), NEW b \in Seq(A), NEW s, NEW d, NEW c,
         Blend(d, s, a), Blend(c, d, b)
  PROVE  Blend(c, s, a \o b)
<1> SUFFICES ASSUME NEW S
             PROVE  /\ Hits(c, S) # {} => Hits(s, S) # {} \/ Hits(a \o b, S) # {}
                    /\ Lone(Hits(s, S)) /\ Hits(a \o b, S) = {} => Lone(Hits(c, S))
                    /\ Hits(s, S) = {} /\ Lone(Hits(a \o b, S)) => Lone(Hits(c, S))
  BY DEF Blend
<1>1. /\ Hits(a \o b, S) # {} <=> Hits(a, S) # {} \/ Hits(b, S) # {}
      /\ Lone(Hits(a \o b, S)) => /\ Lone(Hits(a, S)) /\ Lone(Hits(b, S))
                                  /\ Hits(a, S) = {} \/ Hits(b, S) = {}
  BY ConcatHits
<1>2. /\ Hits(d, S) # {} => Hits(s, S) # {} \/ Hits(a, S) # {}
      /\ Lone(Hits(s, S)) /\ Hits(a, S) = {} => Lone(Hits(d, S))
      /\ Hits(s, S) = {} /\ Lone(Hits(a, S)) => Lone(Hits(d, S))
  BY DEF Blend
<1>3. /\ Hits(c, S) # {} => Hits(d, S) # {} \/ Hits(b, S) # {}
      /\ Lone(Hits(d, S)) /\ Hits(b, S) = {} => Lone(Hits(c, S))
      /\ Hits(d, S) = {} /\ Lone(Hits(b, S)) => Lone(Hits(c, S))
  BY DEF Blend
<1> QED BY <1>1, <1>2, <1>3

-----------------------------------------------------------------------------
(* Where messages are                                                      *)

Place == ({"sent"} \X Procs) \cup ({"queued"} \X QueueName)
         \cup ({"replied"} \X Workers) \cup ({"held"} \X Workers)

\* What is in a place, and which of its entries carry a message of M.
Content(x) == CASE x[1] = "sent"    -> toBroker[x[2]]
                [] x[1] = "queued"  -> queue[x[2]]
                [] x[1] = "replied" -> toWorker[x[2]]
                [] OTHER            -> hand[x[2]]

Forwarding(M) == { e \in Request : e.type = "forward" /\ e.message \in M }
Replying(M)   == { e \in Response : e.type = "task" /\ e.message \in M }
Carrying(x, M) == CASE x[1] = "sent"    -> Forwarding(M)
                    [] x[1] = "replied" -> Replying(M)
                    [] OTHER            -> M

At(x, M) == Hits(Content(x), Carrying(x, M))

\* A message of M is under way; there is one at most.
Somewhere(M) == \E x \in Place : At(x, M) # {}
Unique(M)    == \A x, y \in Place : \A i \in At(x, M), j \in At(y, M) : x = y /\ i = j

\* What a step does to a place, and to the messages of M.
Steady(x)    == Blend(Content(x)', Content(x), <<>>)
Gains(x, ms) == Blend(Content(x)', Content(x), ms)
Loses(x, e)  == Drop(Content(x)', Content(x), e)
Conserved(M) == (Somewhere(M)' => Somewhere(M)) /\ (Unique(M) => Unique(M)')

LEMMA Places ==
  /\ \A p \in Procs : <<"sent", p>> \in Place /\ Content(<<"sent", p>>) = toBroker[p]
  /\ \A q \in QueueName : <<"queued", q>> \in Place /\ Content(<<"queued", q>>) = queue[q]
  /\ \A w \in Workers : /\ <<"replied", w>> \in Place /\ Content(<<"replied", w>>) = toWorker[w]
                        /\ <<"held", w>> \in Place /\ Content(<<"held", w>>) = hand[w]
  BY DEF Place, Content

LEMMA PlaceCases ==
  ASSUME NEW x \in Place
  PROVE  \/ \E p \in Procs : x = <<"sent", p>>
         \/ \E q \in QueueName : x = <<"queued", q>>
         \/ \E w \in Workers : x = <<"replied", w>>
         \/ \E w \in Workers : x = <<"held", w>>
  BY DEF Place

LEMMA Carries ==
  ASSUME NEW M
  PROVE  /\ \A p : Carrying(<<"sent", p>>, M) = Forwarding(M)
         /\ \A w : Carrying(<<"replied", w>>, M) = Replying(M)
         /\ \A q : Carrying(<<"queued", q>>, M) = M
         /\ \A w : Carrying(<<"held", w>>, M) = M
  BY DEF Carrying

\* One place gains the entries of ms, the others at most lose some.
LEMMA Enter ==
  ASSUME NEW M, NEW b \in Place, NEW ms, Gains(b, ms),
         \A x \in Place : x # b => Steady(x)
  PROVE  LET new == Hits(ms, Carrying(b, M)) IN
         /\ Somewhere(M)' => Somewhere(M) \/ new # {}
         /\ new = {} => Conserved(M)
         /\ ~ Somewhere(M) /\ Lone(new) => Unique(M)'
<1> DEFINE new == Hits(ms, Carrying(b, M))
<1>1. /\ At(b, M)' # {} => At(b, M) # {} \/ new # {}
      /\ Lone(At(b, M)) /\ new = {} => Lone(At(b, M)')
      /\ At(b, M) = {} /\ Lone(new) => Lone(At(b, M)')
  BY DEF Gains, Blend, At, Carrying, Forwarding, Replying
<1>2. ASSUME NEW x \in Place, x # b
      PROVE  /\ At(x, M)' # {} => At(x, M) # {}
             /\ Lone(At(x, M)) => Lone(At(x, M)')
  <2>1. Steady(x)
    BY <1>2
  <2> QED BY <2>1, EmptyHits DEF Steady, Blend, At, Carrying, Forwarding, Replying
<1> HIDE DEF new
<1>3. Somewhere(M)' => Somewhere(M) \/ new # {}
  BY <1>1, <1>2 DEF Somewhere
<1>4. ASSUME new = {}, Unique(M) PROVE Unique(M)'
  <2>1. \A x \in Place : /\ Lone(At(x, M)')
                         /\ At(x, M)' # {} => At(x, M) # {}
    BY <1>1, <1>2, <1>4 DEF Unique, Lone
  <2>2. \A x, y \in Place : At(x, M)' # {} /\ At(y, M)' # {} => x = y
    BY <2>1, <1>4 DEF Unique
  <2> QED BY <2>1, <2>2 DEF Unique, Lone
<1>5. ASSUME ~ Somewhere(M), Lone(new) PROVE Unique(M)'
  <2>1. \A x \in Place : x # b => At(x, M)' = {}
    BY <1>2, <1>5 DEF Somewhere
  <2>2. Lone(At(b, M)')
    BY <1>1, <1>5 DEF Somewhere
  <2> QED BY <2>1, <2>2 DEF Unique, Lone
<1> QED BY <1>3, <1>4, <1>5 DEF Conserved, new

LEMMA Conserve ==
  ASSUME NEW M, \A x \in Place : Steady(x)
  PROVE  Conserved(M)
<1>1. \A x \in Place : /\ At(x, M)' # {} => At(x, M) # {}
                       /\ Lone(At(x, M)) => Lone(At(x, M)')
  BY EmptyHits DEF Steady, Blend, At, Carrying, Forwarding, Replying
<1>2. Somewhere(M)' => Somewhere(M)
  BY <1>1 DEF Somewhere
<1>3. ASSUME Unique(M) PROVE Unique(M)'
  <2>1. \A x \in Place : Lone(At(x, M)')
    BY <1>1, <1>3 DEF Unique, Lone
  <2>2. \A x, y \in Place : At(x, M)' # {} /\ At(y, M)' # {} => x = y
    BY <1>1, <1>3 DEF Unique
  <2> QED BY <2>1, <2>2 DEF Unique, Lone
<1> QED BY <1>2, <1>3 DEF Conserved

\* A message of M leaves the place a, and the place b gains the entries of ms:
\* were there no other message of M, what is in ms is all there is of it.
LEMMA Move ==
  ASSUME NEW M, NEW a \in Place, NEW b \in Place, a # b, NEW e, NEW ms,
         Loses(a, e), e \in Carrying(a, M), Gains(b, ms),
         \A x \in Place : x \notin {a, b} => Steady(x)
  PROVE  /\ Somewhere(M)
         /\ Unique(M) /\ Lone(Hits(ms, Carrying(b, M))) => Unique(M)'
         /\ \A N \in SUBSET M :
              Unique(M) /\ Hits(ms, Carrying(b, N)) = {} => ~ Somewhere(N)'
<1>1. At(a, M) # {} /\ (Lone(At(a, M)) => At(a, M)' = {})
  BY DEF Loses, Drop, At, Carrying, Forwarding, Replying
<1>2. ASSUME Unique(M) PROVE \A x \in Place : x # b => At(x, M)' = {}
  <2>1. \A x \in Place : x # a => At(x, M) = {}
    BY <1>1, <1>2 DEF Unique
  <2>2. Lone(At(a, M))
    BY <1>2 DEF Unique, Lone
  <2>3. ASSUME NEW x \in Place, x \notin {a, b} PROVE At(x, M)' = {}
    <3>1. Steady(x) /\ At(x, M) = {}
      BY <2>1, <2>3
    <3> QED BY <3>1, EmptyHits DEF Steady, Blend, At, Carrying, Forwarding, Replying
  <2> QED BY <1>1, <2>2, <2>3
<1>3. ASSUME Unique(M) PROVE At(b, M) = {}
  BY <1>1, <1>3 DEF Unique
<1>4. Somewhere(M)
  BY <1>1 DEF Somewhere
<1>5. ASSUME Unique(M), Lone(Hits(ms, Carrying(b, M))) PROVE Unique(M)'
  <2>1. Lone(At(b, M)')
    BY <1>3, <1>5 DEF Gains, Blend, At, Carrying, Forwarding, Replying
  <2> QED BY <1>2, <1>5, <2>1 DEF Unique, Lone
<1>6. ASSUME NEW N \in SUBSET M, Unique(M), Hits(ms, Carrying(b, N)) = {}
      PROVE  ~ Somewhere(N)'
  <2>1. ASSUME NEW x \in Place PROVE At(x, N) \subseteq At(x, M)
    BY DEF At, Hits, Carrying, Forwarding, Replying
  <2>2. At(b, N) = {}
    BY <1>3, <1>6, <2>1
  <2>3. At(b, N)' = {}
    BY <1>6, <2>2 DEF Gains, Blend, At, Carrying, Forwarding, Replying
  <2>4. ASSUME NEW x \in Place PROVE At(x, N)' \subseteq At(x, M)'
    BY DEF At, Hits, Carrying, Forwarding, Replying
  <2>5. \A x \in Place : x # b => At(x, N)' = {}
    BY <1>2, <1>6, <2>4
  <2> QED BY <2>3, <2>5 DEF Somewhere
<1> QED BY <1>4, <1>5, <1>6

-----------------------------------------------------------------------------
(* How each step of the service moves messages                             *)

\* The messages ms may enter: nothing of M appears that is not among them, and
\* if none was there, what is Lone in ms is unique afterwards.
Arrival(ms, M) ==
  /\ Somewhere(M)' => Somewhere(M) \/ Hits(ms, M) # {}
  /\ Hits(ms, M) = {} => Conserved(M)
  /\ ~ Somewhere(M) /\ Lone(Hits(ms, M)) => Unique(M)'

\* The messages ms take the place of m.
Handover(m, ms, M) ==
  /\ Arrival(ms, M)
  /\ m \in M =>
       /\ Somewhere(M)
       /\ Unique(M) /\ Lone(Hits(ms, M)) => Unique(M)'
       /\ \A N \in SUBSET M : Unique(M) /\ Hits(ms, N) = {} => ~ Somewhere(N)'

LEMMA HitsOne ==
  ASSUME NEW x, NEW S
  PROVE  /\ Lone(Hits(<<x>>, S))
         /\ Hits(<<x>>, S) # {} <=> x \in S
<1>1. DOMAIN <<x>> = {1} /\ <<x>>[1] = x
  OBVIOUS
<1>2. Hits(<<x>>, S) \subseteq {1}
  BY <1>1 DEF Hits
<1>3. 1 \in Hits(<<x>>, S) <=> x \in S
  BY <1>1 DEF Hits
<1> QED BY <1>2, <1>3 DEF Lone

LEMMA HitsLast ==
  ASSUME NEW A, NEW a \in Seq(A), NEW x \in A, NEW S
  PROVE  Hits(a \o <<x>>, S) # {} <=> Hits(a, S) # {} \/ x \in S
<1> DEFINE b == <<x>>
<1>1. b \in Seq(A) /\ (Hits(b, S) # {} <=> x \in S)
  BY HitsOne
<1> HIDE DEF b
<1>2. Hits(a \o b, S) # {} <=> Hits(a, S) # {} \/ Hits(b, S) # {}
  BY <1>1, ConcatHits
<1> QED BY <1>1, <1>2 DEF b

LEMMA HitsForwards ==
  ASSUME NEW ms \in Seq(Message), NEW M
  PROVE  Hits(Forwards(ms), Forwarding(M)) = Hits(ms, M)
<1> DEFINE fs == Forwards(ms)
<1>1. /\ DOMAIN fs = DOMAIN ms
      /\ \A i \in DOMAIN ms : /\ fs[i].type = "forward" /\ fs[i].message = ms[i]
                              /\ fs[i] \in Request
  BY DEF Forwards, Request
<1> HIDE DEF fs
<1>2. Hits(fs, Forwarding(M)) = Hits(ms, M)
  BY <1>1 DEF Hits, Forwarding
<1> QED BY <1>2 DEF fs

\* Places other than b keep what they have or lose some of it.
LEMMA SteadyPlaces ==
  ASSUME NEW B,
         \A p \in Procs : <<"sent", p>> \in B \/ Blend(toBroker'[p], toBroker[p], <<>>),
         \A q \in QueueName : <<"queued", q>> \in B \/ Blend(queue'[q], queue[q], <<>>),
         \A w \in Workers : <<"replied", w>> \in B \/ Blend(toWorker'[w], toWorker[w], <<>>),
         \A w \in Workers : <<"held", w>> \in B \/ Blend(hand'[w], hand[w], <<>>)
  PROVE  \A x \in Place : x \notin B => Steady(x)
<1> SUFFICES ASSUME NEW x \in Place, x \notin B PROVE Steady(x)
  OBVIOUS
<1>1. CASE \E p \in Procs : x = <<"sent", p>>
  BY <1>1, Places DEF Steady, Content
<1>2. CASE \E q \in QueueName : x = <<"queued", q>>
  BY <1>2, Places DEF Steady, Content
<1>3. CASE \E w \in Workers : x = <<"replied", w>>
  BY <1>3, Places DEF Steady, Content
<1>4. CASE \E w \in Workers : x = <<"held", w>>
  BY <1>4, Places DEF Steady, Content
<1> QED BY <1>1, <1>2, <1>3, <1>4, PlaceCases

LEMMA NothingMoves ==
  ASSUME \A p \in Procs : Blend(toBroker'[p], toBroker[p], <<>>),
         \A q \in QueueName : Blend(queue'[q], queue[q], <<>>),
         \A w \in Workers : Blend(toWorker'[w], toWorker[w], <<>>),
         \A w \in Workers : Blend(hand'[w], hand[w], <<>>),
         NEW M
  PROVE  Conserved(M)
<1> DEFINE B == {}
<1>1. \A x : x \notin B
  OBVIOUS
<1> HIDE DEF B
<1>2. \A x \in Place : x \notin B => Steady(x)
  BY SteadyPlaces
<1> QED BY <1>1, <1>2, Conserve

\* A worker that returns ms has let go of the message it held.
LEMMA ReturnFlow ==
  ASSUME TypeInv, NEW w \in Workers, hand[w] # <<>>,
         NEW ms \in Seq(Message), Return(w, ms), NEW M
  PROVE  Handover(Head(hand[w]), ms, M)
<1> USE DEF TypeInv, TypeOK
<1> DEFINE a == <<"held", w>>
           b == <<"sent", w>>
           m == Head(hand[w])
<1>1. w \in Procs /\ a \in Place /\ b \in Place /\ a # b
  BY Places DEF Procs
<1>2. PICK n \in 0 .. Len(ms) :
             toBroker' = [toBroker EXCEPT ![w] = @ \o Forwards(SubSeq(ms, 1, n))]
  <2>1. CASE toBroker' = [toBroker EXCEPT ![w] = @ \o Forwards(ms)]
    <3>1. SubSeq(ms, 1, Len(ms)) = ms /\ Len(ms) \in 0 .. Len(ms)
      BY SubSeqFull, LenProperties
    <3> QED BY <2>1, <3>1
  <2>2. CASE \E k \in 0 .. Len(ms) - 1 :
               toBroker' = [toBroker EXCEPT ![w] = @ \o Forwards(SubSeq(ms, 1, k))]
    <3>1. Len(ms) \in Nat
      BY LenProperties
    <3>2. 0 .. Len(ms) - 1 \subseteq 0 .. Len(ms)
      BY <3>1
    <3> QED BY <2>2, <3>2
  <2> QED BY <2>1, <2>2 DEF Return
<1> DEFINE part == SubSeq(ms, 1, n)
<1>3. part \in Seq(Message) /\ Blend(part, ms, <<>>)
  <2>1. part \in Seq(Message)
    BY SubSeqProperties, LenProperties, ElementOfSeq
  <2> QED BY <2>1, BlendPrefix
<1> HIDE DEF part
<1>4. \A N : /\ Hits(Forwards(part), Carrying(b, N)) = Hits(part, N)
             /\ Carrying(a, N) = N
  BY <1>3, HitsForwards, Carries
<1>5. \A N : /\ Hits(part, N) # {} => Hits(ms, N) # {}
             /\ Lone(Hits(ms, N)) => Lone(Hits(part, N))
  BY <1>3, EmptyHits DEF Blend
<1>6. Gains(b, Forwards(part))
  <2>1. /\ Content(b) = toBroker[w] /\ toBroker[w] \in Seq(Request)
        /\ Content(b)' = toBroker[w] \o Forwards(part)
    BY <1>1, <1>2, Places DEF Content, part
  <2>2. Forwards(part) \in Seq(Request)
    BY <1>3, ForwardsType
  <2> QED BY <2>1, <2>2, BlendConcat DEF Gains
<1>7. Loses(a, m)
  <2>1. Content(a) = hand[w] /\ Content(a)' = <<>> /\ hand[w] \in Seq(Work)
    BY <1>1, Places DEF Content, Return
  <2> QED BY <2>1, DropAll DEF Loses
<1>8. \A x \in Place : x \notin {a, b} => Steady(x)
  <2>1. \A p \in Procs : <<"sent", p>> \in {a, b} \/ Blend(toBroker'[p], toBroker[p], <<>>)
    BY <1>1, <1>2, BlendSame
  <2>2. \A q \in QueueName : Blend(queue'[q], queue[q], <<>>)
    BY BlendSame DEF Return, broker
  <2>3. \A v \in Workers : Blend(toWorker'[v], toWorker[v], <<>>)
    BY BlendSame DEF Return
  <2>4. \A v \in Workers : <<"held", v>> \in {a, b} \/ Blend(hand'[v], hand[v], <<>>)
    BY BlendSame DEF Return
  <2> HIDE DEF a, b
  <2> QED BY <2>1, <2>2, <2>3, <2>4, SteadyPlaces
<1>9. \A x \in Place : x # b => Steady(x)
  BY <1>7, <1>8 DEF Loses, Drop, Steady
<1> HIDE DEF a, b, m
<1>10. Arrival(ms, M)
  BY <1>1, <1>4, <1>5, <1>6, <1>9, Enter DEF Arrival
<1>11. ASSUME m \in M
       PROVE  /\ Somewhere(M)
              /\ Unique(M) /\ Lone(Hits(ms, M)) => Unique(M)'
              /\ \A N \in SUBSET M : Unique(M) /\ Hits(ms, N) = {} => ~ Somewhere(N)'
  <2>1. /\ Somewhere(M)
        /\ Unique(M) /\ Lone(Hits(part, M)) => Unique(M)'
        /\ \A N \in SUBSET M : Unique(M) /\ Hits(part, N) = {} => ~ Somewhere(N)'
    <3>1. m \in Carrying(a, M)
      BY <1>4, <1>11
    <3>2. /\ Somewhere(M)
          /\ Unique(M) /\ Lone(Hits(Forwards(part), Carrying(b, M))) => Unique(M)'
          /\ \A N \in SUBSET M : Unique(M) /\ Hits(Forwards(part), Carrying(b, N)) = {}
                                 => ~ Somewhere(N)'
      BY <1>1, <1>6, <1>7, <1>8, <3>1, Move
    <3> QED BY <1>4, <3>2
  <2> QED BY <1>5, <2>1
<1> QED BY <1>10, <1>11 DEF Handover, m

\* A reader that claims a task sends its tune_kernel message, at most once.
LEMMA FetchFlow ==
  ASSUME TypeInv, NEW r \in Readers, NEW t \in Tasks,
         FetchTask(r, t) \/ DieFetching(r, t), NEW M
  PROVE  Arrival(<<StageMsg("tune_kernel", t)>>, M)
<1> USE DEF TypeInv, TypeOK
<1> DEFINE b == <<"sent", r>>
           m == StageMsg("tune_kernel", t)
<1>1. r \in Procs /\ b \in Place
  BY Places DEF Procs
<1>2. PICK n \in 0 .. 2 :
             toBroker' = [toBroker EXCEPT ![r] = @ \o SubSeq(Submission(t), 1, n)]
  <2>1. CASE FetchTask(r, t)
    <3>1. SubSeq(Submission(t), 1, 2) = Submission(t)
      <4>1. Submission(t) \in Seq(Request) /\ Len(Submission(t)) = 2
        BY SubmissionType DEF Submission
      <4> QED BY <4>1, SubSeqFull
    <3>2. toBroker' = [toBroker EXCEPT ![r] = @ \o Submission(t)]
      BY <2>1 DEF FetchTask
    <3>3. 2 \in 0 .. 2
      OBVIOUS
    <3> QED BY <3>1, <3>2, <3>3
  <2>2. CASE DieFetching(r, t)
    <3>1. \E k \in 0 .. 1 :
            toBroker' = [toBroker EXCEPT ![r] = @ \o SubSeq(Submission(t), 1, k)]
      BY <2>2 DEF DieFetching
    <3>2. 0 .. 1 \subseteq 0 .. 2
      OBVIOUS
    <3> QED BY <3>1, <3>2
  <2> QED BY <2>1, <2>2
<1> DEFINE part == SubSeq(Submission(t), 1, n)
<1>3. part \in Seq(Request) /\ Blend(part, Submission(t), <<>>)
  <2>1. Submission(t) \in Seq(Request) /\ n \in 0 .. Len(Submission(t))
    BY SubmissionType DEF Submission
  <2>2. part \in Seq(Request)
    BY <2>1, SubSeqProperties, LenProperties, ElementOfSeq
  <2> QED BY <2>1, <2>2, BlendPrefix
<1> HIDE DEF part
<1>4. Gains(b, part)
  <2>1. /\ Content(b) = toBroker[r] /\ toBroker[r] \in Seq(Request)
        /\ Content(b)' = toBroker[r] \o part
    BY <1>1, <1>2, Places DEF Content, part
  <2> QED BY <1>3, <2>1, BlendConcat DEF Gains
<1>5. \A x \in Place : x # b => Steady(x)
  <2>1. \A p \in Procs : <<"sent", p>> \in {b} \/ Blend(toBroker'[p], toBroker[p], <<>>)
    BY <1>1, <1>2, BlendSame
  <2>2. \A q \in QueueName : Blend(queue'[q], queue[q], <<>>)
    BY BlendSame DEF FetchTask, DieFetching, broker
  <2>3. \A v \in Workers : Blend(toWorker'[v], toWorker[v], <<>>)
    BY BlendSame DEF FetchTask, DieFetching
  <2>4. \A v \in Workers : Blend(hand'[v], hand[v], <<>>)
    BY BlendSame DEF FetchTask, DieFetching, worker
  <2> HIDE DEF b
  <2>5. \A x \in Place : x \notin {b} => Steady(x)
    BY <2>1, <2>2, <2>3, <2>4, SteadyPlaces
  <2> QED BY <2>5
<1>6. /\ Hits(part, Forwarding(M)) # {} => m \in M
      /\ Lone(Hits(part, Forwarding(M)))
  <2> DEFINE s == Submission(t)
  <2>1. DOMAIN s = {1, 2} /\ s[1].type = "register_ack" /\ s[2].type = "forward" /\ s[2].message = m
    BY DEF Submission
  <2> HIDE DEF s, m
  <2>2. Hits(s, Forwarding(M)) \subseteq {2} /\ (Hits(s, Forwarding(M)) # {} => m \in M)
    BY <2>1 DEF Hits, Forwarding
  <2>3. /\ Hits(part, Forwarding(M)) # {} => Hits(s, Forwarding(M)) # {}
        /\ Lone(Hits(s, Forwarding(M))) => Lone(Hits(part, Forwarding(M)))
    BY <1>3, EmptyHits DEF Blend, s
  <2> QED BY <2>2, <2>3 DEF Lone
<1>7. Carrying(b, M) = Forwarding(M)
  BY Carries
<1> HIDE DEF b, m
<1> QED BY <1>1, <1>4, <1>5, <1>6, <1>7, HitsOne, Enter DEF Arrival, m

\* A worker takes a message out of a reply, or drops what it held.
LEMMA WorkerFlow ==
  ASSUME TypeInv, NEW w \in Workers, GetTask(w) \/ ReceiveReply(w) \/ HandlerRaises(w), NEW M
  PROVE  Conserved(M)
<1> USE DEF TypeInv, TypeOK
<1>1. w \in Procs
  BY DEF Procs
<1>2. CASE GetTask(w)
  <2> DEFINE b == <<"sent", w>>
             ms == <<[type |-> "get_task"]>>
  <2>1. b \in Place /\ Carrying(b, M) = Forwarding(M)
    BY <1>1, Places, Carries
  <2>2. Gains(b, ms)
    <3>1. /\ Content(b) = toBroker[w] /\ toBroker[w] \in Seq(Request)
          /\ Content(b)' = toBroker[w] \o ms /\ ms \in Seq(Request)
      BY <1>1, <1>2, Places DEF Content, GetTask, Request
    <3> QED BY <3>1, BlendConcat DEF Gains
  <2>3. \A x \in Place : x \notin {b} => Steady(x)
    <3>1. \A p \in Procs : <<"sent", p>> \in {b} \/ Blend(toBroker'[p], toBroker[p], <<>>)
      BY <1>2, BlendSame DEF GetTask
    <3>2. \A q \in QueueName : Blend(queue'[q], queue[q], <<>>)
      BY <1>2, BlendSame DEF GetTask, broker
    <3>3. \A v \in Workers : Blend(toWorker'[v], toWorker[v], <<>>)
      BY <1>2, BlendSame DEF GetTask
    <3>4. \A v \in Workers : Blend(hand'[v], hand[v], <<>>)
      BY <1>2, BlendSame DEF GetTask
    <3> HIDE DEF b
    <3> QED BY <3>1, <3>2, <3>3, <3>4, SteadyPlaces
  <2>4. Hits(ms, Forwarding(M)) = {}
    <3>1. ~ [type |-> "get_task"] \in Forwarding(M)
      BY DEF Forwarding
    <3> HIDE DEF TypeInv, TypeOK
    <3> QED BY <3>1, HitsOne
  <2> HIDE DEF b, ms
  <2> QED BY <2>1, <2>2, <2>3, <2>4, Enter
<1>3. CASE HandlerRaises(w)
  <2>1. \A p \in Procs : Blend(toBroker'[p], toBroker[p], <<>>)
    BY <1>3, BlendSame DEF HandlerRaises
  <2>2. \A q \in QueueName : Blend(queue'[q], queue[q], <<>>)
    BY <1>3, BlendSame DEF HandlerRaises, broker
  <2>3. \A v \in Workers : Blend(toWorker'[v], toWorker[v], <<>>)
    BY <1>3, BlendSame DEF HandlerRaises
  <2>4. \A v \in Workers : Blend(hand'[v], hand[v], <<>>)
    BY <1>3, BlendSame, BlendEmpty DEF HandlerRaises
  <2> QED BY <2>1, <2>2, <2>3, <2>4, NothingMoves
<1>4. CASE ReceiveReply(w)
  <2> DEFINE a == <<"replied", w>>
             b == <<"held", w>>
             e == Head(toWorker[w])
  <2>1. /\ a \in Place /\ b \in Place /\ a # b /\ Carrying(a, M) = Replying(M)
        /\ Carrying(b, M) = M
    BY Places, Carries
  <2>2. e \in Response /\ toWorker[w] \in Seq(Response) /\ toWorker[w] # <<>>
    BY <1>1, <1>4 DEF ReceiveReply
  <2>3. Loses(a, e)
    <3>1. Content(a) = toWorker[w] /\ Content(a)' = Tail(toWorker[w])
      BY <1>1, <1>4, Places DEF Content, ReceiveReply
    <3> QED BY <2>2, <3>1, DropHead DEF Loses
  <2>4. Content(b)' = hand'[w]
    BY DEF Content
  <2>5. Gains(b, hand'[w])
    BY <2>4, BlendSame DEF Gains
  <2>6. \A x \in Place : x \notin {a, b} => Steady(x)
    <3>1. \A p \in Procs : Blend(toBroker'[p], toBroker[p], <<>>)
      BY <1>4, BlendSame DEF ReceiveReply
    <3>2. \A q \in QueueName : Blend(queue'[q], queue[q], <<>>)
      BY <1>4, BlendSame DEF ReceiveReply, broker
    <3>3. \A v \in Workers : <<"replied", v>> \in {a, b} \/ Blend(toWorker'[v], toWorker[v], <<>>)
      BY <1>4, BlendSame DEF ReceiveReply
    <3>4. \A v \in Workers : <<"held", v>> \in {a, b} \/ Blend(hand'[v], hand[v], <<>>)
      BY <1>4, BlendSame DEF ReceiveReply
    <3> HIDE DEF a, b
    <3> QED BY <3>1, <3>2, <3>3, <3>4, SteadyPlaces
  <2>7. \A x \in Place : x # b => Steady(x)
    BY <2>3, <2>6 DEF Loses, Drop, Steady
  <2>8. hand'[w] = IF e.type = "task" THEN <<e.message>> ELSE <<>>
    BY <1>4 DEF ReceiveReply
  <2>9. Hits(hand'[w], M) # {} => e \in Replying(M)
    BY <2>2, <2>8, HitsOne, EmptyHits DEF Replying
  <2>10. Lone(Hits(hand'[w], M))
    BY <2>8, HitsOne, EmptyHits DEF Lone
  <2> HIDE DEF a, b, e
  <2>11. CASE Hits(hand'[w], M) = {}
    BY <2>1, <2>5, <2>7, <2>11, Enter
  <2>12. CASE Hits(hand'[w], M) # {}
    <3>1. Somewhere(M) /\ (Unique(M) => Unique(M)')
      BY <2>1, <2>3, <2>5, <2>6, <2>9, <2>10, <2>12, Move
    <3> QED BY <3>1 DEF Conserved
  <2> QED BY <2>11, <2>12
<1> QED BY <1>2, <1>3, <1>4

\* The broker takes a forwarded message off its connection and enters ms into
\* one queue.
LEMMA ForwardFlow ==
  ASSUME TypeInv, NEW p \in Procs, Serve(p, "forward"), NEW q \in QueueName, NEW ms,
         Blend(queue'[q], queue[q], ms),
         \A o \in QueueName : o # q => queue'[o] = queue[o],
         \A w \in Workers : toWorker'[w] = toWorker[w],
         NEW M
  PROVE  Handover(Forwarded(p), ms, M)
<1> USE DEF TypeInv, TypeOK
<1> DEFINE a == <<"sent", p>>
           b == <<"queued", q>>
           e == Head(toBroker[p])
           m == Forwarded(p)
<1>1. a \in Place /\ b \in Place /\ a # b
  BY Places
<1>2. \A N : Carrying(a, N) = Forwarding(N) /\ Carrying(b, N) = N
  BY Carries
<1>3. /\ toBroker[p] \in Seq(Request) /\ toBroker[p] # <<>> /\ e \in Request
      /\ e.type = "forward" /\ m = e.message
      /\ toBroker' = [toBroker EXCEPT ![p] = Tail(@)]
  BY DEF Serve, Forwarded
<1>4. Loses(a, e)
  <2>1. Content(a) = toBroker[p] /\ Content(a)' = Tail(toBroker[p])
    BY <1>3, Places DEF Content
  <2> QED BY <1>3, <2>1, DropHead DEF Loses
<1>5. Gains(b, ms)
  <2>1. Content(b) = queue[q] /\ Content(b)' = queue'[q]
    BY Places DEF Content
  <2> QED BY <2>1 DEF Gains
<1>6. \A x \in Place : x \notin {a, b} => Steady(x)
  <2>1. \A s \in Procs : <<"sent", s>> \in {a, b} \/ Blend(toBroker'[s], toBroker[s], <<>>)
    BY <1>3, BlendSame
  <2>2. \A o \in QueueName : <<"queued", o>> \in {a, b} \/ Blend(queue'[o], queue[o], <<>>)
    BY BlendSame
  <2>3. \A v \in Workers : Blend(toWorker'[v], toWorker[v], <<>>)
    BY BlendSame
  <2>4. \A v \in Workers : Blend(hand'[v], hand[v], <<>>)
    BY BlendSame DEF Serve, worker
  <2> HIDE DEF a, b
  <2> QED BY <2>1, <2>2, <2>3, <2>4, SteadyPlaces
<1>7. \A x \in Place : x # b => Steady(x)
  BY <1>4, <1>6 DEF Loses, Drop, Steady
<1>8. m \in M => e \in Carrying(a, M)
  <2>1. Carrying(a, M) = Forwarding(M)
    BY <1>2
  <2>2. m \in M => e \in Forwarding(M)
    BY <1>3 DEF Forwarding
  <2> QED BY <2>1, <2>2
<1> HIDE DEF a, b, e, m
<1>9. Arrival(ms, M)
  BY <1>1, <1>5, <1>7, <1>2, Enter DEF Arrival
<1>10. ASSUME m \in M
      PROVE  /\ Somewhere(M)
             /\ Unique(M) /\ Lone(Hits(ms, M)) => Unique(M)'
             /\ \A N \in SUBSET M : Unique(M) /\ Hits(ms, N) = {} => ~ Somewhere(N)'
  <2>1. /\ Somewhere(M)
        /\ Unique(M) /\ Lone(Hits(ms, Carrying(b, M))) => Unique(M)'
        /\ \A N \in SUBSET M : Unique(M) /\ Hits(ms, Carrying(b, N)) = {} => ~ Somewhere(N)'
    <3>1. e \in Carrying(a, M)
      BY <1>8, <1>10
    <3> QED BY <1>1, <1>4, <1>5, <1>6, <3>1, Move
  <2> QED BY <1>2, <2>1
<1> QED BY <1>9, <1>10 DEF Handover, m

\* A message that is replaced by itself stays what it is.
LEMMA SameMessage ==
  ASSUME NEW m, NEW M, Handover(m, <<m>>, M)
  PROVE  Conserved(M)
  BY HitsOne DEF Handover, Arrival, Conserved

LEMMA GetTaskFlow ==
  ASSUME TypeInv, NEW w \in Workers, HandleGetTask(w), NEW M
  PROVE  Conserved(M)
<1> USE DEF TypeInv, TypeOK
<1> DEFINE q == QueueOf(w)
           a == <<"queued", q>>
           b == <<"replied", w>>
           m == Head(queue[q])
           reply == [type |-> "task", message |-> m]
<1>1. q \in QueueName /\ w \in Procs
  BY DEF QueueOf, QueueName, Procs
<1>2. /\ a \in Place /\ b \in Place /\ a # b
      /\ Carrying(a, M) = M /\ Carrying(b, M) = Replying(M)
  BY <1>1, Places, Carries
<1>3. \A s \in Procs : Blend(toBroker'[s], toBroker[s], <<>>)
  <2>1. /\ toBroker[w] \in Seq(Request) /\ toBroker[w] # <<>>
        /\ toBroker' = [toBroker EXCEPT ![w] = Tail(@)]
    BY <1>1 DEF HandleGetTask, Serve
  <2>2. Blend(Tail(toBroker[w]), toBroker[w], <<>>)
    BY <2>1, DropHead DEF Drop
  <2> QED BY <1>1, <2>1, <2>2, BlendSame
<1>4. \A v \in Workers : Blend(hand'[v], hand[v], <<>>)
  BY BlendSame DEF HandleGetTask, Serve, worker
<1>5. toWorker[w] \in Seq(Response)
  BY <1>1
<1>6. CASE queue[q] = <<>>
  <2> DEFINE no == <<[type |-> "no_task"]>>
  <2>1. toWorker' = [toWorker EXCEPT ![w] = toWorker[w] \o no] /\ queue' = queue
    <3>1. Append(toWorker[w], no[1]) = toWorker[w] \o no
      BY <1>5, AppendIsConcat DEF Response
    <3>2. toWorker' = [toWorker EXCEPT ![w] = Append(@, no[1])] /\ queue' = queue
      BY <1>6 DEF HandleGetTask
    <3> QED BY <3>1, <3>2
  <2>2. no \in Seq(Response) /\ Hits(no, Replying(M)) = {}
    BY HitsOne DEF Response, Replying
  <2>3. Gains(b, no)
    <3>1. Content(b) = toWorker[w] /\ Content(b)' = toWorker[w] \o no
      BY <1>1, <2>1, Places DEF Content
    <3>2. no \in Seq(Response)
      BY <2>2
    <3> HIDE DEF b, no
    <3>3. Blend(toWorker[w] \o no, toWorker[w], no)
      BY <1>5, <3>2, BlendConcat
    <3> QED BY <3>1, <3>3 DEF Gains
  <2> HIDE DEF no
  <2>4. \A x \in Place : x \notin {b} => Steady(x)
    <3>1. \A o \in QueueName : Blend(queue'[o], queue[o], <<>>)
      BY <2>1, BlendSame
    <3>2. \A v \in Workers : <<"replied", v>> \in {b} \/ Blend(toWorker'[v], toWorker[v], <<>>)
      BY <2>1, BlendSame
    <3> HIDE DEF b
    <3> QED BY <1>3, <1>4, <3>1, <3>2, SteadyPlaces
  <2> HIDE DEF b
  <2> QED BY <1>2, <2>2, <2>3, <2>4, Enter
<1>7. CASE queue[q] # <<>>
  <2>1. m \in Work /\ queue[q] \in Seq(Work)
    BY <1>1, <1>7
  <2>2. reply \in Response /\ (reply \in Replying(M) <=> m \in M)
    BY <2>1 DEF Response, Replying
  <2>3. /\ toWorker' = [toWorker EXCEPT ![w] = toWorker[w] \o <<reply>>]
        /\ queue' = [queue EXCEPT ![q] = Tail(@)]
    <3>1. /\ toWorker' = [toWorker EXCEPT ![w] = Append(@, reply)]
          /\ queue' = [queue EXCEPT ![q] = Tail(@)]
      BY <1>7 DEF HandleGetTask
    <3>2. reply \in Response
      BY <2>2
    <3> HIDE DEF reply
    <3>3. Append(toWorker[w], reply) = Joined(toWorker[w], <<reply>>)
      BY <1>5, <3>2, AppendJoins
    <3> QED BY <3>1, <3>3 DEF Joined
  <2>4. Gains(b, <<reply>>)
    <3>1. Content(b) = toWorker[w] /\ Content(b)' = toWorker[w] \o <<reply>>
      BY <1>1, <2>3, Places DEF Content
    <3>2. <<reply>> \in Seq(Response)
      BY <2>2
    <3> HIDE DEF b, reply
    <3> QED BY <1>5, <3>1, <3>2, BlendConcat DEF Gains
  <2>5. Loses(a, m)
    <3>1. Content(a) = queue[q] /\ Content(a)' = Tail(queue[q])
      BY <1>1, <2>3, Places DEF Content
    <3> QED BY <1>7, <2>1, <3>1, DropHead DEF Loses
  <2>6. \A x \in Place : x \notin {a, b} => Steady(x)
    <3>1. \A o \in QueueName : <<"queued", o>> \in {a, b} \/ Blend(queue'[o], queue[o], <<>>)
      BY <2>3, BlendSame
    <3>2. \A v \in Workers : <<"replied", v>> \in {a, b} \/ Blend(toWorker'[v], toWorker[v], <<>>)
      BY <2>3, BlendSame
    <3> HIDE DEF a, b
    <3> QED BY <1>3, <1>4, <3>1, <3>2, SteadyPlaces
  <2>7. \A x \in Place : x # b => Steady(x)
    BY <2>5, <2>6 DEF Loses, Drop, Steady
  <2> HIDE DEF a, b, m, reply
  <2>8. CASE m \in M
    <3>1. Somewhere(M) /\ (Unique(M) => Unique(M)')
      BY <1>2, <2>4, <2>5, <2>6, <2>8, HitsOne, Move
    <3> QED BY <3>1 DEF Conserved
  <2>9. CASE m \notin M
    <3>1. Hits(<<reply>>, Carrying(b, M)) = {}
      BY <1>2, <2>2, <2>9, HitsOne
    <3> QED BY <1>2, <2>4, <2>7, <3>1, Enter
  <2> QED BY <2>8, <2>9
<1> QED BY <1>6, <1>7

\* Registrations, connections that close, processes that stop or start again.
LEMMA OtherFlow ==
  ASSUME TypeInv,
         \/ \E r \in Readers : HandleRegisterAck(r) \/ ReceiveAck(r)
         \/ \E r \in Readers, t \in Tasks : FetchRaises(r, t)
         \/ \E p \in Procs : RemoveWorker(p) \/ Stop(p) \/ Restart(p),
         NEW M
  PROVE  Conserved(M)
<1> USE DEF TypeInv, TypeOK
<1>1. \A p \in Procs : Blend(toBroker'[p], toBroker[p], <<>>)
  <2>1. ASSUME NEW r \in Readers, HandleRegisterAck(r)
        PROVE  \A p \in Procs : Blend(toBroker'[p], toBroker[p], <<>>)
    <3>1. /\ r \in Procs /\ toBroker[r] \in Seq(Request) /\ toBroker[r] # <<>>
          /\ toBroker' = [toBroker EXCEPT ![r] = Tail(@)]
      BY <2>1 DEF HandleRegisterAck, Serve, Procs
    <3>2. Blend(Tail(toBroker[r]), toBroker[r], <<>>)
      BY <3>1, DropHead DEF Drop
    <3> QED BY <3>1, <3>2, BlendSame
  <2> QED BY <2>1, BlendSame DEF ReceiveAck, FetchRaises, RemoveWorker, Stop, Restart
<1>2. \A q \in QueueName : Blend(queue'[q], queue[q], <<>>)
  BY BlendSame DEF HandleRegisterAck, ReceiveAck, FetchRaises, RemoveWorker, Stop, Restart, broker
<1>3. \A w \in Workers : Blend(toWorker'[w], toWorker[w], <<>>)
  <2>1. ASSUME NEW r \in Readers, ReceiveAck(r), NEW w \in Workers PROVE toWorker'[w] = toWorker[w]
    BY <2>1, LocalQueueAssumption DEF ReceiveAck, Procs
  <2>2. ASSUME NEW p \in Procs, RemoveWorker(p), NEW w \in Workers
        PROVE  Blend(toWorker'[w], toWorker[w], <<>>)
    BY <2>2, BlendSame, BlendEmpty DEF RemoveWorker, Procs
  <2> QED BY <2>1, <2>2, BlendSame DEF HandleRegisterAck, FetchRaises, Stop, Restart
<1>4. \A w \in Workers : Blend(hand'[w], hand[w], <<>>)
  <2>1. ASSUME NEW p \in Procs, Restart(p), NEW w \in Workers
        PROVE  Blend(hand'[w], hand[w], <<>>)
    <3>1. hand' = hand \/ hand' = [hand EXCEPT ![p] = <<>>]
      BY <2>1 DEF Restart, worker
    <3> QED BY <3>1, BlendSame, BlendEmpty
  <2> QED BY <2>1, BlendSame
          DEF HandleRegisterAck, ReceiveAck, FetchRaises, RemoveWorker, Stop, Serve, worker
<1> QED BY <1>1, <1>2, <1>3, <1>4, NothingMoves

LEMMA ForwardBlockedFlow ==
  ASSUME TypeInv, NEW p \in Procs, ForwardBlocked(p), NEW M
  PROVE  Handover(Forwarded(p), <<>>, M)
<1>1. "cpu_queue" \in QueueName
  BY DEF QueueName
<1>2. Serve(p, "forward") /\ queue' = queue /\ toWorker' = toWorker
  BY DEF ForwardBlocked
<1> QED BY <1>1, <1>2, BlendSame, ForwardFlow

LEMMA ForwardPlainFlow ==
  ASSUME TypeInv, NEW p \in Procs, ForwardPlain(p), NEW M
  PROVE  Conserved(M)
<1> USE DEF TypeInv, TypeOK
<1> DEFINE m == Forwarded(p)
           q == TargetQueue(m)
<1>1. Serve(p, "forward") /\ m \in Message
  BY ServeType, RequestFields DEF ForwardPlain, Forwarded
<1>2. m \in Work
  BY <1>1, MessageFields DEF ForwardPlain
<1>3. q \in QueueName
  BY DEF TargetQueue, QueueName
<1>4. /\ queue' = [queue EXCEPT ![q] = Enqueue(@, m)]
      /\ toWorker' = toWorker
  BY DEF ForwardPlain
<1> HIDE DEF m, q
<1>5. Blend(Enqueue(queue[q], m), queue[q], <<m>>)
  <2>1. queue[q] \in Seq(Work)
    BY <1>3
  <2> QED BY <1>2, <2>1, BlendEnqueue
<1>6. Handover(m, <<m>>, M)
  BY <1>1, <1>3, <1>4, <1>5, ForwardFlow DEF m
<1> QED BY <1>6, SameMessage

LEMMA ForwardAckFlow ==
  ASSUME TypeInv, NEW p \in Procs, ForwardAck(p), NEW M
  PROVE  Conserved(M)
<1>1. "cpu_queue" \in QueueName
  BY DEF QueueName
<1>2. Serve(p, "forward") /\ queue' = queue
  BY DEF ForwardAck
<1>3. \A w \in Workers : toWorker'[w] = toWorker[w]
  <2>1. named \cap Workers = {}
    BY LocalQueueAssumption DEF TypeInv, TypeOK
  <2> QED BY <2>1 DEF ForwardAck, Procs
<1>4. Handover(Forwarded(p), <<>>, M)
  BY <1>1, <1>2, <1>3, BlendSame, ForwardFlow
<1> QED BY <1>4, EmptyHits DEF Handover, Arrival

LEMMA ForwardResultFlow ==
  ASSUME TypeInv, NEW p \in Procs, ForwardResult(p), NEW M
  PROVE  Handover(Forwarded(p), Released(Forwarded(p)) \o <<Forwarded(p)>>, M)
<1> USE DEF TypeInv, TypeOK
<1> DEFINE m    == Forwarded(p)
           q    == queue["cpu_queue"]
           ms   == Released(m)
           four == Priority("postprocess")
           cpu  == Insert(q, ms, four)
           out  == Enqueue(cpu, m)
<1>1. "cpu_queue" \in QueueName /\ q \in Seq(Work)
  BY DEF QueueName
<1>2. Serve(p, "forward") /\ m \in Message
  BY ServeType, RequestFields DEF ForwardResult, Forwarded
<1>3. m \in Work /\ m.task \in Tasks /\ m.impl \in Impls
  BY <1>2, MessageFields DEF ForwardResult
<1>4. ms \in Seq(Work) /\ <<m>> \in Seq(Work)
  BY <1>3, ReleasedType
<1>5. queue' = [queue EXCEPT !["cpu_queue"] = out] /\ toWorker' = toWorker
  BY DEF ForwardResult
<1>6. four \in Int
  BY PriorityType DEF Priority
<1> HIDE DEF m, q, ms, four
<1>7. cpu \in Seq(Work) /\ Blend(cpu, q, ms)
  BY <1>1, <1>4, <1>6, BlendInsert, InsertElements
<1> HIDE DEF cpu
<1>8. Blend(out, cpu, <<m>>)
  BY <1>3, <1>7, BlendEnqueue DEF m
<1> HIDE DEF out
<1>9. Blend(out, q, ms \o <<m>>)
  BY <1>4, <1>7, <1>8, BlendTwice
<1>10. Blend(queue'["cpu_queue"], queue["cpu_queue"], ms \o <<m>>)
  BY <1>1, <1>5, <1>9 DEF q
<1>11. Handover(m, ms \o <<m>>, M)
  BY <1>1, <1>2, <1>5, <1>10, ForwardFlow DEF m
<1> QED BY <1>11 DEF m, ms

-----------------------------------------------------------------------------
(* Kinds of messages                                                       *)

\* The messages that carry t from stage to stage: before its probe has
\* returned, when it is to be postprocessed, and while that is held back.
Opening(t) == { StageMsg(c, t) : c \in Stages \ {"postprocess"} }
Closing(t) == { StageMsg("postprocess", t) }
Waiting(t) == { b \in PostMessage : b.task = t }
Driving(t) == Opening(t) \cup Closing(t) \cup Waiting(t)

\* The benchmark of the implementation i of t, and its result.
Tuning(t, i)    == { ImplMsg(TuneClass, t, i) }
Measuring(t, i) == Tuning(t, i) \cup { ImplMsg(ResultClass, t, i) }

LEMMA Kinds ==
  ASSUME NEW m \in Work \cup Message, NEW t \in Tasks
  PROVE  /\ m \in Opening(t) <=> m.class \in Stages \ {"postprocess"} /\ m.task = t
         /\ m \in Closing(t) \cup Waiting(t) <=> m.class = "postprocess" /\ m.task = t
         /\ m \in Work => m \notin Waiting(t)
         /\ m \in Message => m \notin Closing(t)
         /\ \A i : m \in Tuning(t, i) <=> m.class = TuneClass /\ m.task = t /\ m.impl = i
         /\ \A i : m \in Measuring(t, i) <=>
                     m.class \in {TuneClass, ResultClass} /\ m.task = t /\ m.impl = i
<1>1. \A b \in PostMessage : DOMAIN b = {"class", "task", "probe", "expected", "received"}
  BY DEF PostMessage
<1>2. DOMAIN StageMsg("postprocess", t) = {"class", "task"}
  BY DEF StageMsg
<1>3. StageMsg("postprocess", t) \notin PostMessage
  BY <1>1, <1>2
<1>4. \A x \in [class : Stages, task : Tasks] : x = StageMsg(x.class, x.task)
  BY DEF StageMsg
<1>5. \A x \in ImplMessage : x = ImplMsg(x.class, x.task, x.impl)
  BY DEF ImplMsg, ImplMessage
<1>6. /\ \A x \in PostMessage : x.class = "postprocess"
      /\ \A x \in AckMessage : x.class = "tune_kernel_ack"
      /\ "tune_kernel_ack" \notin Stages
  BY DEF PostMessage, AckMessage, Stages
<1>7. \A x \in ImplMessage : x.class \in {TuneClass, ResultClass}
  BY DEF ImplMessage
<1>8. {TuneClass, ResultClass} \cap (Stages \cup {"tune_kernel_ack"}) = {}
  BY DEF TuneClass, ResultClass, Stages
<1>9. /\ \A c, u : StageMsg(c, u).class = c /\ StageMsg(c, u).task = u
      /\ \A c, u, i : /\ ImplMsg(c, u, i).class = c /\ ImplMsg(c, u, i).task = u
                      /\ ImplMsg(c, u, i).impl = i
  BY DEF StageMsg, ImplMsg
<1>10. /\ m.class \in Stages \ {"postprocess"} => m \in [class : Stages, task : Tasks]
       /\ m.class = "postprocess" => m \in [class : Stages, task : Tasks] \cup PostMessage
       /\ m.class \in {TuneClass, ResultClass} => m \in ImplMessage
  <2>1. m \in [class : Stages, task : Tasks] \cup ImplMessage \cup PostMessage \cup AckMessage
    BY DEF Work, Message
  <2>2. \A x \in [class : Stages, task : Tasks] : x.class \in Stages
    OBVIOUS
  <2>3. "postprocess" \in Stages
    BY DEF Stages
  <2> QED BY <1>6, <1>7, <1>8, <2>1, <2>2, <2>3
<1>11. m \in Opening(t) <=> m.class \in Stages \ {"postprocess"} /\ m.task = t
  BY <1>4, <1>9, <1>10 DEF Opening
<1>12. m \in Closing(t) \cup Waiting(t) <=> m.class = "postprocess" /\ m.task = t
  <2>1. m \in Closing(t) => m.class = "postprocess" /\ m.task = t
    BY <1>9 DEF Closing
  <2>2. m \in Waiting(t) => m.class = "postprocess" /\ m.task = t
    BY <1>6 DEF Waiting
  <2>3. ASSUME m.class = "postprocess", m.task = t PROVE m \in Closing(t) \cup Waiting(t)
    <3>1. CASE m \in PostMessage
      BY <2>3, <3>1 DEF Waiting
    <3>2. CASE m \in [class : Stages, task : Tasks]
      BY <1>4, <2>3, <3>2 DEF Closing
    <3> QED BY <1>10, <2>3, <3>1, <3>2
  <2> QED BY <2>1, <2>2, <2>3
<1>13. m \in Work => m \notin Waiting(t)
  <2>1. \A x \in Work : x.class = "postprocess" => x = StageMsg("postprocess", x.task)
    BY <1>4, <1>7, <1>8 DEF Work, Stages
  <2> QED BY <1>3, <1>6, <2>1 DEF Waiting
<1>14. m \in Message => m \notin Closing(t)
  <2>1. \A x \in Message : x.class = "postprocess" => x \in PostMessage
    BY MessageFields
  <2> QED BY <1>3, <1>9, <2>1 DEF Closing
<1>15. \A i : m \in Tuning(t, i) <=> m.class = TuneClass /\ m.task = t /\ m.impl = i
  BY <1>5, <1>9, <1>10 DEF Tuning
<1>16. \A i : m \in Measuring(t, i) <=>
               m.class \in {TuneClass, ResultClass} /\ m.task = t /\ m.impl = i
  BY <1>5, <1>9, <1>10 DEF Tuning, Measuring
<1> QED BY <1>11, <1>12, <1>13, <1>14, <1>15, <1>16

\* A probe sends one tune message for each of its implementations, which are
\* different ones, and one postprocess message.
LEMMA FanoutHits ==
  ASSUME TypeInv, NEW t \in Tasks, NEW f \in Fanouts, NEW u \in Tasks
  PROVE  LET ms == Fanout(t, f)
             post == PostMsg(t, Len(fanouts[t]) + 1, ImplSet(f))
         IN
         /\ \A k \in DOMAIN ms : ms[k].task = t
         /\ Hits(ms, Opening(u)) = {} /\ Hits(ms, Closing(u)) = {}
         /\ u # t => Hits(ms, Driving(u)) = {} /\ \A i : Hits(ms, Measuring(u, i)) = {}
         /\ Lone(Hits(ms, Driving(u)))
         /\ \A i : Lone(Hits(ms, Measuring(u, i)))
         /\ \A i : Hits(ms, Tuning(u, i)) # {} => i \in ImplSet(f)
         /\ \A b \in Waiting(u) : Hits(ms, {b}) # {} => b = post
<1> DEFINE n == Len(f)
           ms == Fanout(t, f)
           post == PostMsg(t, Len(fanouts[t]) + 1, ImplSet(f))
<1>1. /\ f \in Seq(Impls) /\ n \in Nat /\ DOMAIN f = 1 .. n
      /\ \A i, j \in DOMAIN f : f[i] = f[j] => i = j
  BY LocalQueueAssumption
<1>2. /\ ms \in Seq(Message) /\ DOMAIN ms = 1 .. n + 1
      /\ \A k \in 1 .. n : ms[k] = ImplMsg(TuneClass, t, f[k])
      /\ ms[n + 1] = post
  <2> DEFINE tm == TuneMsgs(t, f)
  <2>1. ms \in Seq(Message)
    BY FanoutType
  <2>2. ms = Append(tm, post) /\ DOMAIN tm = 1 .. n /\ tm = [k \in 1 .. n |-> ImplMsg(TuneClass, t, f[k])]
    BY <1>1 DEF Fanout, TuneMsgs
  <2>3. tm \in Seq(Message)
    <3>1. \A k \in 1 .. n : ImplMsg(TuneClass, t, f[k]) \in Message
      BY <1>1, MessageTypes
    <3> QED BY <1>1, <2>2, <3>1
  <2>4. Len(tm) = n
    BY <1>1, <2>2, <2>3
  <2> HIDE DEF tm, post
  <2>5. post \in Message
    BY <1>1, <2>1, <2>2, <2>3, <2>4, FanoutType, LenProperties, ElementOfSeq, MessageTypes
       DEF post, TypeInv, TypeOK
  <2> QED BY <1>1, <2>1, <2>2, <2>3, <2>4, <2>5, AppendProperties, LenProperties
<1> HIDE DEF ms, n
<1>3. \A k \in DOMAIN ms : ms[k] \in Message
  BY <1>2, ElementOfSeq, LenProperties
<1>4. \A k \in 1 .. n : /\ ms[k].class = TuneClass /\ ms[k].task = t /\ ms[k].impl = f[k]
                        /\ f[k] \in ImplSet(f)
  <2>1. \A k \in 1 .. n : f[k] \in ImplSet(f)
    BY <1>1 DEF ImplSet
  <2>2. \A c, x, i : /\ ImplMsg(c, x, i).class = c /\ ImplMsg(c, x, i).task = x
                     /\ ImplMsg(c, x, i).impl = i
    BY DEF ImplMsg
  <2> QED BY <1>2, <2>1, <2>2
<1>5. ms[n + 1].class = "postprocess" /\ ms[n + 1].task = t
  BY <1>2 DEF PostMsg
<1>6. \A k \in DOMAIN ms : k \in 1 .. n \/ k = n + 1
  BY <1>1, <1>2
<1>7. TuneClass \notin Stages /\ ResultClass \notin Stages
  BY DEF TuneClass, ResultClass, Stages
<1>8. ASSUME NEW k \in DOMAIN ms
      PROVE  /\ ms[k] \notin Opening(u) /\ ms[k] \notin Closing(u)
             /\ ms[k] \in Waiting(u) => u = t /\ k = n + 1
             /\ \A i : ms[k] \in Measuring(u, i) => u = t /\ k \in 1 .. n /\ f[k] = i
             /\ \A i : ms[k] \in Tuning(u, i) => i \in ImplSet(f)
  <2>1. CASE k \in 1 .. n
    BY <1>3, <1>4, <1>7, <2>1, Kinds DEF Stages
  <2>2. CASE k = n + 1
    BY <1>3, <1>5, <1>7, <2>2, Kinds DEF Stages
  <2> QED BY <1>6, <2>1, <2>2
<1>9. Hits(ms, Opening(u)) = {} /\ Hits(ms, Closing(u)) = {}
  BY <1>8 DEF Hits
<1>10. u # t => Hits(ms, Driving(u)) = {} /\ \A i : Hits(ms, Measuring(u, i)) = {}
  BY <1>8 DEF Hits, Driving
<1>11. Lone(Hits(ms, Driving(u)))
  BY <1>8 DEF Hits, Driving, Lone
<1>12. \A i : Lone(Hits(ms, Measuring(u, i)))
  BY <1>1, <1>8 DEF Hits, Lone
<1>13. \A i : Hits(ms, Tuning(u, i)) # {} => i \in ImplSet(f)
  BY <1>8 DEF Hits
<1>14. \A b \in Waiting(u) : Hits(ms, {b}) # {} => b = post
  BY <1>2, <1>8 DEF Hits
<1>15. \A k \in DOMAIN ms : ms[k].task = t
  BY <1>1, <1>2, <1>4, <1>5
<1> QED BY <1>9, <1>10, <1>11, <1>12, <1>13, <1>14, <1>15 DEF ms

-----------------------------------------------------------------------------
(* What a step is                                                          *)

\* A step that at most loses messages and writes nothing that matters here.
Quiet ==
  /\ \A M : Conserved(M)
  /\ UNCHANGED <<blocked, fanouts, resets>>
  /\ \A t \in Tasks : \/ status'[t] = status[t]
                      \/ status[t] = "pending" /\ status'[t] = "running"
  /\ \/ tmpdirs' = tmpdirs
     \/ \E t \in Tasks : Somewhere(Opening(t)) /\ tmpdirs' = tmpdirs \cup {t}
  /\ stops' = 0 => stops = 0

\* The message a worker handles is somewhere.
LEMMA HeldIsSomewhere ==
  ASSUME TypeInv, NEW w \in Workers, hand[w] # <<>>, NEW M, Head(hand[w]) \in M
  PROVE  Somewhere(M)
<1>1. <<"held", w>> \in Place /\ Content(<<"held", w>>) = hand[w]
      /\ Carrying(<<"held", w>>, M) = M
  BY Places, Carries
<1>2. 1 \in Hits(hand[w], M)
  BY DEF Hits, TypeInv, TypeOK
<1> QED BY <1>1, <1>2 DEF Somewhere, At

\* The handlers move a task on, fan it out, measure for it or finish it.
HandlesTask(w, m, t) ==
  \/ /\ m \in Opening(t)
     /\ UNCHANGED <<status, fanouts>>
     /\ \E c \in Stages \ {"postprocess"} :
          /\ Return(w, <<StageMsg(c, t)>>)
          /\ tmpdirs' = tmpdirs \cup {t} \/ (c # "probe" /\ tmpdirs' = tmpdirs)
  \/ /\ m = StageMsg("probe", t)
     /\ UNCHANGED <<status, tmpdirs>>
     /\ \E f \in Fanouts : /\ fanouts' = [fanouts EXCEPT ![t] = Append(@, ImplSet(f))]
                           /\ Return(w, Fanout(t, f))
  \/ /\ m.class \in {TuneClass, ResultClass}
     /\ UNCHANGED <<status, fanouts, tmpdirs>>
     /\ (Return(w, <<ImplMsg(ResultClass, t, m.impl)>>) \/ Return(w, <<>>))
  \/ /\ m \in Opening(t) \cup Closing(t)
     /\ UNCHANGED fanouts
     /\ \E outcome \in Terminal : status' = [status EXCEPT ![t] = outcome]
     /\ \E sign \in {"ack", "nak"} : Return(w, <<AckMsg(t, sign)>>)
     /\ RemoveTmpdir(t)

LEMMA HandleCases ==
  ASSUME TypeInv, NEW w \in Workers, Handle(w)
  PROVE  LET m == Head(hand[w]) IN
         /\ hand[w] # <<>> /\ m \in Work /\ m.task \in Tasks
         /\ UNCHANGED <<blocked, resets>>
         /\ HandlesTask(w, m, m.task)
<1> DEFINE m == Head(hand[w])
           t == m.task
<1>1. hand[w] # <<>> /\ m \in Work /\ t \in Tasks
  BY HandlingFields DEF Handle, TuneKernel, PreprocessOk, PreprocessFails, ProbeOk, ProbeFails,
     TuneImpl, WriteResult, Postprocess, MarkTaskFailed, Handling
<1>2. UNCHANGED <<blocked, resets>>
  BY DEF Handle, TuneKernel, PreprocessOk, PreprocessFails, ProbeOk, ProbeFails,
     TuneImpl, WriteResult, Postprocess, MarkTaskFailed, Return, broker
<1>3. /\ m.class \in Stages \ {"postprocess"} => m \in Opening(t)
      /\ m.class = "postprocess" => m \in Closing(t)
  BY <1>1, Kinds
<1>4. m.class = "probe" => m = StageMsg("probe", t)
  BY <1>3 DEF Opening, StageMsg, Stages
<1> HIDE DEF m, t
<1>5. ASSUME TuneKernel(w) PROVE HandlesTask(w, m, t)
  <2>1. /\ m.class = "tune_kernel" /\ UNCHANGED <<status, fanouts, tmpdirs>>
        /\ Return(w, <<StageMsg("preprocess", t)>>)
    BY <1>5 DEF TuneKernel, Handling, db, m, t
  <2> QED BY <1>3, <2>1 DEF HandlesTask, Stages
<1>6. ASSUME PreprocessOk(w) PROVE HandlesTask(w, m, t)
  <2>1. /\ m.class = "preprocess" /\ UNCHANGED <<status, fanouts>>
        /\ Return(w, <<StageMsg("probe", t)>>) /\ tmpdirs' = tmpdirs \cup {t}
    BY <1>6 DEF PreprocessOk, Handling, db, m, t
  <2>2. "probe" \in Stages \ {"postprocess"} /\ "preprocess" \in Stages \ {"postprocess"}
    BY DEF Stages
  <2> QED BY <1>3, <2>1, <2>2 DEF HandlesTask
<1>7. ASSUME PreprocessFails(w) PROVE HandlesTask(w, m, t)
  <2>1. /\ m.class = "preprocess" /\ UNCHANGED <<status, fanouts>>
        /\ Return(w, <<StageMsg("mark_task_failed", t)>>)
        /\ tmpdirs' = tmpdirs \cup {t} \/ tmpdirs' = tmpdirs
    BY <1>7 DEF PreprocessFails, Handling, db, m, t
  <2>2. /\ "mark_task_failed" \in Stages \ {"postprocess"} /\ "mark_task_failed" # "probe"
        /\ "preprocess" \in Stages \ {"postprocess"}
    BY DEF Stages
  <2> QED BY <1>3, <2>1, <2>2 DEF HandlesTask
<1>8. ASSUME ProbeFails(w) PROVE HandlesTask(w, m, t)
  <2>1. /\ m.class = "probe" /\ UNCHANGED <<status, fanouts, tmpdirs>>
        /\ Return(w, <<StageMsg("mark_task_failed", t)>>)
    BY <1>8 DEF ProbeFails, Handling, db, m, t
  <2> QED BY <1>3, <2>1 DEF HandlesTask, Stages
<1>9. ASSUME ProbeOk(w) PROVE HandlesTask(w, m, t)
  <2>1. /\ m.class = "probe" /\ UNCHANGED <<status, tmpdirs>>
        /\ \E f \in Fanouts : /\ fanouts' = [fanouts EXCEPT ![t] = Append(@, ImplSet(f))]
                              /\ Return(w, Fanout(t, f))
    BY <1>9 DEF ProbeOk, Handling, db, m, t
  <2> QED BY <1>4, <2>1 DEF HandlesTask
<1>10. ASSUME TuneImpl(w) PROVE HandlesTask(w, m, t)
  <2>1. /\ m.class = TuneClass /\ UNCHANGED <<status, fanouts, tmpdirs>>
        /\ Return(w, <<ImplMsg(ResultClass, t, m.impl)>>)
    BY <1>10 DEF TuneImpl, Handling, db, m, t
  <2> QED BY <2>1 DEF HandlesTask
<1>11. ASSUME WriteResult(w) PROVE HandlesTask(w, m, t)
  <2>1. m.class = ResultClass /\ UNCHANGED <<status, fanouts, tmpdirs>> /\ Return(w, <<>>)
    BY <1>11 DEF WriteResult, Handling, m
  <2> QED BY <2>1 DEF HandlesTask
<1>12. ASSUME Postprocess(w) PROVE HandlesTask(w, m, t)
  <2>1. /\ m.class = "postprocess" /\ UNCHANGED fanouts /\ RemoveTmpdir(t)
        /\ status' = [status EXCEPT ![t] = "completed"] /\ Return(w, <<AckMsg(t, "ack")>>)
    BY <1>12 DEF Postprocess, Handling, m, t
  <2> QED BY <1>3, <2>1 DEF HandlesTask, Terminal
<1>13. ASSUME MarkTaskFailed(w) PROVE HandlesTask(w, m, t)
  <2>1. /\ m.class = "mark_task_failed" /\ UNCHANGED fanouts /\ RemoveTmpdir(t)
        /\ status' = [status EXCEPT ![t] = "failed"] /\ Return(w, <<AckMsg(t, "nak")>>)
    BY <1>13 DEF MarkTaskFailed, Handling, m, t
  <2> QED BY <1>3, <2>1 DEF HandlesTask, Terminal, Stages
<1>14. HandlesTask(w, m, t)
  BY <1>5, <1>6, <1>7, <1>8, <1>9, <1>10, <1>11, <1>12, <1>13 DEF Handle
<1> QED BY <1>1, <1>2, <1>14 DEF m, t

LEMMA NextCases ==
  ASSUME TypeInv, [Next]_vars
  PROVE  \/ Quiet
         \/ \E r \in Readers, t \in Tasks : FetchTask(r, t) \/ DieFetching(r, t)
         \/ \E w \in Workers : Handle(w)
         \/ \E p \in Procs : ForwardBlocked(p)
         \/ \E p \in Procs : ForwardResult(p)
         \/ resets' = resets + 1
<1> USE DEF TypeInv, TypeOK
<1>1. CASE UNCHANGED vars
  <2>1. \A M : Conserved(M)
    BY <1>1, BlendSame, NothingMoves DEF vars, broker, worker
  <2> QED BY <1>1, <2>1 DEF Quiet, vars, db, broker, bounds
<1>2. ASSUME NEW r \in Readers, ReceiveAck(r) PROVE Quiet
  BY <1>2, OtherFlow DEF ReceiveAck, Quiet, db, broker, bounds
<1>3. ASSUME NEW r \in Readers, NEW t \in Tasks, FetchRaises(r, t) PROVE Quiet
  BY <1>3, OtherFlow DEF FetchRaises, Quiet, Claim, broker
<1>4. ASSUME NEW w \in Workers, GetTask(w) \/ ReceiveReply(w) PROVE Quiet
  BY <1>4, WorkerFlow DEF GetTask, ReceiveReply, Quiet, db, broker, bounds
<1>5. ASSUME NEW w \in Workers, HandlerRaises(w) PROVE Quiet
  <2> DEFINE m == Head(hand[w])
  <2>1. hand[w] # <<>> /\ m \in Work /\ m.task \in Tasks
    BY <1>5, WorkFields DEF HandlerRaises
  <2>2. m.class = "preprocess" => Somewhere(Opening(m.task))
    BY <2>1, Kinds, HeldIsSomewhere DEF Stages
  <2> QED BY <1>5, <2>1, <2>2, WorkerFlow DEF HandlerRaises, Quiet, db, broker
<1>6. ASSUME NEW p \in Procs, Stop(p) \/ Restart(p) PROVE Quiet
  <2>1. \A M : Conserved(M)
    BY <1>6, OtherFlow
  <2>2. UNCHANGED <<blocked, fanouts, resets, status, tmpdirs>>
    BY <1>6 DEF Stop, Restart, db, broker, bounds
  <2>3. stops' = stops \/ stops' = stops + 1
    BY <1>6 DEF Stop, Restart, bounds
  <2> QED BY <2>1, <2>2, <2>3 DEF Quiet
<1>7. ASSUME NEW p \in Procs, Broker(p), ~ ForwardBlocked(p), ~ ForwardResult(p) PROVE Quiet
  <2>1. \A M : Conserved(M)
    BY <1>7, GetTaskFlow, OtherFlow, ForwardAckFlow, ForwardPlainFlow DEF Broker
  <2>2. UNCHANGED <<blocked, fanouts, resets, status, tmpdirs, stops>>
    BY <1>7 DEF Broker, HandleGetTask, HandleRegisterAck, ForwardAck, ForwardPlain, RemoveWorker,
       Serve, db, bounds
  <2> QED BY <2>1, <2>2 DEF Quiet
<1>8. ASSUME NEW stale \in SUBSET Tasks, ResetStale(stale) PROVE resets' = resets + 1
  BY <1>8 DEF ResetStale
<1> QED BY <1>1, <1>2, <1>3, <1>4, <1>5, <1>6, <1>7, <1>8 DEF Next, Fetch, FetchFault

-----------------------------------------------------------------------------
(* A task is in one stage                                                  *)

HeldBack(t) == { b \in blocked : b.task = t }

\* One message of t drives it on, or one is held back, and only while it runs.
StageOf(t) ==
  /\ Unique(Driving(t))
  /\ Lone(HeldBack(t))
  /\ HeldBack(t) # {} => ~ Somewhere(Driving(t))
  /\ Somewhere(Driving(t)) \/ HeldBack(t) # {} => status[t] = "running"

StageInv == \A t \in Tasks : StageOf(t)

\* A task none of whose messages move on stays in its stage.
LEMMA StageKept ==
  ASSUME NEW t \in Tasks, StageOf(t), Conserved(Driving(t)),
         HeldBack(t)' = HeldBack(t), status[t] = "running" => status'[t] = "running"
  PROVE  StageOf(t)'
  BY DEF StageOf, Conserved

LEMMA QuietStage ==
  ASSUME StageInv, Quiet
  PROVE  StageInv'
<1> SUFFICES ASSUME NEW t \in Tasks PROVE StageOf(t)'
  BY DEF StageInv
<1> QED BY StageKept DEF StageInv, Quiet, HeldBack

LEMMA FetchStage ==
  ASSUME TypeInv, StageInv, NEW r \in Readers, NEW u \in Tasks,
         FetchTask(r, u) \/ DieFetching(r, u)
  PROVE  StageInv'
<1> SUFFICES ASSUME NEW t \in Tasks PROVE StageOf(t)'
  BY DEF StageInv
<1> DEFINE m == StageMsg("tune_kernel", u)
<1>1. /\ blocked' = blocked /\ status[u] = "pending"
      /\ status' = [status EXCEPT ![u] = "running"]
  BY DEF FetchTask, DieFetching, Claim, broker
<1>2. Arrival(<<m>>, Driving(t))
  BY FetchFlow
<1>3. m \in Driving(t) <=> t = u
  <2>1. m \in Work /\ m.class = "tune_kernel" /\ m.task = u
    BY MessageTypes DEF Stages, StageMsg
  <2> QED BY <2>1, Kinds DEF Driving, Stages
<1>4. CASE t = u
  <2>1. ~ Somewhere(Driving(t)) /\ HeldBack(t) = {}
    BY <1>1, <1>4 DEF StageInv, StageOf
  <2>2. Unique(Driving(t))'
    BY <1>2, <2>1, HitsOne DEF Arrival
  <2>3. HeldBack(t)' = {} /\ status'[t] = "running"
    BY <1>1, <1>4, <2>1 DEF HeldBack, TypeInv, TypeOK
  <2> QED BY <2>2, <2>3 DEF StageOf, Lone
<1>5. CASE t # u
  <2>1. Conserved(Driving(t))
    BY <1>2, <1>3, <1>5, HitsOne DEF Arrival
  <2>2. HeldBack(t)' = HeldBack(t) /\ status'[t] = status[t]
    BY <1>1, <1>5 DEF HeldBack, TypeInv, TypeOK
  <2> QED BY <2>1, <2>2, StageKept DEF StageInv
<1> QED BY <1>4, <1>5

LEMMA HandleStage ==
  ASSUME TypeInv, StageInv, NEW w \in Workers, Handle(w)
  PROVE  StageInv'
<1> SUFFICES ASSUME NEW t \in Tasks PROVE StageOf(t)'
  BY DEF StageInv
<1> DEFINE m == Head(hand[w])
           u == m.task
<1>1. hand[w] # <<>> /\ m \in Work /\ u \in Tasks /\ blocked' = blocked /\ HandlesTask(w, m, u)
  BY HandleCases
<1>2. HeldBack(t)' = HeldBack(t)
  BY <1>1 DEF HeldBack
<1> HIDE DEF m
<1>3. ASSUME NEW ms \in Seq(Message), Return(w, ms) PROVE Handover(m, ms, Driving(t))
  BY <1>1, <1>3, ReturnFlow DEF m
\* Another task is not touched, nor is one in whose stage only results move.
<1>4. ASSUME NEW ms \in Seq(Message), Return(w, ms), Hits(ms, Driving(t)) = {},
             status'[t] = status[t]
      PROVE  StageOf(t)'
  BY <1>2, <1>3, <1>4, StageKept DEF Handover, Arrival, StageInv
\* The task's driver is replaced by another one.
<1>5. ASSUME NEW ms \in Seq(Message), Return(w, ms), Lone(Hits(ms, Driving(t))),
             m \in Driving(t), status' = status
      PROVE  StageOf(t)'
  <2>1. Somewhere(Driving(t)) /\ Unique(Driving(t))'
    BY <1>3, <1>5 DEF Handover, StageInv, StageOf
  <2> QED BY <1>2, <1>5, <2>1 DEF StageInv, StageOf, Lone
\* The task's driver goes.
<1>6. ASSUME NEW ms \in Seq(Message), Return(w, ms), Hits(ms, Driving(t)) = {},
             m \in Driving(t)
      PROVE  StageOf(t)'
  <2>1. Somewhere(Driving(t)) /\ ~ Somewhere(Driving(t))'
    BY <1>3, <1>6 DEF Handover, StageInv, StageOf
  <2>2. HeldBack(t)' = {}
    BY <1>2, <2>1 DEF StageInv, StageOf
  <2> QED BY <2>1, <2>2 DEF StageOf, Unique, Lone, Somewhere
<1>7. ASSUME NEW c \in Stages \ {"postprocess"}, Return(w, <<StageMsg(c, u)>>),
             m \in Opening(u), status' = status
      PROVE  StageOf(t)'
  <2>1. <<StageMsg(c, u)>> \in Seq(Message) /\ Lone(Hits(<<StageMsg(c, u)>>, Driving(t)))
    BY <1>1, MessageTypes, HitsOne
  <2>2. CASE t = u
    BY <1>5, <1>7, <2>1, <2>2 DEF Driving
  <2>3. CASE t # u
    <3>1. StageMsg(c, u) \in Message /\ StageMsg(c, u).task = u
      BY <1>1, MessageTypes DEF StageMsg
    <3>2. Hits(<<StageMsg(c, u)>>, Driving(t)) = {}
      BY <2>3, <3>1, HitsOne, Kinds DEF Driving
    <3> QED BY <1>4, <1>7, <2>1, <3>2
  <2> QED BY <2>2, <2>3
<1>8. ASSUME NEW f \in Fanouts, Return(w, Fanout(u, f)), m = StageMsg("probe", u), status' = status
      PROVE  StageOf(t)'
  <2>1. Fanout(u, f) \in Seq(Message)
    BY <1>1, FanoutType
  <2>2. CASE t = u
    <3>1. m \in Driving(t)
      BY <1>8, <2>2 DEF Driving, Opening, Stages
    <3> QED BY <1>1, <1>5, <1>8, <2>1, <3>1, FanoutHits
  <2>3. CASE t # u
    BY <1>1, <1>4, <1>8, <2>1, <2>3, FanoutHits
  <2> QED BY <2>2, <2>3
<1>9. ASSUME m.class \in {TuneClass, ResultClass}, status' = status,
             Return(w, <<ImplMsg(ResultClass, u, m.impl)>>) \/ Return(w, <<>>)
      PROVE  StageOf(t)'
  <2> DEFINE x == ImplMsg(ResultClass, u, m.impl)
  <2>1. x \in Message /\ x.class = ResultClass
    BY <1>1, <1>9, WorkFields, MessageTypes DEF ImplMsg
  <2>2. <<x>> \in Seq(Message) /\ <<>> \in Seq(Message)
    BY <2>1
  <2>3. Hits(<<x>>, Driving(t)) = {} /\ Hits(<<>>, Driving(t)) = {}
    BY <2>1, HitsOne, EmptyHits, Kinds DEF Driving, Stages, ResultClass
  <2> QED BY <1>4, <1>9, <2>2, <2>3
<1>10. ASSUME m \in Opening(u) \cup Closing(u), NEW sign \in {"ack", "nak"},
              Return(w, <<AckMsg(u, sign)>>),
              \E outcome \in Terminal : status' = [status EXCEPT ![u] = outcome]
       PROVE  StageOf(t)'
  <2> DEFINE x == AckMsg(u, sign)
  <2>1. x \in Message /\ x.class = "tune_kernel_ack"
    BY <1>1, MessageTypes DEF AckMsg
  <2>2. <<x>> \in Seq(Message)
    BY <2>1
  <2>3. Hits(<<x>>, Driving(t)) = {}
    BY <2>1, HitsOne, Kinds DEF Driving, Stages
  <2> HIDE DEF x
  <2>4. CASE t = u
    BY <1>6, <1>10, <2>2, <2>3, <2>4 DEF Driving, x
  <2>5. CASE t # u
    BY <1>4, <1>10, <2>2, <2>3, <2>5 DEF x, TypeInv, TypeOK
  <2> QED BY <2>4, <2>5
<1> QED BY <1>1, <1>7, <1>8, <1>9, <1>10 DEF HandlesTask

\* The driver of t is held back now.
LEMMA BlockStage ==
  ASSUME TypeInv, StageInv, NEW p \in Procs, ForwardBlocked(p)
  PROVE  StageInv'
<1> SUFFICES ASSUME NEW t \in Tasks PROVE StageOf(t)'
  BY DEF StageInv
<1> DEFINE m == Forwarded(p)
<1>1. /\ m \in PostMessage /\ blocked' = blocked \cup {m} /\ status' = status
  BY ServeType, RequestFields, MessageFields DEF ForwardBlocked, Forwarded, db
<1>2. Handover(m, <<>>, Driving(t))
  BY ForwardBlockedFlow
<1>3. m \in Driving(t) <=> m.task = t
  <2>1. m \in Message /\ m.class = "postprocess"
    BY <1>1 DEF Message, PostMessage
  <2> QED BY <2>1, Kinds DEF Driving, Stages
<1> HIDE DEF m
<1>4. CASE m.task = t
  <2>1. Somewhere(Driving(t)) /\ ~ Somewhere(Driving(t))'
    BY <1>2, <1>3, <1>4, EmptyHits DEF Handover, StageInv, StageOf
  <2>2. HeldBack(t) = {} /\ status[t] = "running"
    BY <2>1 DEF StageInv, StageOf
  <2>3. HeldBack(t)' = {m}
    BY <1>1, <1>4, <2>2 DEF HeldBack
  <2> QED BY <1>1, <2>1, <2>2, <2>3 DEF StageOf, Unique, Lone, Somewhere
<1>5. CASE m.task # t
  <2>1. HeldBack(t)' = HeldBack(t)
    BY <1>1, <1>5 DEF HeldBack
  <2> QED BY <1>1, <1>2, <2>1, EmptyHits, StageKept DEF Handover, Arrival, StageInv
<1> QED BY <1>4, <1>5

\* What a result does to a task: if it is one of the task's, it releases the
\* message held back, or is entered in it.
LEMMA ResultStep ==
  ASSUME TypeInv, StageInv, NEW p \in Procs, ForwardResult(p), NEW t \in Tasks
  PROVE  LET m == Forwarded(p)
             x == StageMsg("postprocess", t)
         IN
         /\ m \in Work /\ m \in Message /\ m.class = ResultClass
         /\ m.task \in Tasks /\ m.impl \in Impls
         /\ UNCHANGED <<status, tmpdirs, fanouts, stops, resets>>
         /\ \A y \in DOMAIN Released(m) : Released(m)[y] = StageMsg("postprocess", m.task)
         /\ Released(m) \in Seq(Work)
         /\ m.task # t => HeldBack(t)' = HeldBack(t)
         /\ m.task = t => \/ /\ Released(m) = <<>>
                             /\ HeldBack(t)' = { Received(b, m) : b \in HeldBack(t) }
                          \/ /\ Released(m) = <<x>>
                             /\ HeldBack(t)' = {}
                             /\ \E b \in HeldBack(t) : Complete(Received(b, m))
<1> DEFINE m == Forwarded(p)
           x == StageMsg("postprocess", t)
<1>1. Serve(p, "forward") /\ m \in Message /\ m.class = ResultClass
  BY ServeType, RequestFields DEF ForwardResult, Forwarded
<1>2. m \in Work /\ m.task \in Tasks /\ m.impl \in Impls
  BY <1>1, MessageFields
<1>3. UNCHANGED <<status, tmpdirs, fanouts, stops, resets>>
  BY <1>1 DEF Serve, db, bounds
<1>4. blocked' = StillBlocked(m) /\ blocked \subseteq PostMessage
  BY DEF ForwardResult, TypeInv, TypeOK
<1>5. /\ \A y \in DOMAIN Released(m) : Released(m)[y] = StageMsg("postprocess", m.task)
      /\ Released(m) \in Seq(Work)
  BY <1>2, ReleasedType DEF Released
<1> HIDE DEF m, x
<1>6. \A b \in blocked : Received(b, m).task = b.task
  BY <1>4 DEF Received, PostMessage
<1>7. ASSUME m.task # t PROVE HeldBack(t)' = HeldBack(t)
  <2>1. \A b \in blocked : b.task = t => b \notin Unblocked(m) /\ Received(b, m) = b
    BY <1>7 DEF Unblocked, Received
  <2> QED BY <1>4, <1>6, <2>1 DEF HeldBack, StillBlocked
<1>8. ASSUME m.task = t, Unblocked(m) = {}
      PROVE  Released(m) = <<>> /\ HeldBack(t)' = { Received(b, m) : b \in HeldBack(t) }
  <2>1. Released(m) = <<>>
    BY <1>8, FS_EmptySet DEF Released
  <2>2. blocked' = { Received(b, m) : b \in blocked }
    BY <1>4, <1>8 DEF StillBlocked
  <2> QED BY <1>6, <2>1, <2>2 DEF HeldBack
<1>9. ASSUME m.task = t, Unblocked(m) # {}
      PROVE  /\ Released(m) = <<x>> /\ HeldBack(t)' = {}
             /\ \E b \in HeldBack(t) : Complete(Received(b, m))
  <2>1. PICK b \in Unblocked(m) : TRUE
    BY <1>9
  <2>2. b \in HeldBack(t) /\ Complete(Received(b, m))
    BY <1>9, <2>1 DEF Unblocked, HeldBack
  <2>3. HeldBack(t) = {b} /\ Unblocked(m) = {b}
    BY <1>9, <2>1, <2>2 DEF Lone, HeldBack, Unblocked, StageInv, StageOf
  <2>4. Released(m) = <<x>>
    <3>1. Cardinality(Unblocked(m)) = 1
      BY <2>3, FS_Singleton
    <3>2. [i \in 1 .. 1 |-> x] = <<x>>
      OBVIOUS
    <3> QED BY <1>9, <3>1, <3>2 DEF Released, x
  <2>5. HeldBack(t)' = {}
    <3>1. \A c \in blocked \ Unblocked(m) : c.task # t
      BY <2>3 DEF HeldBack
    <3> QED BY <1>4, <1>6, <3>1 DEF HeldBack, StillBlocked
  <2> QED BY <2>2, <2>4, <2>5
<1> QED BY <1>1, <1>2, <1>3, <1>5, <1>7, <1>8, <1>9 DEF m, x

LEMMA ResultStage ==
  ASSUME TypeInv, StageInv, NEW p \in Procs, ForwardResult(p)
  PROVE  StageInv'
<1> SUFFICES ASSUME NEW t \in Tasks PROVE StageOf(t)'
  BY DEF StageInv
<1> DEFINE m == Forwarded(p)
           x == StageMsg("postprocess", t)
           ms == Released(m) \o <<m>>
<1>1. /\ m \in Work /\ m.class = ResultClass /\ m.task \in Tasks
      /\ status' = status
      /\ \A y \in DOMAIN Released(m) : Released(m)[y] = StageMsg("postprocess", m.task)
      /\ Released(m) \in Seq(Work)
      /\ m.task # t => HeldBack(t)' = HeldBack(t)
      /\ m.task = t => \/ /\ Released(m) = <<>>
                          /\ HeldBack(t)' = { Received(b, m) : b \in HeldBack(t) }
                       \/ /\ Released(m) = <<x>>
                          /\ HeldBack(t)' = {}
                          /\ HeldBack(t) # {}
  BY ResultStep
<1>2. Handover(m, ms, Driving(t))
  BY ForwardResultFlow
<1>3. m \notin Driving(t)
  BY <1>1, Kinds DEF Driving, Stages, ResultClass
<1>4. Hits(<<m>>, Driving(t)) = {}
  BY <1>3, HitsOne
<1>5. ASSUME m.task # t PROVE Hits(Released(m), Driving(t)) = {}
  <2>1. StageMsg("postprocess", m.task) \in Work /\ StageMsg("postprocess", m.task).task # t
    BY <1>1, <1>5, MessageTypes DEF StageMsg, Stages
  <2>2. StageMsg("postprocess", m.task) \notin Driving(t)
    BY <2>1, Kinds DEF Driving
  <2> QED BY <1>1, <2>2 DEF Hits
<1>6. ASSUME Hits(Released(m), Driving(t)) = {} PROVE Conserved(Driving(t))
  <2>1. <<m>> \in Seq(Work) /\ Released(m) \in Seq(Work)
    BY <1>1
  <2> HIDE DEF m
  <2>2. Hits(Released(m) \o <<m>>, Driving(t)) = {}
    BY <1>4, <1>6, <2>1, ConcatHits
  <2> QED BY <1>2, <2>2 DEF Handover, Arrival
<1> HIDE DEF m, x
<1>7. CASE m.task # t
  BY <1>1, <1>5, <1>6, <1>7, StageKept DEF StageInv
<1>8. CASE Released(m) = <<>> /\ HeldBack(t)' = { Received(b, m) : b \in HeldBack(t) }
  <2>1. Conserved(Driving(t))
    BY <1>6, <1>8, EmptyHits
  <2>2. Lone(HeldBack(t)') /\ (HeldBack(t)' # {} => HeldBack(t) # {})
    <3>1. Lone(HeldBack(t))
      BY DEF StageInv, StageOf
    <3> QED BY <1>8, <3>1 DEF Lone
  <2> QED BY <1>1, <2>1, <2>2 DEF StageInv, StageOf, Conserved
<1>9. CASE Released(m) = <<x>> /\ HeldBack(t)' = {} /\ HeldBack(t) # {}
  <2>1. ~ Somewhere(Driving(t)) /\ status[t] = "running"
    BY <1>9 DEF StageInv, StageOf
  <2>2. Lone(Hits(ms, Driving(t)))
    <3>1. DOMAIN ms = {1, 2} /\ ms[2] = m
      BY <1>9
    <3> HIDE DEF ms
    <3> QED BY <1>3, <3>1 DEF Hits, Lone
  <2>3. Unique(Driving(t))'
    BY <1>2, <2>1, <2>2 DEF Handover, Arrival
  <2> QED BY <1>1, <1>9, <2>1, <2>3 DEF StageOf, Lone
<1> QED BY <1>1, <1>7, <1>8, <1>9

LEMMA NextStage ==
  ASSUME TypeInv, resets = 0 => StageInv, [Next]_vars
  PROVE  resets' = 0 => StageInv'
<1> SUFFICES ASSUME resets' = 0 PROVE StageInv'
  OBVIOUS
<1>1. resets = 0 /\ resets' # resets + 1
  BY ResetsCounted DEF TypeInv, TypeOK
<1> QED BY <1>1, NextCases, QuietStage, FetchStage, HandleStage, BlockStage, ResultStage

LEMMA InitNowhere == ASSUME Init, NEW M PROVE ~ Somewhere(M)
<1>1. /\ \A p \in Procs : toBroker[p] = <<>> /\ toWorker[p] = <<>>
      /\ \A q \in QueueName : queue[q] = <<>>
      /\ \A w \in Workers : hand[w] = <<>> /\ w \in Procs
  BY DEF Init, Procs
<1>2. ASSUME NEW x \in Place PROVE Content(x) = <<>>
  BY <1>1, PlaceCases, Places
<1> QED BY <1>2, EmptyHits DEF Somewhere, At

LEMMA InitStage == Init => StageInv
<1> SUFFICES ASSUME Init, NEW t \in Tasks PROVE StageOf(t)
  BY DEF StageInv
<1>1. ~ Somewhere(Driving(t)) /\ HeldBack(t) = {}
  BY InitNowhere DEF Init, HeldBack
<1> QED BY <1>1 DEF StageOf, Unique, Lone, Somewhere

-----------------------------------------------------------------------------
(* The life of a task: its fan-out, and its directory                      *)

\* A task is probed once: before, nothing is measured for it.
Unprobed(t) ==
  /\ status[t] = "pending" \/ Somewhere(Opening(t)) => fanouts[t] = <<>>
  /\ fanouts[t] = <<>> => \A i \in Impls : ~ Somewhere(Measuring(t, i))

\* What is still to be benchmarked is among the results that the postprocess
\* message waits for; it is released when nothing is left to benchmark.
Expecting(t) ==
  /\ \A i \in Impls : Unique(Measuring(t, i))
  /\ \A b \in Waiting(t) : b \in blocked \/ Somewhere({b}) =>
       \A i \in Impls : Somewhere(Tuning(t, i)) => i \in b.expected \ b.received
  /\ Somewhere(Closing(t)) => \A i \in Impls : ~ Somewhere(Tuning(t, i))

Probing(t) == { StageMsg("probe", t) }

\* The directory is made before the probe and removed when the task finishes.
DirectoryOf(t) ==
  /\ Somewhere(Probing(t)) \/ (\E i \in Impls : Somewhere(Tuning(t, i))) => t \in tmpdirs
  /\ status[t] \in Terminal /\ stops = 0 => t \notin tmpdirs

LifeOf(t) == Unprobed(t) /\ Expecting(t) /\ DirectoryOf(t)
LifeInv   == \A t \in Tasks : LifeOf(t)

\* The messages of t at most get lost.
Calm(t) ==
  /\ Conserved(Opening(t)) /\ Conserved(Closing(t)) /\ Conserved(Probing(t))
  /\ \A b \in Waiting(t) : Conserved({b})
  /\ \A i \in Impls : Conserved(Tuning(t, i)) /\ Conserved(Measuring(t, i))

LEMMA MoreIsSomewhere ==
  ASSUME NEW M, NEW N, N \subseteq M
  PROVE  (Somewhere(N) => Somewhere(M)) /\ (Somewhere(N)' => Somewhere(M)')
<1>1. ASSUME NEW x \in Place PROVE Carrying(x, N) \subseteq Carrying(x, M)
  BY DEF Carrying, Forwarding, Replying
<1>2. ASSUME NEW x \in Place PROVE At(x, N) \subseteq At(x, M) /\ At(x, N)' \subseteq At(x, M)'
  BY <1>1 DEF At, Hits, Carrying
<1> QED BY <1>2 DEF Somewhere, Place

LEMMA LifeKept ==
  ASSUME NEW t \in Tasks, StageOf(t), LifeOf(t), Calm(t),
         \A b \in Waiting(t) : b \in blocked' => b \in blocked \/ Somewhere({b}),
         fanouts'[t] = fanouts[t],
         status'[t] = status[t] \/ (status[t] = "pending" /\ status'[t] = "running"),
         t \in tmpdirs => t \in tmpdirs',
         t \in tmpdirs' => t \in tmpdirs \/ Somewhere(Opening(t)),
         stops' = 0 => stops = 0
  PROVE  LifeOf(t)'
<1> USE DEF Calm, Conserved, LifeOf
<1>1. Unprobed(t)'
  BY DEF Unprobed
<1>2. Expecting(t)'
  BY DEF Expecting
<1>3. DirectoryOf(t)'
  <2>1. Somewhere(Opening(t)) => Somewhere(Driving(t))
    BY MoreIsSomewhere DEF Driving
  <2>2. ASSUME status'[t] \in Terminal, stops' = 0 PROVE t \notin tmpdirs'
    <3>1. status[t] \in Terminal
      BY <2>2 DEF Terminal
    <3>2. ~ Somewhere(Opening(t))
      BY <2>1, <3>1 DEF StageOf, Terminal
    <3> QED BY <2>2, <3>1, <3>2 DEF DirectoryOf
  <2> QED BY <2>2 DEF DirectoryOf
<1> QED BY <1>1, <1>2, <1>3

LEMMA FewerHits ==
  ASSUME NEW s, NEW S, NEW R \in SUBSET S, Hits(s, S) = {}
  PROVE  Hits(s, R) = {}
  BY DEF Hits

LEMMA CalmArrival ==
  ASSUME NEW t \in Tasks, NEW ms, \A M : Arrival(ms, M),
         Hits(ms, Driving(t)) = {}, \A i \in Impls : Hits(ms, Measuring(t, i)) = {}
  PROVE  Calm(t)
<1>1. /\ Opening(t) \subseteq Driving(t) /\ Closing(t) \subseteq Driving(t)
      /\ Probing(t) \subseteq Driving(t) /\ \A b \in Waiting(t) : {b} \subseteq Driving(t)
      /\ \A i \in Impls : Tuning(t, i) \subseteq Measuring(t, i)
  BY DEF Driving, Opening, Probing, Measuring, Stages
<1>2. ASSUME NEW M, Hits(ms, M) = {} PROVE Conserved(M)
  BY <1>2 DEF Arrival
<1>3. Conserved(Opening(t)) /\ Conserved(Closing(t)) /\ Conserved(Probing(t))
  BY <1>1, <1>2, FewerHits
<1>4. ASSUME NEW b \in Waiting(t) PROVE Conserved({b})
  BY <1>1, <1>2, FewerHits
<1>5. ASSUME NEW i \in Impls PROVE Conserved(Tuning(t, i)) /\ Conserved(Measuring(t, i))
  BY <1>1, <1>2, FewerHits
<1> QED BY <1>3, <1>4, <1>5 DEF Calm

\* A message of another task, or an ack, is none of the messages of t.
LEMMA Foreign ==
  ASSUME NEW t \in Tasks, NEW x \in Work \cup Message,
         x.task # t \/ x.class = "tune_kernel_ack"
  PROVE  x \notin Driving(t) /\ \A i \in Impls : x \notin Measuring(t, i)
<1>1. "tune_kernel_ack" \notin Stages \cup {TuneClass, ResultClass, "postprocess"}
  BY DEF Stages, TuneClass, ResultClass
<1> QED BY <1>1, Kinds DEF Driving

LEMMA QuietLife ==
  ASSUME StageInv, LifeInv, Quiet
  PROVE  LifeInv'
<1> SUFFICES ASSUME NEW t \in Tasks PROVE LifeOf(t)'
  BY DEF LifeInv
<1>1. Calm(t)
  BY DEF Quiet, Calm
<1>2. fanouts' = fanouts /\ blocked' = blocked /\ (stops' = 0 => stops = 0)
  BY DEF Quiet
<1>3. status'[t] = status[t] \/ (status[t] = "pending" /\ status'[t] = "running")
  BY DEF Quiet
<1>4. (t \in tmpdirs => t \in tmpdirs') /\ (t \in tmpdirs' => t \in tmpdirs \/ Somewhere(Opening(t)))
  BY DEF Quiet
<1>5. StageOf(t) /\ LifeOf(t)
  BY DEF StageInv, LifeInv
<1> QED BY <1>1, <1>2, <1>3, <1>4, <1>5, LifeKept

LEMMA FetchLife ==
  ASSUME TypeInv, StageInv, LifeInv, NEW r \in Readers, NEW u \in Tasks,
         FetchTask(r, u) \/ DieFetching(r, u)
  PROVE  LifeInv'
<1> SUFFICES ASSUME NEW t \in Tasks PROVE LifeOf(t)'
  BY DEF LifeInv
<1> DEFINE m == StageMsg("tune_kernel", u)
<1>1. /\ blocked' = blocked /\ status[u] = "pending"
      /\ status' = [status EXCEPT ![u] = "running"]
      /\ fanouts' = fanouts /\ tmpdirs' = tmpdirs
  BY DEF FetchTask, DieFetching, Claim, broker
<1>2. stops' = 0 => stops = 0
  BY DEF FetchTask, DieFetching, bounds, TypeInv, TypeOK
<1>3. \A M : Arrival(<<m>>, M)
  BY FetchFlow
<1>4. m \in Work /\ m.class = "tune_kernel" /\ m.task = u
  BY MessageTypes DEF Stages, StageMsg
<1>5. StageOf(t) /\ LifeOf(t)
  BY DEF StageInv, LifeInv
<1>6. CASE t # u
  <2>1. Hits(<<m>>, Driving(t)) = {} /\ \A i \in Impls : Hits(<<m>>, Measuring(t, i)) = {}
    BY <1>4, <1>6, Foreign, HitsOne
  <2>2. Calm(t)
    BY <1>3, <2>1, CalmArrival
  <2>3. status'[t] = status[t]
    BY <1>1, <1>6 DEF TypeInv, TypeOK
  <2> QED BY <1>1, <1>2, <1>5, <2>2, <2>3, LifeKept
<1>7. CASE t = u
  <2> HIDE DEF m
  <2>1. m \notin Probing(t) /\ m \notin Closing(t) /\ \A b \in Waiting(t) : m \notin {b}
    BY <1>4, Kinds DEF Probing, StageMsg
  <2>2. \A i \in Impls : m \notin Tuning(t, i) /\ m \notin Measuring(t, i)
    BY <1>4, Kinds DEF TuneClass, ResultClass
  <2>3. Conserved(Probing(t)) /\ Conserved(Closing(t)) /\ \A b \in Waiting(t) : Conserved({b})
    BY <1>3, <2>1, HitsOne DEF Arrival
  <2>4. \A i \in Impls : Conserved(Tuning(t, i)) /\ Conserved(Measuring(t, i))
    BY <1>3, <2>2, HitsOne DEF Arrival
  <2>5. status[t] = "pending" /\ status'[t] = "running"
    BY <1>1, <1>7 DEF TypeInv, TypeOK
  <2>6. Unprobed(t)'
    BY <1>1, <1>5, <2>4, <2>5 DEF Unprobed, LifeOf, Conserved
  <2>7. Expecting(t)'
    BY <1>1, <1>5, <2>3, <2>4 DEF Expecting, LifeOf, Conserved
  <2>8. DirectoryOf(t)'
    BY <1>1, <1>5, <2>3, <2>4, <2>5 DEF DirectoryOf, LifeOf, Conserved, Terminal
  <2> QED BY <2>6, <2>7, <2>8 DEF LifeOf
<1> QED BY <1>6, <1>7

LEMMA BlockLife ==
  ASSUME TypeInv, StageInv, LifeInv, NEW p \in Procs, ForwardBlocked(p)
  PROVE  LifeInv'
<1> SUFFICES ASSUME NEW t \in Tasks PROVE LifeOf(t)'
  BY DEF LifeInv
<1> DEFINE m == Forwarded(p)
<1>1. /\ blocked' = blocked \cup {m} /\ UNCHANGED <<status, fanouts, tmpdirs, stops>>
  BY DEF ForwardBlocked, Serve, db, bounds
<1>2. \A M : Handover(m, <<>>, M)
  BY ForwardBlockedFlow
<1> HIDE DEF m
<1>3. \A M : Conserved(M)
  BY <1>2, EmptyHits DEF Handover, Arrival
<1>4. Somewhere({m})
  BY <1>2 DEF Handover
<1>5. Calm(t)
  BY <1>3 DEF Calm
<1>6. StageOf(t) /\ LifeOf(t)
  BY DEF StageInv, LifeInv
<1>7. \A b \in Waiting(t) : b \in blocked' => b \in blocked \/ Somewhere({b})
  BY <1>1, <1>4
<1> QED BY <1>1, <1>5, <1>6, <1>7, LifeKept

\* A result that passes the broker: the last message t waits for, or not.
LEMMA ResultLife ==
  ASSUME TypeInv, StageInv, LifeInv, NEW p \in Procs, ForwardResult(p)
  PROVE  LifeInv'
<1> SUFFICES ASSUME NEW t \in Tasks PROVE LifeOf(t)'
  BY DEF LifeInv
<1> DEFINE m == Forwarded(p)
           x == StageMsg("postprocess", t)
           ms == Released(m) \o <<m>>
<1>1. /\ m \in Work /\ m \in Message /\ m.class = ResultClass
      /\ m.task \in Tasks /\ m.impl \in Impls
      /\ UNCHANGED <<status, tmpdirs, fanouts, stops>>
      /\ \A y \in DOMAIN Released(m) : Released(m)[y] = StageMsg("postprocess", m.task)
      /\ Released(m) \in Seq(Work)
      /\ m.task # t => HeldBack(t)' = HeldBack(t)
      /\ m.task = t => \/ /\ Released(m) = <<>>
                          /\ HeldBack(t)' = { Received(b, m) : b \in HeldBack(t) }
                       \/ /\ HeldBack(t)' = {}
                          /\ \E b \in HeldBack(t) : Complete(Received(b, m))
  BY ResultStep
<1>2. \A M : Handover(m, ms, M)
  BY ForwardResultFlow
<1>3. StageOf(t) /\ LifeOf(t)
  BY DEF StageInv, LifeInv
<1>4. \A M : Arrival(ms, M)
  BY <1>2 DEF Handover
<1>5. \A b \in Waiting(t) : b \in blocked <=> b \in HeldBack(t)
  BY DEF HeldBack, Waiting
<1>6. \A b \in Waiting(t) : b \in blocked' <=> b \in HeldBack(t)'
  BY DEF HeldBack, Waiting
<1>7. <<m>> \in Seq(Work) /\ Released(m) \in Seq(Work)
  BY <1>1
<1>8. StageMsg("postprocess", m.task) \in Work /\ StageMsg("postprocess", m.task).task = m.task
      /\ StageMsg("postprocess", m.task).class = "postprocess"
  BY <1>1, MessageTypes DEF StageMsg, Stages
<1> HIDE DEF m, x
<1>9. ASSUME NEW M PROVE Hits(ms, M) # {} <=> Hits(Released(m), M) # {} \/ m \in M
  <2>1. Hits(Released(m) \o <<m>>, M) # {} <=> Hits(Released(m), M) # {} \/ m \in M
    BY <1>1, HitsLast
  <2> QED BY <2>1 DEF ms
<1>10. \A M : StageMsg("postprocess", m.task) \notin M => Hits(Released(m), M) = {}
  BY <1>1 DEF Hits
<1> HIDE DEF ms
<1>11. \A M : StageMsg("postprocess", m.task) \notin M /\ m \notin M => Conserved(M)
  BY <1>4, <1>9, <1>10 DEF Arrival
<1>12. CASE m.task # t
  <2>1. Calm(t)
    <3>1. /\ m \notin Driving(t) /\ StageMsg("postprocess", m.task) \notin Driving(t)
          /\ \A i \in Impls : /\ m \notin Measuring(t, i)
                              /\ StageMsg("postprocess", m.task) \notin Measuring(t, i)
      BY <1>1, <1>8, <1>12, Foreign
    <3>2. Hits(ms, Driving(t)) = {} /\ \A i \in Impls : Hits(ms, Measuring(t, i)) = {}
      BY <1>9, <1>10, <3>1
    <3> QED BY <1>4, <3>2, CalmArrival
  <2> QED BY <1>1, <1>3, <1>5, <1>6, <1>12, <2>1, LifeKept
<1>13. CASE m.task = t
  <2>1. x \in Work /\ x.class = "postprocess" /\ x.task = t /\ x = StageMsg("postprocess", m.task)
    BY <1>8, <1>13 DEF x
  <2>2. /\ m \notin Opening(t) /\ x \notin Opening(t)
        /\ m \notin Probing(t) /\ x \notin Probing(t)
    BY <1>1, <2>1, Kinds DEF Probing, StageMsg, Stages, ResultClass
  <2>3. Conserved(Opening(t)) /\ Conserved(Probing(t))
    BY <1>11, <2>1, <2>2
  <2>4. ASSUME NEW b \in Waiting(t) PROVE Conserved({b})
    <3>1. m \notin {b} /\ x \notin {b}
      BY <1>1, <2>1, Kinds
    <3> QED BY <1>11, <2>1, <3>1
  <2>5. ASSUME NEW i \in Impls PROVE Conserved(Tuning(t, i))
    <3>1. m \notin Tuning(t, i) /\ x \notin Tuning(t, i)
      BY <1>1, <2>1, Kinds DEF TuneClass, ResultClass
    <3> QED BY <1>11, <2>1, <3>1
  <2>6. ASSUME NEW i \in Impls PROVE x \notin Measuring(t, i)
    BY <1>1, <2>1, Kinds DEF TuneClass, ResultClass
  <2>7. ASSUME NEW i \in Impls, i # m.impl PROVE Conserved(Measuring(t, i))
    <3>1. m \notin Measuring(t, i)
      BY <1>1, <2>7, Kinds
    <3> QED BY <1>11, <2>1, <2>6, <3>1
  \* The result is the only message about its implementation.
  <2>8. ASSUME NEW k \in Impls, m.impl = k
        PROVE  /\ Somewhere(Measuring(t, k)) /\ Unique(Measuring(t, k))'
               /\ ~ Somewhere(Tuning(t, k))'
    <3>1. m \in Measuring(t, k) /\ m \notin Tuning(t, k)
      BY <1>1, <1>13, <2>8, Kinds DEF TuneClass, ResultClass
    <3>2. Unique(Measuring(t, k))
      BY <1>1, <1>3 DEF LifeOf, Expecting
    <3>3. Lone(Hits(ms, Measuring(t, k)))
      <4>1. Hits(Released(m), Measuring(t, k)) = {}
        BY <1>1, <1>10, <2>1, <2>6
      <4>2. \A i \in Hits(ms, Measuring(t, k)) : i = Len(Released(m)) + 1
        <5>1. /\ DOMAIN ms = 1 .. Len(Released(m)) + 1 /\ Len(Released(m)) \in Nat
              /\ DOMAIN Released(m) = 1 .. Len(Released(m))
              /\ \A i \in 1 .. Len(Released(m)) : ms[i] = Released(m)[i]
          BY <1>7 DEF ms
        <5> QED BY <4>1, <5>1 DEF Hits
      <4> QED BY <4>2 DEF Lone
    <3>4. Hits(ms, Tuning(t, k)) = {}
      <4>1. x \notin Tuning(t, k)
        BY <1>1, <2>6 DEF Measuring
      <4> QED BY <1>9, <1>10, <2>1, <3>1, <4>1
    <3>5. Tuning(t, k) \in SUBSET Measuring(t, k)
      BY DEF Measuring
    <3>6. Handover(m, ms, Measuring(t, k))
      BY <1>2
    <3> QED BY <3>1, <3>2, <3>3, <3>4, <3>5, <3>6 DEF Handover
  <2>9. Unprobed(t)'
    BY <1>1, <1>3, <2>3, <2>7, <2>8 DEF Unprobed, LifeOf, Conserved
  <2>10. DirectoryOf(t)'
    BY <1>1, <1>3, <2>3, <2>5 DEF DirectoryOf, LifeOf, Conserved
  <2>11. ASSUME NEW i \in Impls PROVE Unique(Measuring(t, i))'
    BY <1>3, <2>7, <2>8, <2>11 DEF LifeOf, Expecting, Conserved
  <2>12. ASSUME NEW i \in Impls, Somewhere(Tuning(t, i))'
         PROVE  Somewhere(Tuning(t, i)) /\ i # m.impl
    BY <2>5, <2>8, <2>12 DEF Conserved
  <2>13. ASSUME NEW b \in Waiting(t), b \in blocked' \/ Somewhere({b})',
                NEW i \in Impls, Somewhere(Tuning(t, i))'
         PROVE  i \in b.expected \ b.received
    <3>1. CASE Somewhere({b})'
      BY <1>3, <2>4, <2>12, <2>13, <3>1 DEF LifeOf, Expecting, Conserved
    <3>2. CASE b \in blocked'
      <4>1. PICK c \in HeldBack(t) : b = Received(c, m)
        BY <1>1, <1>6, <1>13, <2>13, <3>2
      <4>2. c \in Waiting(t) /\ c \in blocked
        BY <4>1 DEF HeldBack, Waiting, TypeInv, TypeOK
      <4>3. i \in c.expected \ c.received
        BY <1>3, <2>12, <2>13, <4>2 DEF LifeOf, Expecting
      <4>4. b.expected = c.expected /\ b.received = c.received \cup {m.impl}
        BY <1>13, <4>1, <4>2 DEF Received, Waiting, PostMessage
      <4> QED BY <2>12, <2>13, <4>3, <4>4
    <3> QED BY <2>13, <3>1, <3>2
  <2>14. ASSUME Somewhere(Closing(t))', NEW i \in Impls, Somewhere(Tuning(t, i))'
         PROVE  FALSE
    <3>1. Somewhere(Tuning(t, i)) /\ i # m.impl
      BY <2>12, <2>14
    <3>2. Hits(Released(m), Closing(t)) # {}
      <4>1. m \notin Closing(t)
        BY <1>1, Kinds
      <4>2. ~ Somewhere(Closing(t))
        BY <1>3, <3>1 DEF LifeOf, Expecting
      <4> QED BY <1>4, <1>9, <2>14, <4>1, <4>2 DEF Arrival
    <3>3. PICK c \in HeldBack(t) : Complete(Received(c, m))
      BY <1>1, <1>13, <3>2, EmptyHits
    <3>4. c \in Waiting(t) /\ c \in blocked
      BY <3>3 DEF HeldBack, Waiting, TypeInv, TypeOK
    <3>5. i \in c.expected \ c.received
      BY <1>3, <3>1, <3>4 DEF LifeOf, Expecting
    <3>6. c.expected \subseteq c.received \cup {m.impl}
      BY <1>13, <3>3, <3>4 DEF Complete, Received, Waiting, PostMessage
    <3> QED BY <3>1, <3>5, <3>6
  <2>15. Expecting(t)'
    BY <2>11, <2>13, <2>14 DEF Expecting, Waiting
  <2> QED BY <2>9, <2>10, <2>15 DEF LifeOf
<1> QED BY <1>12, <1>13

\* What the handlers do for a task.
LEMMA HandleLife ==
  ASSUME TypeInv, StageInv, LifeInv, NEW w \in Workers, Handle(w)
  PROVE  LifeInv'
<1> SUFFICES ASSUME NEW t \in Tasks PROVE LifeOf(t)'
  BY DEF LifeInv
<1> DEFINE m == Head(hand[w])
<1>1. /\ hand[w] # <<>> /\ m \in Work /\ m.task \in Tasks
      /\ blocked' = blocked /\ HandlesTask(w, m, m.task)
  BY HandleCases
<1>2. StageOf(t) /\ LifeOf(t)
  BY DEF StageInv, LifeInv
<1>3. ASSUME NEW ms \in Seq(Message), Return(w, ms), NEW M PROVE Handover(m, ms, M)
  BY <1>1, <1>3, ReturnFlow DEF m
<1>4. \A M : m \in M => Somewhere(M)
  BY <1>1, HeldIsSomewhere DEF m
<1>5. ASSUME NEW ms, Return(w, ms)
      PROVE  /\ stops' = 0 => stops = 0
             /\ running' # running => stops' # 0
  <2>1. \/ running' = running /\ stops' = stops
        \/ stops' = stops + 1
    BY <1>5 DEF Return
  <2>2. stops \in Nat
    BY DEF TypeInv, TypeOK
  <2> QED BY <2>1, <2>2
<1> HIDE DEF m
\* A task whose messages are not among those returned.
<1>6. ASSUME NEW ms \in Seq(Message), Return(w, ms),
             Hits(ms, Driving(t)) = {}, \A i \in Impls : Hits(ms, Measuring(t, i)) = {}
      PROVE  Calm(t)
  <2>1. \A M : Arrival(ms, M)
    BY <1>3, <1>6 DEF Handover
  <2> QED BY <1>6, <2>1, CalmArrival
<1>7. ASSUME NEW ms \in Seq(Message), Return(w, ms),
             \A y \in DOMAIN ms : ms[y].task # t \/ ms[y].class = "tune_kernel_ack"
      PROVE  Calm(t)
  <2>1. \A y \in DOMAIN ms : ms[y] \in Message
    BY <1>7
  <2>2. \A y \in DOMAIN ms : ms[y] \notin Driving(t) /\ \A i \in Impls : ms[y] \notin Measuring(t, i)
    BY <1>7, <2>1, Foreign
  <2>3. Hits(ms, Driving(t)) = {} /\ \A i \in Impls : Hits(ms, Measuring(t, i)) = {}
    BY <2>2 DEF Hits
  <2> QED BY <1>6, <1>7, <2>3
<1>8. ASSUME NEW ms \in Seq(Message), Return(w, ms), m.task # t,
             \A y \in DOMAIN ms : ms[y].task = m.task,
             fanouts'[t] = fanouts[t], status'[t] = status[t],
             t \in tmpdirs <=> t \in tmpdirs'
      PROVE  LifeOf(t)'
  BY <1>1, <1>2, <1>5, <1>7, <1>8, LifeKept
\* The next stage.
<1>9. ASSUME m \in Opening(m.task), UNCHANGED <<status, fanouts>>,
             NEW c \in Stages \ {"postprocess"}, Return(w, <<StageMsg(c, m.task)>>),
             tmpdirs' = tmpdirs \cup {m.task} \/ (c # "probe" /\ tmpdirs' = tmpdirs)
      PROVE  LifeOf(t)'
  <2> DEFINE x == StageMsg(c, m.task)
  <2>1. x \in Message /\ x.class = c /\ x.task = m.task
    BY <1>1, MessageTypes DEF StageMsg
  <2>2. <<x>> \in Seq(Message) /\ \A y \in DOMAIN <<x>> : <<x>>[y].task = m.task
    BY <2>1
  <2>3. CASE m.task # t
    BY <1>1, <1>8, <1>9, <2>2, <2>3
  <2>4. CASE m.task = t
    <3>1. \A M : Arrival(<<x>>, M)
      BY <1>3, <1>9, <2>2 DEF Handover
    <3> HIDE DEF x
    <3>2. Somewhere(Opening(t)) /\ Somewhere(Driving(t))
      BY <1>4, <1>9, <2>4 DEF Driving
    <3>3. status[t] = "running" /\ fanouts[t] = <<>>
      BY <1>2, <3>2 DEF StageOf, LifeOf, Unprobed
    <3>4. x \notin Closing(t) /\ \A b \in Waiting(t) : x \notin {b}
      BY <2>1, Kinds
    <3>5. \A i \in Impls : x \notin Tuning(t, i) /\ x \notin Measuring(t, i)
      BY <2>1, Kinds DEF Stages, TuneClass, ResultClass
    <3>6. Conserved(Closing(t)) /\ \A b \in Waiting(t) : Conserved({b})
      BY <3>1, <3>4, HitsOne DEF Arrival
    <3>7. \A i \in Impls : Conserved(Tuning(t, i)) /\ Conserved(Measuring(t, i))
      BY <3>1, <3>5, HitsOne DEF Arrival
    <3>8. Unprobed(t)'
      BY <1>2, <1>9, <3>3, <3>7 DEF Unprobed, LifeOf, Conserved
    <3>9. Expecting(t)'
      BY <1>1, <1>2, <3>6, <3>7 DEF Expecting, LifeOf, Conserved
    <3>10. DirectoryOf(t)'
      <4>1. Somewhere(Probing(t))' => Somewhere(Probing(t)) \/ t \in tmpdirs'
        <5>1. CASE c = "probe"
          BY <1>9, <2>4, <5>1
        <5>2. CASE c # "probe"
          <6>1. x \notin Probing(t)
            BY <2>1, <5>2 DEF Probing, StageMsg
          <6> QED BY <3>1, <6>1, HitsOne DEF Arrival
        <5> QED BY <5>1, <5>2
      <4> QED BY <1>2, <1>9, <3>3, <3>7, <4>1 DEF DirectoryOf, LifeOf, Conserved, Terminal
    <3> QED BY <3>8, <3>9, <3>10 DEF LifeOf
  <2> QED BY <2>3, <2>4
\* The fan-out.
<1>10. ASSUME m = StageMsg("probe", m.task), UNCHANGED <<status, tmpdirs>>, NEW f \in Fanouts,
              fanouts' = [fanouts EXCEPT ![m.task] = Append(@, ImplSet(f))],
              Return(w, Fanout(m.task, f))
       PROVE  LifeOf(t)'
  <2> DEFINE ms == Fanout(m.task, f)
             post == PostMsg(m.task, Len(fanouts[m.task]) + 1, ImplSet(f))
  <2>1. ms \in Seq(Message) /\ \A y \in DOMAIN ms : ms[y].task = m.task
    BY <1>1, FanoutType, FanoutHits
  <2>2. /\ Hits(ms, Opening(t)) = {} /\ Hits(ms, Closing(t)) = {}
        /\ Lone(Hits(ms, Driving(t)))
        /\ \A i : Lone(Hits(ms, Measuring(t, i)))
        /\ \A i : Hits(ms, Tuning(t, i)) # {} => i \in ImplSet(f)
        /\ \A b \in Waiting(t) : Hits(ms, {b}) # {} => b = post
    BY <1>1, FanoutHits
  <2>3. post.expected = ImplSet(f) /\ post.received = {}
    BY DEF PostMsg
  <2>4. /\ fanouts \in [Tasks -> Seq(SUBSET Impls)] /\ ImplSet(f) \in SUBSET Impls
    BY LocalQueueAssumption DEF TypeInv, TypeOK, ImplSet
  <2> HIDE DEF ms, post
  <2>5. CASE m.task # t
    <3>1. fanouts'[t] = fanouts[t]
      BY <1>1, <1>10, <2>4, <2>5
    <3> QED BY <1>8, <1>10, <2>1, <2>5, <3>1 DEF ms
  <2>6. CASE m.task = t
    <3>1. \A M : Handover(m, ms, M)
      BY <1>3, <1>10, <2>1 DEF ms
    <3>2. m \in Opening(t) /\ m \in Probing(t) /\ m \in Driving(t)
      BY <1>10, <2>6 DEF Opening, Probing, Driving, Stages
    <3>3. Somewhere(Opening(t)) /\ Somewhere(Probing(t)) /\ Somewhere(Driving(t))
      BY <1>4, <3>2
    <3>4. /\ status[t] = "running" /\ HeldBack(t) = {} /\ Unique(Driving(t))
          /\ fanouts[t] = <<>> /\ t \in tmpdirs /\ \A i \in Impls : ~ Somewhere(Measuring(t, i))
      BY <1>2, <3>3 DEF StageOf, LifeOf, Unprobed, DirectoryOf
    <3>5. ASSUME NEW N \in SUBSET Driving(t), Hits(ms, N) = {} PROVE ~ Somewhere(N)'
      BY <3>1, <3>2, <3>4, <3>5 DEF Handover
    <3>6. ~ Somewhere(Opening(t))' /\ ~ Somewhere(Closing(t))'
      BY <2>2, <3>5 DEF Driving
    <3>7. ASSUME NEW b \in Waiting(t), Somewhere({b})' PROVE b = post
      <4>1. {b} \in SUBSET Driving(t)
        BY DEF Driving
      <4> QED BY <2>2, <3>5, <3>7, <4>1
    <3>8. fanouts'[t] # <<>>
      BY <1>10, <2>4, <2>6
    <3>9. ASSUME NEW i \in Impls
          PROVE  /\ Unique(Measuring(t, i))'
                 /\ Somewhere(Tuning(t, i))' => i \in ImplSet(f)
      <4>1. ~ Somewhere(Tuning(t, i))
        BY <3>4, MoreIsSomewhere DEF Measuring
      <4>2. Arrival(ms, Measuring(t, i)) /\ Arrival(ms, Tuning(t, i))
        BY <3>1 DEF Handover
      <4> QED BY <2>2, <3>4, <4>1, <4>2 DEF Arrival
    <3>10. ~ \E b \in Waiting(t) : b \in blocked'
      BY <1>1, <3>4 DEF HeldBack, Waiting
    <3>11. Expecting(t)'
      BY <2>3, <3>6, <3>7, <3>9, <3>10 DEF Expecting, Waiting
    <3>12. Unprobed(t)'
      BY <1>10, <3>4, <3>6, <3>8 DEF Unprobed
    <3>13. DirectoryOf(t)'
      BY <1>10, <3>4 DEF DirectoryOf, Terminal
    <3> QED BY <3>11, <3>12, <3>13 DEF LifeOf
  <2> QED BY <2>5, <2>6
\* A benchmark or a result.
<1>11. ASSUME m.class \in {TuneClass, ResultClass}, UNCHANGED <<status, fanouts, tmpdirs>>,
              NEW ms, ms = <<ImplMsg(ResultClass, m.task, m.impl)>> \/ ms = <<>>, Return(w, ms)
       PROVE  LifeOf(t)'
  <2> DEFINE x == ImplMsg(ResultClass, m.task, m.impl)
  <2>1. m.impl \in Impls /\ x \in Message /\ x.class = ResultClass /\ x.task = m.task /\ x.impl = m.impl
    BY <1>1, <1>11, WorkFields, MessageTypes DEF ImplMsg
  <2>2. <<x>> \in Seq(Message) /\ <<>> \in Seq(Message) /\ \A y \in DOMAIN <<x>> : <<x>>[y] = x
    BY <2>1
  <2>3. ms \in Seq(Message) /\ \A y \in DOMAIN ms : ms[y].task = m.task
    <3>1. DOMAIN <<>> = {}
      OBVIOUS
    <3>2. ms = <<>> \/ ms = <<x>>
      BY <1>11
    <3> HIDE DEF x
    <3>3. CASE ms = <<>>
      BY <2>2, <3>1, <3>3
    <3>4. CASE ms = <<x>>
      BY <2>1, <2>2, <3>4
    <3> QED BY <3>2, <3>3, <3>4
  <2>4. CASE m.task # t
    BY <1>8, <1>11, <2>3, <2>4
  <2>5. CASE m.task = t
    <3>1. \A M : Handover(m, ms, M)
      BY <1>3, <1>11, <2>3
    <3> HIDE DEF x
    <3>2. \A M : /\ Lone(Hits(ms, M))
                 /\ x \notin M => Hits(ms, M) = {}
      BY <1>11, HitsOne, EmptyHits DEF x, Lone
    <3>3. \A M : x \notin M => Conserved(M)
      BY <3>1, <3>2 DEF Handover, Arrival
    <3>4. Conserved(Opening(t)) /\ Conserved(Closing(t)) /\ Conserved(Probing(t))
      <4>1. x \notin Opening(t) /\ x \notin Closing(t) /\ x \notin Probing(t)
        BY <2>1, Kinds DEF Probing, StageMsg, ResultClass, Stages
      <4> QED BY <3>3, <4>1
    <3>5. \A b \in Waiting(t) : Conserved({b})
      <4>1. \A b \in Waiting(t) : x \notin {b}
        BY <2>1, Kinds DEF ResultClass
      <4> QED BY <3>3, <4>1
    <3>6. \A i \in Impls : Conserved(Tuning(t, i))
      <4>1. \A i \in Impls : x \notin Tuning(t, i)
        BY <2>1, Kinds DEF TuneClass, ResultClass
      <4> QED BY <3>3, <4>1
    <3>7. ASSUME NEW i \in Impls
          PROVE  Conserved(Measuring(t, i))
      <4>1. CASE i # m.impl
        <5>1. x \notin Measuring(t, i)
          BY <2>1, <4>1, Kinds
        <5> QED BY <3>3, <5>1
      <4>2. CASE i = m.impl
        <5>1. m \in Measuring(t, i)
          BY <1>1, <1>11, <2>5, <4>2, Kinds
        <5>2. Unique(Measuring(t, i))
          BY <1>2 DEF LifeOf, Expecting
        <5> QED BY <3>1, <3>2, <5>1, <5>2 DEF Handover, Conserved
      <4> QED BY <4>1, <4>2
    <3>8. Calm(t)
      BY <3>4, <3>5, <3>6, <3>7 DEF Calm
    <3> QED BY <1>1, <1>2, <1>5, <1>11, <3>8, LifeKept
  <2> QED BY <2>4, <2>5
\* The end of a task.
<1>12. ASSUME m \in Opening(m.task) \cup Closing(m.task), fanouts' = fanouts,
              NEW outcome \in Terminal, status' = [status EXCEPT ![m.task] = outcome],
              NEW sign \in {"ack", "nak"}, Return(w, <<AckMsg(m.task, sign)>>),
              RemoveTmpdir(m.task)
       PROVE  LifeOf(t)'
  <2> DEFINE x == AckMsg(m.task, sign)
  <2>1. x \in Message /\ x.class = "tune_kernel_ack" /\ x.task = m.task
    BY <1>1, MessageTypes DEF AckMsg
  <2>2. <<x>> \in Seq(Message) /\ \A y \in DOMAIN <<x>> : <<x>>[y] = x
    BY <2>1
  <2>3. CASE m.task # t
    <3>1. status'[t] = status[t] /\ (t \in tmpdirs <=> t \in tmpdirs')
      BY <1>1, <1>12, <2>3 DEF RemoveTmpdir, TypeInv, TypeOK
    <3> QED BY <1>8, <1>12, <2>1, <2>2, <2>3, <3>1
  <2>4. CASE m.task = t
    <3>1. Calm(t)
      BY <1>7, <1>12, <2>1, <2>2
    <3>2. status'[t] = outcome /\ outcome # "pending"
      BY <1>12, <2>4 DEF TypeInv, TypeOK, Terminal
    <3>3. Unprobed(t)'
      BY <1>2, <1>12, <3>1, <3>2 DEF LifeOf, Unprobed, Calm, Conserved
    <3>4. Expecting(t)'
      BY <1>1, <1>2, <3>1 DEF LifeOf, Expecting, Calm, Conserved
    <3>5. ~ Somewhere(Driving(t))'
      <4>1. m \in Driving(t)
        BY <1>12, <2>4 DEF Driving
      <4>2. Unique(Driving(t)) /\ Driving(t) \in SUBSET Driving(t)
        BY <1>2 DEF StageOf
      <4>3. Hits(<<x>>, Driving(t)) = {}
        BY <1>1, <2>1, Foreign, HitsOne
      <4>4. Handover(m, <<x>>, Driving(t))
        BY <1>3, <1>12, <2>2
      <4> QED BY <4>1, <4>2, <4>3, <4>4 DEF Handover
    <3>6. ~ Somewhere(Probing(t))'
      <4>1. Probing(t) \subseteq Driving(t)
        BY DEF Probing, Driving, Opening, Stages
      <4> QED BY <3>5, <4>1, MoreIsSomewhere
    <3>7. \A i \in Impls : ~ Somewhere(Tuning(t, i))'
      <4>1. Somewhere(Opening(t)) \/ Somewhere(Closing(t))
        BY <1>4, <1>12, <2>4
      <4>2. \A i \in Impls : ~ Somewhere(Tuning(t, i))
        <5>1. ASSUME NEW i \in Impls, Somewhere(Tuning(t, i)) PROVE Somewhere(Measuring(t, i))
          BY <5>1, MoreIsSomewhere DEF Measuring
        <5> QED BY <1>2, <4>1, <5>1 DEF LifeOf, Unprobed, Expecting
      <4> QED BY <3>1, <4>2 DEF Calm, Conserved
    <3>8. stops' = 0 => t \notin tmpdirs'
      BY <1>5, <1>12, <2>4 DEF RemoveTmpdir
    <3>9. DirectoryOf(t)'
      BY <3>6, <3>7, <3>8 DEF DirectoryOf
    <3> QED BY <3>3, <3>4, <3>9 DEF LifeOf
  <2> QED BY <2>3, <2>4
<1> QED BY <1>1, <1>9, <1>10, <1>11, <1>12 DEF HandlesTask

LEMMA NextLife ==
  ASSUME TypeInv, StageInv, LifeInv, [Next]_vars, resets' # resets + 1
  PROVE  StageInv' /\ LifeInv'
<1>1. CASE Quiet
  BY <1>1, QuietStage, QuietLife
<1>2. CASE \E r \in Readers, t \in Tasks : FetchTask(r, t) \/ DieFetching(r, t)
  BY <1>2, FetchStage, FetchLife
<1>3. CASE \E w \in Workers : Handle(w)
  BY <1>3, HandleStage, HandleLife
<1>4. CASE \E p \in Procs : ForwardBlocked(p)
  BY <1>4, BlockStage, BlockLife
<1>5. CASE \E p \in Procs : ForwardResult(p)
  BY <1>5, ResultStage, ResultLife
<1> QED BY <1>1, <1>2, <1>3, <1>4, <1>5, NextCases

LEMMA InitLife == Init => StageInv /\ LifeInv
<1>1. ASSUME Init, NEW t \in Tasks PROVE LifeOf(t)
  <2>1. \A M : ~ Somewhere(M)
    BY <1>1, InitNowhere
  <2>2. fanouts[t] = <<>> /\ blocked = {} /\ status[t] = "pending"
    BY <1>1 DEF Init
  <2>3. Unprobed(t)
    BY <2>1, <2>2 DEF Unprobed
  <2>4. Expecting(t)
    BY <2>1, <2>2 DEF Expecting, Somewhere, Unique
  <2>5. DirectoryOf(t)
    BY <2>1, <2>2 DEF DirectoryOf, Terminal
  <2> QED BY <2>3, <2>4, <2>5 DEF LifeOf
<1> QED BY <1>1, InitStage DEF LifeInv

\* Until a stale task is reset.
LifeUntilReset == resets = 0 => StageInv /\ LifeInv

LEMMA NextUntilReset ==
  ASSUME TypeInv, LifeUntilReset, [Next]_vars
  PROVE  LifeUntilReset'
<1> SUFFICES ASSUME resets' = 0 PROVE StageInv' /\ LifeInv'
  BY DEF LifeUntilReset
<1>1. resets = 0 /\ resets' # resets + 1
  BY ResetsCounted DEF TypeInv, TypeOK
<1> QED BY <1>1, NextLife DEF LifeUntilReset

-----------------------------------------------------------------------------
(* The properties of the runs                                              *)

\* A copy is a message at a place.
MessageAt(e, t, C) ==
  \E x \in Place : \E m \in Work \cup Message :
    /\ m.task = t /\ m.class \in C
    /\ \E i \in At(x, {m}) : e = <<x[1], x[2], i>>

LEMMA CopyIsSomewhere ==
  ASSUME TypeInv, NEW t \in Tasks, NEW C, NEW e \in Copies(t, C)
  PROVE  MessageAt(e, t, C)
<1> USE DEF TypeInv, TypeOK
<1>1. ASSUME NEW p \in Procs, NEW i \in DOMAIN toBroker[p], e = <<"sent", p, i>>,
             toBroker[p][i].type = "forward", toBroker[p][i].message.task = t,
             toBroker[p][i].message.class \in C
      PROVE  MessageAt(e, t, C)
  <2> DEFINE x == <<"sent", p>>
             m == toBroker[p][i].message
  <2>1. toBroker[p][i] \in Request
    BY <1>1, ElementOfSeq, LenProperties
  <2>2. m \in Message
    BY <1>1, <2>1, RequestFields
  <2>3. x \in Place /\ Content(x) = toBroker[p] /\ Carrying(x, {m}) = Forwarding({m})
    BY Places, Carries
  <2>4. i \in At(x, {m})
    BY <1>1, <2>1, <2>3 DEF At, Hits, Forwarding
  <2>5. x[1] = "sent" /\ x[2] = p
    OBVIOUS
  <2> HIDE DEF x, m
  <2>6. m.task = t /\ m.class \in C
    BY <1>1 DEF m
  <2> QED BY <1>1, <2>2, <2>3, <2>4, <2>5, <2>6 DEF MessageAt
<1>2. ASSUME NEW a \in {"queued", "held"}, NEW b, NEW s \in Seq(Work), NEW i \in DOMAIN s,
             e = <<a, b, i>>, <<a, b>> \in Place, Content(<<a, b>>) = s,
             s[i].task = t, s[i].class \in C
      PROVE  MessageAt(e, t, C)
  <2> DEFINE x == <<a, b>>
             m == s[i]
  <2>1. m \in Work
    BY <1>2, ElementOfSeq, LenProperties
  <2>2. Carrying(x, {m}) = {m}
    BY <1>2, Carries
  <2>3. i \in At(x, {m})
    BY <1>2, <2>2 DEF At, Hits
  <2>4. x[1] = a /\ x[2] = b
    OBVIOUS
  <2> HIDE DEF x, m
  <2>5. m.task = t /\ m.class \in C /\ x \in Place
    BY <1>2 DEF m, x
  <2> QED BY <1>2, <2>1, <2>3, <2>4, <2>5 DEF MessageAt
<1>3. ASSUME NEW w \in Workers, NEW i \in DOMAIN toWorker[w], e = <<"replied", w, i>>,
             toWorker[w][i].type = "task", toWorker[w][i].message.task = t,
             toWorker[w][i].message.class \in C
      PROVE  MessageAt(e, t, C)
  <2> DEFINE x == <<"replied", w>>
             m == toWorker[w][i].message
  <2>1. toWorker[w][i] \in Response
    BY <1>3, ElementOfSeq, LenProperties DEF Procs
  <2>2. m \in Work
    BY <1>3, <2>1 DEF Response
  <2>3. x \in Place /\ Content(x) = toWorker[w] /\ Carrying(x, {m}) = Replying({m})
    BY Places, Carries
  <2>4. i \in At(x, {m})
    BY <1>3, <2>1, <2>3 DEF At, Hits, Replying
  <2>5. x[1] = "replied" /\ x[2] = w
    OBVIOUS
  <2> HIDE DEF x, m
  <2>6. m.task = t /\ m.class \in C
    BY <1>3 DEF m
  <2> QED BY <1>3, <2>2, <2>3, <2>4, <2>5, <2>6 DEF MessageAt
<1>4. ASSUME NEW q \in QueueName, NEW i \in DOMAIN queue[q], e = <<"queued", q, i>>,
             queue[q][i].task = t, queue[q][i].class \in C
      PROVE  MessageAt(e, t, C)
  <2>1. queue[q] \in Seq(Work) /\ <<"queued", q>> \in Place /\ Content(<<"queued", q>>) = queue[q]
    BY Places
  <2> QED BY <1>2, <1>4, <2>1
<1>5. ASSUME NEW w \in Workers, NEW i \in DOMAIN hand[w], e = <<"held", w, i>>,
             hand[w][i].task = t, hand[w][i].class \in C
      PROVE  MessageAt(e, t, C)
  <2>1. hand[w] \in Seq(Work) /\ <<"held", w>> \in Place /\ Content(<<"held", w>>) = hand[w]
    BY Places
  <2> QED BY <1>2, <1>5, <2>1
<1>6. \/ \E p \in Procs : \E i \in DOMAIN toBroker[p] :
           /\ e = <<"sent", p, i>> /\ toBroker[p][i].type = "forward"
           /\ toBroker[p][i].message.task = t /\ toBroker[p][i].message.class \in C
      \/ \E q \in QueueName : \E i \in DOMAIN queue[q] :
           e = <<"queued", q, i>> /\ queue[q][i].task = t /\ queue[q][i].class \in C
      \/ \E w \in Workers : \E i \in DOMAIN toWorker[w] :
           /\ e = <<"replied", w, i>> /\ toWorker[w][i].type = "task"
           /\ toWorker[w][i].message.task = t /\ toWorker[w][i].message.class \in C
      \/ \E w \in Workers : \E i \in DOMAIN hand[w] :
           e = <<"held", w, i>> /\ hand[w][i].task = t /\ hand[w][i].class \in C
  <2> DEFINE wanted(s) == { i \in DOMAIN s : s[i].task = t /\ s[i].class \in C }
             sent(p)   == { i \in DOMAIN toBroker[p] :
                              /\ toBroker[p][i].type = "forward"
                              /\ toBroker[p][i].message.task = t
                              /\ toBroker[p][i].message.class \in C }
             replied(w) == { i \in DOMAIN toWorker[w] :
                              /\ toWorker[w][i].type = "task"
                              /\ toWorker[w][i].message.task = t
                              /\ toWorker[w][i].message.class \in C }
  <2>1. \/ e \in UNION { {"sent"} \X {p} \X sent(p) : p \in Procs }
        \/ e \in UNION { {"queued"} \X {q} \X wanted(queue[q]) : q \in QueueName }
        \/ e \in UNION { {"replied"} \X {w} \X replied(w) : w \in Workers }
        \/ e \in UNION { {"held"} \X {w} \X wanted(hand[w]) : w \in Workers }
    BY DEF Copies
  <2>2. \/ \E p \in Procs : e \in {"sent"} \X {p} \X sent(p)
        \/ \E q \in QueueName : e \in {"queued"} \X {q} \X wanted(queue[q])
        \/ \E w \in Workers : e \in {"replied"} \X {w} \X replied(w)
        \/ \E w \in Workers : e \in {"held"} \X {w} \X wanted(hand[w])
    <3> HIDE DEF sent, wanted, replied
    <3> QED BY <2>1
  <2>3. \A a, b, S : e \in {a} \X {b} \X S => \E i \in S : e = <<a, b, i>>
    OBVIOUS
  <2>4. CASE \E p \in Procs : e \in {"sent"} \X {p} \X sent(p)
    BY <2>3, <2>4
  <2>5. CASE \E q \in QueueName : e \in {"queued"} \X {q} \X wanted(queue[q])
    BY <2>3, <2>5
  <2>6. CASE \E w \in Workers : e \in {"replied"} \X {w} \X replied(w)
    BY <2>3, <2>6
  <2>7. CASE \E w \in Workers : e \in {"held"} \X {w} \X wanted(hand[w])
    BY <2>3, <2>7
  <2> QED BY <2>2, <2>4, <2>5, <2>6, <2>7
<1> QED BY <1>1, <1>3, <1>4, <1>5, <1>6

\* At most one message moves a task on, and none once it has finished.
LEMMA StageIsOne == ASSUME TypeInv, StageInv PROVE OneStage
<1> SUFFICES ASSUME NEW t \in Tasks
             PROVE  Cardinality(Copies(t, Drivers) \cup {b \in blocked : b.task = t})
                      <= (IF status[t] = "running" THEN 1 ELSE 0)
  BY DEF OneStage
<1> DEFINE S == Copies(t, Drivers) \cup HeldBack(t)
<1>1. StageOf(t)
  BY DEF StageInv
<1>2. ASSUME NEW e \in Copies(t, Drivers)
      PROVE  \E x \in Place : \E i \in At(x, Driving(t)) : e = <<x[1], x[2], i>>
  <2>1. MessageAt(e, t, Drivers)
    BY CopyIsSomewhere
  <2>2. PICK x \in Place, m \in Work \cup Message :
          /\ m.task = t /\ m.class \in Drivers
          /\ \E i \in At(x, {m}) : e = <<x[1], x[2], i>>
    BY <2>1, Zenon DEF MessageAt
  <2>3. m \in Driving(t)
    <3>1. m.class \in Stages
      BY <2>2 DEF Drivers, Stages
    <3> QED BY <2>2, <3>1, Kinds DEF Driving
  <2>4. At(x, {m}) \subseteq At(x, Driving(t))
    BY <2>3 DEF At, Hits, Carrying, Forwarding, Replying
  <2> QED BY <2>2, <2>4
<1>3. Copies(t, Drivers) # {} => Somewhere(Driving(t))
  BY <1>2 DEF Somewhere
<1>4. Lone(S)
  <2>1. Lone(Copies(t, Drivers))
    <3> SUFFICES ASSUME NEW d \in Copies(t, Drivers), NEW e \in Copies(t, Drivers) PROVE d = e
      BY DEF Lone
    <3>1. PICK x \in Place : \E i \in At(x, Driving(t)) : d = <<x[1], x[2], i>>
      BY <1>2
    <3>2. PICK y \in Place : \E j \in At(y, Driving(t)) : e = <<y[1], y[2], j>>
      BY <1>2
    <3>3. \A i \in At(x, Driving(t)), j \in At(y, Driving(t)) : x = y /\ i = j
      BY <1>1 DEF StageOf, Unique
    <3> QED BY <3>1, <3>2, <3>3
  <2>2. Copies(t, Drivers) = {} \/ HeldBack(t) = {}
    BY <1>1, <1>3 DEF StageOf
  <2> QED BY <1>1, <2>1, <2>2 DEF StageOf, Lone
<1>5. S # {} => status[t] = "running"
  BY <1>1, <1>3 DEF StageOf
<1> HIDE DEF S
<1>6. CASE S = {}
  <2>1. Cardinality(S) = 0
    BY <1>6, FS_EmptySet
  <2> QED BY <2>1 DEF S, HeldBack
<1>7. CASE S # {}
  <2>1. PICK e : S = {e}
    BY <1>4, <1>7 DEF Lone
  <2>2. Cardinality(S) = 1
    BY <2>1, FS_Singleton
  <2> QED BY <1>5, <1>7, <2>2 DEF S, HeldBack
<1> QED BY <1>6, <1>7

\* The message a worker probes or benchmarks for is one that needs the directory.
LEMMA NeedsDirectory ==
  ASSUME LifeInv, NEW t \in Tasks, NEW m \in Work \cup Message, Somewhere({m}),
         m.task = t, m.class \in {"probe", TuneClass}
  PROVE  t \in tmpdirs
<1>1. CASE m.class = "probe"
  <2>1. m \in Opening(t)
    BY <1>1, Kinds DEF Stages
  <2>2. m \in Probing(t)
    BY <1>1, <2>1 DEF Opening, Probing, StageMsg
  <2>3. Somewhere(Probing(t))
    BY <2>2, MoreIsSomewhere
  <2> QED BY <2>3 DEF LifeInv, LifeOf, DirectoryOf
<1>2. CASE m.class = TuneClass
  <2>1. m \in Work
    BY <1>2, MessageFields DEF TuneClass, ResultClass
  <2>2. m.impl \in Impls
    BY <1>2, <2>1, WorkFields
  <2>3. m \in Tuning(t, m.impl)
    BY <1>2, Kinds
  <2>4. Somewhere(Tuning(t, m.impl))
    BY <2>3, MoreIsSomewhere
  <2> QED BY <2>2, <2>4 DEF LifeInv, LifeOf, DirectoryOf
<1> QED BY <1>1, <1>2

LEMMA CopyNeedsDirectory ==
  ASSUME TypeInv, LifeInv, NEW t \in Tasks, NEW C, C \subseteq {"probe", TuneClass},
         NEW e \in Copies(t, C)
  PROVE  t \in tmpdirs
<1>1. MessageAt(e, t, C)
  BY CopyIsSomewhere
<1>2. PICK x \in Place : \E m \in Work \cup Message :
        m.task = t /\ m.class \in C /\ At(x, {m}) # {}
  BY <1>1 DEF MessageAt
<1>3. PICK m \in Work \cup Message : m.task = t /\ m.class \in C /\ At(x, {m}) # {}
  BY <1>2
<1>4. Somewhere({m})
  BY <1>3 DEF Somewhere
<1>5. m.class \in {"probe", TuneClass}
  BY <1>3
<1> QED BY <1>3, <1>4, <1>5, NeedsDirectory

\* The directory is there as long as it is needed.
LEMMA LifeKeepsDirectory == ASSUME TypeInv, LifeInv PROVE TmpdirLifetime
<1> DEFINE C == {"probe", TuneClass}
<1>1. ASSUME NEW t \in Tasks, NEW e \in Copies(t, C) PROVE t \in tmpdirs
  <2>1. C \subseteq {"probe", TuneClass}
    OBVIOUS
  <2> HIDE DEF C
  <2> QED BY <1>1, <2>1, CopyNeedsDirectory
<1>2. \A t \in Tasks : status[t] \in Terminal /\ stops = 0 => t \notin tmpdirs
  BY DEF LifeInv, LifeOf, DirectoryOf
<1> HIDE DEF C
<1>3. \A t \in Tasks : Copies(t, C) # {} => t \in tmpdirs
  BY <1>1
<1> QED BY <1>2, <1>3 DEF TmpdirLifetime, C

LEMMA LifeHolds == Spec => [](TypeInv /\ LifeUntilReset)
<1>1. Init => LifeUntilReset
  BY InitLife DEF LifeUntilReset
<1>2. TypeInv /\ LifeUntilReset /\ [Next]_vars => (TypeInv /\ LifeUntilReset)'
  BY NextType, NextUntilReset
<1> QED BY <1>1, <1>2, InitTypeInv, PTL DEF Spec

\* As long as no task was reset, a task is in one stage at a time, whatever
\* stops, raises or is restarted (OneStage).
THEOREM OneStageAtATime == Spec => [](resets = 0 => OneStage)
<1>1. TypeInv /\ LifeUntilReset => (resets = 0 => OneStage)
  BY StageIsOne DEF LifeUntilReset
<1> QED BY <1>1, LifeHolds, PTL

\* As long as no task was reset, the directory of a task is there for everyone
\* who may still read it, and gone with the task (TmpdirLifetime).
THEOREM DirectoryLivesLongEnough == Spec => [](resets = 0 => TmpdirLifetime)
<1>1. TypeInv /\ LifeUntilReset => (resets = 0 => TmpdirLifetime)
  BY LifeKeepsDirectory DEF LifeUntilReset
<1> QED BY <1>1, LifeHolds, PTL

-----------------------------------------------------------------------------
(* What a held-back message waits for is on its way                        *)

\* What is in a sequence.
LEMMA RangeConcat ==
  ASSUME NEW A, NEW a \in Seq(A), NEW b \in Seq(A)
  PROVE  Range(a \o b) = Range(a) \cup Range(b)
<1> DEFINE c == a \o b
           n == Len(a)
<1>1. /\ n \in Nat /\ Len(b) \in Nat /\ DOMAIN a = 1 .. n /\ DOMAIN b = 1 .. Len(b)
      /\ DOMAIN c = 1 .. n + Len(b)
      /\ \A k \in 1 .. n : c[k] = a[k]
      /\ \A k \in 1 .. Len(b) : c[n + k] = b[k]
  OBVIOUS
<1>2. \A k \in DOMAIN c : k \in 1 .. n \/ (k - n \in 1 .. Len(b) /\ k = n + (k - n))
  BY <1>1
<1> HIDE DEF c, n
<1>3. \A k \in 1 .. n : k \in DOMAIN c
  BY <1>1
<1>4. \A k \in 1 .. Len(b) : n + k \in DOMAIN c
  BY <1>1
<1>5. ASSUME NEW k \in DOMAIN c PROVE c[k] \in Range(a) \cup Range(b)
  BY <1>1, <1>2 DEF Range
<1>6. ASSUME NEW k \in DOMAIN a PROVE a[k] \in Range(c)
  BY <1>1, <1>3 DEF Range
<1>7. ASSUME NEW k \in DOMAIN b PROVE b[k] \in Range(c)
  BY <1>1, <1>4 DEF Range
<1> QED BY <1>5, <1>6, <1>7 DEF Range, c

(* Concatenation under a name of its own, which the provers do not expand. *)
LEMMA RangeJoined ==
  ASSUME NEW A
  PROVE  \A a, b \in Seq(A) : Range(Joined(a, b)) = Range(a) \cup Range(b)
BY RangeConcat DEF Joined

LEMMA RangeOne == ASSUME NEW x PROVE Range(<<x>>) = {x} /\ Range(<<>>) = {}
<1>1. DOMAIN <<x>> = {1} /\ <<x>>[1] = x
  OBVIOUS
<1> QED BY <1>1 DEF Range

LEMMA RangeAppend ==
  ASSUME NEW A, NEW a \in Seq(A), NEW x \in A
  PROVE  Range(Append(a, x)) = Range(a) \cup {x}
<1>1. Append(a, x) = a \o <<x>> /\ <<x>> \in Seq(A)
  OBVIOUS
<1>2. Range(a \o <<x>>) = Range(a) \cup Range(<<x>>)
  BY <1>1, RangeConcat
<1> QED BY <1>1, <1>2, RangeOne

LEMMA RangeTail ==
  ASSUME NEW A, NEW a \in Seq(A), a # <<>>
  PROVE  /\ Range(a) = {Head(a)} \cup Range(Tail(a))
         /\ Head(a) \in A /\ Tail(a) \in Seq(A)
<1>1. /\ Len(a) \in Nat \ {0} /\ DOMAIN a = 1 .. Len(a) /\ Head(a) = a[1] /\ Tail(a) \in Seq(A)
      /\ DOMAIN Tail(a) = 1 .. Len(a) - 1 /\ \A k \in 1 .. Len(a) - 1 : Tail(a)[k] = a[k + 1]
  OBVIOUS
<1>2. \A k \in DOMAIN a : k = 1 \/ k - 1 \in DOMAIN Tail(a)
  BY <1>1
<1>3. \A k \in DOMAIN Tail(a) : k + 1 \in DOMAIN a
  BY <1>1
<1>4. ASSUME NEW k \in DOMAIN a PROVE a[k] \in {Head(a)} \cup Range(Tail(a))
  <2>1. CASE k = 1
    BY <1>1, <2>1
  <2>2. CASE k - 1 \in DOMAIN Tail(a)
    BY <1>1, <2>2 DEF Range
  <2> QED BY <1>2, <2>1, <2>2
<1>5. ASSUME NEW k \in DOMAIN Tail(a) PROVE Tail(a)[k] \in Range(a)
  BY <1>1, <1>3 DEF Range
<1>6. Head(a) \in Range(a) /\ Head(a) \in A
  BY <1>1 DEF Range
<1> QED BY <1>1, <1>4, <1>5, <1>6 DEF Range

LEMMA RangeInsert ==
  ASSUME NEW A, NEW q \in Seq(A), NEW ms \in Seq(A), NEW p \in Int
  PROVE  Range(Insert(q, ms, p)) = Range(q) \cup Range(ms)
<1> DEFINE i == InsertPosition(q, p)
           a == SubSeq(q, 1, i - 1)
           b == SubSeq(q, i, Len(q))
<1>1. i \in 1 .. Len(q) + 1 /\ Len(q) \in Nat
  <2>1. i \in 1 .. Len(q) + 1
    BY InsertPositionSplits
  <2> QED BY <2>1
<1> HIDE DEF i
<1>2. a \in Seq(A) /\ b \in Seq(A) /\ a \o ms \in Seq(A)
  <2>1. \A k \in 1 .. Len(q) : q[k] \in A
    OBVIOUS
  <2>2. a \in Seq(A) /\ b \in Seq(A)
    BY <1>1, <2>1, SubSeqProperties
  <2> QED BY <2>2
<1>3. /\ DOMAIN a = 1 .. i - 1 /\ \A k \in 1 .. i - 1 : a[k] = q[k]
      /\ DOMAIN b = 1 .. Len(q) - i + 1 /\ \A k \in 1 .. Len(q) - i + 1 : b[k] = q[i + k - 1]
  <2>1. \A k \in 1 .. Len(q) : q[k] \in A
    OBVIOUS
  <2>2. DOMAIN a = 1 .. i - 1 /\ \A k \in 1 .. i - 1 : a[k] = q[k]
    BY <1>1, <2>1
  <2>3. DOMAIN b = 1 .. Len(q) - i + 1 /\ \A k \in 1 .. Len(q) - i + 1 : b[k] = q[i + k - 1]
    BY <1>1, <2>1
  <2> QED BY <2>2, <2>3
<1>4. Insert(q, ms, p) = (a \o ms) \o b
  BY DEF Insert, i
<1> HIDE DEF a, b
<1>5. \A k \in 1 .. i - 1 : k \in DOMAIN q
  BY <1>1
<1>6. \A k \in 1 .. Len(q) - i + 1 : i + k - 1 \in DOMAIN q
  BY <1>1
<1>7. \A k \in DOMAIN q : k \in 1 .. i - 1 \/ (k - i + 1 \in 1 .. Len(q) - i + 1 /\ i + (k - i + 1) - 1 = k)
  BY <1>1
<1>8. Range(a) \subseteq Range(q) /\ Range(b) \subseteq Range(q)
  BY <1>3, <1>5, <1>6 DEF Range
<1>9. ASSUME NEW k \in DOMAIN q PROVE q[k] \in Range(a) \cup Range(b)
  <2>1. CASE k \in 1 .. i - 1
    BY <1>3, <2>1 DEF Range
  <2>2. CASE k - i + 1 \in 1 .. Len(q) - i + 1 /\ i + (k - i + 1) - 1 = k
    BY <1>3, <2>2 DEF Range
  <2> QED BY <1>7, <2>1, <2>2
<1>10. Range(q) = Range(a) \cup Range(b)
  BY <1>8, <1>9 DEF Range
<1>11. Range((a \o ms) \o b) = Range(a) \cup Range(ms) \cup Range(b)
  <2> DEFINE am == a \o ms
  <2>1. a \in Seq(A) /\ ms \in Seq(A) /\ b \in Seq(A) /\ am \in Seq(A)
    BY <1>2
  <2>2. Range(am) = Range(a) \cup Range(ms)
    BY <2>1, RangeConcat
  <2> HIDE DEF am
  <2>3. Range(am \o b) = Range(am) \cup Range(b)
    BY <2>1, RangeConcat
  <2> QED BY <2>2, <2>3 DEF am
<1> DEFINE whole == (a \o ms) \o b
<1> HIDE DEF whole
<1>12. Range(whole) = Range(q) \cup Range(ms)
  BY <1>10, <1>11 DEF whole
<1> QED BY <1>4, <1>12 DEF whole

LEMMA RangeEnqueue ==
  ASSUME NEW q \in Seq(Work), NEW m \in Work
  PROVE  Range(Enqueue(q, m)) = Range(q) \cup {m}
<1>1. <<m>> \in Seq(Work) /\ Priority(m.class) \in Int
  BY PriorityType
<1>2. Range(Insert(q, <<m>>, Priority(m.class))) = Range(q) \cup Range(<<m>>)
  <2> DEFINE ms == <<m>>
             p == Priority(m.class)
  <2>1. ms \in Seq(Work) /\ p \in Int
    BY <1>1
  <2> HIDE DEF ms, p
  <2>2. Range(Insert(q, ms, p)) = Range(q) \cup Range(ms)
    BY <2>1, RangeInsert
  <2> QED BY <2>2 DEF ms, p
<1> QED BY <1>2, RangeOne DEF Enqueue

LEMMA RangeForwards ==
  ASSUME NEW ms \in Seq(Message)
  PROVE  Range(Forwards(ms)) = { [type |-> "forward", message |-> m] : m \in Range(ms) }
  BY DEF Forwards, Range

\* Nobody was stopped, no exception escaped.  Resets do no harm here.
Untroubled == stops = 0 /\ raises = 0

\* What the workers of a queue are given.
ClassesOf(q) == IF q = "gpu_queue" THEN {"tune_kernel", "preprocess", "probe", TuneClass}
                                   ELSE {"postprocess", "mark_task_failed", ResultClass}

Is(e, c) == e.type = "forward" /\ e.message.class = c
Plain(e) == \A c \in {TuneClass, ResultClass, "postprocess"} : ~ Is(e, c)

\* Benchmarks stay on the GPU's side, and only it sends what a probe returns.
Allotted ==
  /\ \A q \in QueueName : \A m \in Range(queue[q]) : m.class \in ClassesOf(q)
  /\ \A w \in Workers : /\ \A m \in Range(hand[w]) : m.class \in ClassesOf(QueueOf(w))
                        /\ \A e \in Range(toWorker[w]) :
                             e.type = "task" => e.message.class \in ClassesOf(QueueOf(w))
  /\ \A p \in Procs \ GpuWorkers : \A e \in Range(toBroker[p]) : Plain(e)

\* A worker and the broker take turns: what a worker sent has been served when
\* the broker answers its request and while it handles a message.
InTurn(w) ==
  /\ hand[w] # <<>> => hand[w] = <<Head(hand[w])>> /\ ~ asked[w] /\ toBroker[w] = <<>>
  /\ toWorker[w] # <<>> => Tail(toWorker[w]) = <<>> /\ asked[w] /\ toBroker[w] = <<>>
  /\ \A k \in DOMAIN toBroker[w] :
       toBroker[w][k].type = "get_task" =>
         k = Len(toBroker[w]) /\ asked[w] /\ toWorker[w] = <<>>

\* A probe's messages are served before the next request of its worker: none of
\* their results is there while its postprocess message is still to be served.
Apart(w) == \A x, y \in Range(toBroker[w]) : ~ (Is(x, "postprocess") /\ Is(y, ResultClass))

\* What a postprocess message expects when it reaches the broker is to come.
Due(m)    == m.received = {} /\ m.expected # {} /\ m.expected \subseteq ToCome(m.task)
Announced == \A p \in Procs : \A e \in Range(toBroker[p]) : Is(e, "postprocess") => Due(e.message)

\* One process benchmarks, and a probe finds something to benchmark.
OneBenchmarker == (\A v, w \in GpuWorkers : v = w) /\ <<>> \notin Fanouts

FlowInv   == running = Procs /\ Allotted /\ \A w \in Workers : InTurn(w) /\ Apart(w)
SourceInv == Announced /\ BlockedHasSource

\* A step that moves no message between a worker and the broker.
Idle ==
  /\ UNCHANGED <<toBroker, queue, hand, asked, blocked>>
  /\ \A w \in Workers : toWorker'[w] = toWorker[w]

LEMMA UntroubledCases ==
  ASSUME TypeInv, [Next]_vars, Untroubled', Untroubled => running = Procs
  PROVE  /\ Untroubled /\ running' = Procs
         /\ \/ Idle
            \/ \E r \in Readers, t \in Tasks : FetchTask(r, t)
            \/ \E w \in Workers : GetTask(w) \/ ReceiveReply(w) \/ Handle(w) \/ HandleGetTask(w)
            \/ \E r \in Readers : HandleRegisterAck(r)
            \/ \E p \in Procs : ForwardBlocked(p) \/ ForwardResult(p)
                                \/ ForwardAck(p) \/ ForwardPlain(p)
<1> USE DEF TypeInv, TypeOK, Untroubled
<1> DEFINE Result == /\ Untroubled /\ running' = Procs
                     /\ \/ Idle
                        \/ \E r \in Readers, t \in Tasks : FetchTask(r, t)
                        \/ \E w \in Workers : GetTask(w) \/ ReceiveReply(w) \/ Handle(w) \/ HandleGetTask(w)
                        \/ \E r \in Readers : HandleRegisterAck(r)
                        \/ \E p \in Procs : ForwardBlocked(p) \/ ForwardResult(p)
                                            \/ ForwardAck(p) \/ ForwardPlain(p)
<1>1. CASE UNCHANGED vars
  BY <1>1 DEF Idle, vars, broker, worker, bounds
<1>2. ASSUME NEW r \in Readers, NEW t \in Tasks, FetchTask(r, t) PROVE Result
  BY <1>2 DEF FetchTask, bounds
<1>3. ASSUME NEW r \in Readers, NEW t \in Tasks, FetchRaises(r, t) \/ DieFetching(r, t) PROVE FALSE
  BY <1>3 DEF FetchRaises, DieFetching
<1>4. ASSUME NEW r \in Readers, ReceiveAck(r) PROVE Result
  <2>1. \A w \in Workers : toWorker'[w] = toWorker[w]
    BY <1>4, LocalQueueAssumption DEF ReceiveAck, Procs
  <2> QED BY <1>4, <2>1 DEF ReceiveAck, Idle, broker, worker, bounds
<1>5. ASSUME NEW w \in Workers, GetTask(w) \/ ReceiveReply(w) PROVE Result
  BY <1>5 DEF GetTask, ReceiveReply, bounds
<1>6. ASSUME NEW w \in Workers, Handle(w) PROVE Result
  <2>1. \E ms : Return(w, ms)
    BY <1>6 DEF Handle, TuneKernel, PreprocessOk, PreprocessFails, ProbeOk, ProbeFails,
       TuneImpl, WriteResult, Postprocess, MarkTaskFailed
  <2>2. raises' = raises /\ (stops' = stops + 1 \/ (stops' = stops /\ running' = running))
    BY <2>1 DEF Return
  <2> QED BY <1>6, <2>2
<1>7. ASSUME NEW w \in Workers, HandlerRaises(w) PROVE FALSE
  BY <1>7 DEF HandlerRaises
<1>8. ASSUME NEW p \in Procs, Stop(p) PROVE FALSE
  BY <1>8 DEF Stop
<1>9. ASSUME NEW p \in Procs, RemoveWorker(p) \/ Restart(p) PROVE FALSE
  BY <1>9 DEF RemoveWorker, Restart, bounds
<1>10. ASSUME NEW p \in Procs, Broker(p), ~ RemoveWorker(p) PROVE Result
  <2>1. UNCHANGED bounds /\ running' = running
    BY <1>10 DEF Broker, HandleGetTask, HandleRegisterAck, ForwardBlocked, ForwardResult,
       ForwardAck, ForwardPlain, Serve
  <2> QED BY <1>10, <2>1 DEF Broker, bounds
<1>11. ASSUME NEW stale \in SUBSET Tasks, ResetStale(stale) PROVE Result
  BY <1>11 DEF ResetStale, Idle, broker, worker
<1> HIDE DEF Result
<1>12. Result
  <2>1. CASE UNCHANGED vars
    BY <1>1, <2>1 DEF Result
  <2>2. CASE Next
    BY <2>2, <1>2, <1>3, <1>4, <1>5, <1>6, <1>7, <1>8, <1>9, <1>10, <1>11 DEF Next, Fetch, FetchFault
  <2> QED BY <2>1, <2>2
<1> QED BY <1>12 DEF Result

\* What the handler of m returns.
Answer(m, ms) ==
  \/ /\ m.class \in Stages
     /\ \E x \in Message : /\ ms = <<x>>
                           /\ x.class \in (Stages \ {"postprocess"}) \cup {"tune_kernel_ack"}
  \/ /\ m.class = "probe" /\ \E f \in Fanouts : ms = Fanout(m.task, f)
  \/ /\ m.class = TuneClass /\ m.impl \in Impls /\ ms = <<ImplMsg(ResultClass, m.task, m.impl)>>
  \/ /\ m.class = ResultClass /\ ms = <<>>

LEMMA HandlerAnswers ==
  ASSUME TypeInv, NEW w \in Workers, Handle(w), Untroubled'
  PROVE  LET m == Head(hand[w]) IN
         /\ hand[w] # <<>> /\ m \in Work /\ m.task \in Tasks
         /\ hand' = [hand EXCEPT ![w] = <<>>]
         /\ UNCHANGED <<asked, queue, blocked, toWorker>>
         /\ \E ms \in Seq(Message) :
              Answer(m, ms) /\ toBroker' = [toBroker EXCEPT ![w] = @ \o Forwards(ms)]
<1> DEFINE m == Head(hand[w])
           t == m.task
<1>1. hand[w] # <<>> /\ m \in Work /\ t \in Tasks
  BY HandlingFields DEF Handle, TuneKernel, PreprocessOk, PreprocessFails, ProbeOk, ProbeFails,
     TuneImpl, WriteResult, Postprocess, MarkTaskFailed, Handling
<1>2. /\ \A c \in Stages \ {"postprocess"} : StageMsg(c, t) \in Message /\ StageMsg(c, t).class = c
      /\ \A s \in {"ack", "nak"} : AckMsg(t, s) \in Message /\ AckMsg(t, s).class = "tune_kernel_ack"
  BY <1>1, MessageTypes DEF StageMsg, AckMsg
<1> DEFINE Single(x) == Return(w, <<x>>) /\ m.class \in Stages /\ x \in Message
                        /\ x.class \in (Stages \ {"postprocess"}) \cup {"tune_kernel_ack"}
<1> DEFINE Some == \E ms \in Seq(Message) : Return(w, ms) /\ Answer(m, ms)
<1>3. ASSUME NEW x, Single(x) PROVE Some
  <2>1. Answer(m, <<x>>)
    BY <1>3 DEF Answer
  <2>2. <<x>> \in Seq(Message) /\ Return(w, <<x>>)
    BY <1>3
  <2> HIDE DEF m, t
  <2> QED BY <2>1, <2>2
<1>4. ASSUME TuneKernel(w) \/ PreprocessOk(w) \/ PreprocessFails(w) \/ ProbeFails(w)
             \/ Postprocess(w) \/ MarkTaskFailed(w)
      PROVE  Some
  <2>1. \E x : Return(w, <<x>>) /\ \/ \E c \in Stages \ {"postprocess"} : x = StageMsg(c, t)
                                   \/ \E s \in {"ack", "nak"} : x = AckMsg(t, s)
    BY <1>4 DEF TuneKernel, PreprocessOk, PreprocessFails, ProbeFails, Postprocess,
       MarkTaskFailed, Stages
  <2>2. m.class \in Stages
    BY <1>4 DEF TuneKernel, PreprocessOk, PreprocessFails, ProbeFails, Postprocess,
       MarkTaskFailed, Handling, Stages
  <2>3. PICK x : Return(w, <<x>>) /\ \/ \E c \in Stages \ {"postprocess"} : x = StageMsg(c, t)
                                     \/ \E s \in {"ack", "nak"} : x = AckMsg(t, s)
    BY <2>1
  <2>4. x \in Message /\ x.class \in (Stages \ {"postprocess"}) \cup {"tune_kernel_ack"}
    <3> HIDE DEF t
    <3>1. CASE \E c \in Stages \ {"postprocess"} : x = StageMsg(c, t)
      BY <3>1, <1>2
    <3>2. CASE \E s \in {"ack", "nak"} : x = AckMsg(t, s)
      BY <3>2, <1>2
    <3> QED BY <2>3, <3>1, <3>2
  <2>5. Single(x)
    BY <2>2, <2>3, <2>4, Zenon
  <2> HIDE DEF Single, Some
  <2> QED BY <1>3, <2>5
<1>5. ASSUME ProbeOk(w) PROVE Some
  <2>1. PICK f \in Fanouts : Return(w, Fanout(t, f))
    BY <1>5 DEF ProbeOk
  <2>2. Fanout(t, f) \in Seq(Message) /\ m.class = "probe"
    BY <1>1, <1>5, FanoutType DEF ProbeOk, Handling
  <2> QED BY <2>1, <2>2 DEF Answer
<1>6. ASSUME TuneImpl(w) PROVE Some
  <2>1. /\ m.class = TuneClass /\ m.impl \in Impls
        /\ Return(w, <<ImplMsg(ResultClass, t, m.impl)>>)
    BY <1>1, <1>6, WorkFields DEF TuneImpl, Handling
  <2>2. ImplMsg(ResultClass, t, m.impl) \in Message
    BY <1>1, <2>1, MessageTypes
  <2> DEFINE ms == <<ImplMsg(ResultClass, t, m.impl)>>
  <2>3. ms \in Seq(Message) /\ Answer(m, ms)
    BY <2>1, <2>2 DEF Answer
  <2> HIDE DEF m
  <2> QED BY <2>1, <2>3
<1>7. ASSUME WriteResult(w) PROVE Some
  <2>1. Return(w, <<>>) /\ m.class = ResultClass
    BY <1>7 DEF WriteResult, Handling
  <2>2. <<>> \in Seq(Message) /\ Answer(m, <<>>)
    BY <2>1 DEF Answer
  <2> HIDE DEF m
  <2> QED BY <2>1, <2>2
<1>8. Some
  <2>1. TuneKernel(w) \/ PreprocessOk(w) \/ PreprocessFails(w) \/ ProbeOk(w) \/ ProbeFails(w)
        \/ TuneImpl(w) \/ WriteResult(w) \/ Postprocess(w) \/ MarkTaskFailed(w)
    BY Zenon DEF Handle
  <2> HIDE DEF Some
  <2> QED BY <1>4, <1>5, <1>6, <1>7, <2>1
<1>9. PICK ms \in Seq(Message) : Return(w, ms) /\ Answer(m, ms)
  BY <1>8
<1>10. stops' # stops + 1
  BY DEF Untroubled, TypeInv, TypeOK
<1>11. /\ hand' = [hand EXCEPT ![w] = <<>>]
       /\ UNCHANGED <<asked, queue, blocked, toWorker>>
       /\ toBroker' = [toBroker EXCEPT ![w] = @ \o Forwards(ms)]
  BY <1>9, <1>10 DEF Return, broker
<1> QED BY <1>1, <1>9, <1>11

\* A process that sends rs, and serving a request, keep the sides apart.
LEMMA SendingAllotted ==
  ASSUME TypeInv, Allotted, NEW p \in Procs, NEW rs \in Seq(Request),
         toBroker' = [toBroker EXCEPT ![p] = @ \o rs], UNCHANGED <<queue, toWorker>>,
         \A w \in Workers : hand'[w] = hand[w] \/ hand'[w] = <<>>,
         p \notin GpuWorkers => \A e \in Range(rs) : Plain(e)
  PROVE  Allotted'
<1> USE DEF TypeInv, TypeOK
<1>1. \A q \in QueueName : \A m \in Range(queue'[q]) : m.class \in ClassesOf(q)
  BY DEF Allotted
<1>2. ASSUME NEW w \in Workers
      PROVE  /\ \A m \in Range(hand'[w]) : m.class \in ClassesOf(QueueOf(w))
             /\ \A e \in Range(toWorker'[w]) :
                  e.type = "task" => e.message.class \in ClassesOf(QueueOf(w))
  BY RangeOne DEF Allotted
<1>3. ASSUME NEW o \in Procs \ GpuWorkers PROVE \A e \in Range(toBroker'[o]) : Plain(e)
  <2>1. CASE o # p
    BY <2>1 DEF Allotted
  <2>2. CASE o = p
    <3>1. toBroker'[o] = toBroker[p] \o rs /\ toBroker[p] \in Seq(Request)
      BY <2>2
    <3>2. Range(toBroker[p] \o rs) = Range(toBroker[p]) \cup Range(rs)
      BY <3>1, RangeConcat
    <3> QED BY <2>2, <3>1, <3>2 DEF Allotted
  <2> QED BY <2>1, <2>2
<1> QED BY <1>1, <1>2, <1>3 DEF Allotted, Plain, Is

LEMMA ServingAllotted ==
  ASSUME TypeInv, Allotted, NEW p \in Procs, toBroker[p] # <<>>,
         toBroker' = [toBroker EXCEPT ![p] = Tail(@)], UNCHANGED hand,
         \A w \in Workers : \A e \in Range(toWorker'[w]) :
           e \in Range(toWorker[w]) \/ (e.type = "task" => e.message.class \in ClassesOf(QueueOf(w))),
         \A q \in QueueName : \A m \in Range(queue'[q]) :
           m \in Range(queue[q]) \/ m.class \in ClassesOf(q)
  PROVE  Allotted'
<1> USE DEF TypeInv, TypeOK
<1>1. \A q \in QueueName : \A m \in Range(queue'[q]) : m.class \in ClassesOf(q)
  BY DEF Allotted
<1>2. ASSUME NEW w \in Workers
      PROVE  /\ \A m \in Range(hand'[w]) : m.class \in ClassesOf(QueueOf(w))
             /\ \A e \in Range(toWorker'[w]) :
                  e.type = "task" => e.message.class \in ClassesOf(QueueOf(w))
  BY DEF Allotted
<1>3. ASSUME NEW o \in Procs \ GpuWorkers PROVE \A e \in Range(toBroker'[o]) : Plain(e)
  <2>1. CASE o # p
    BY <2>1 DEF Allotted
  <2>2. CASE o = p
    <3>1. toBroker'[o] = Tail(toBroker[p]) /\ toBroker[p] \in Seq(Request)
      BY <2>2
    <3>2. Range(toBroker'[o]) \subseteq Range(toBroker[p])
      BY <3>1, RangeTail
    <3> QED BY <2>2, <3>2 DEF Allotted
  <2> QED BY <2>1, <2>2
<1> QED BY <1>1, <1>2, <1>3 DEF Allotted, Plain, Is

LEMMA FetchAllotted ==
  ASSUME TypeInv, Allotted, NEW r \in Readers, NEW t \in Tasks, FetchTask(r, t)
  PROVE  Allotted'
<1> DEFINE rs == Submission(t)
           x == [type |-> "register_ack", task |-> t]
           y == [type |-> "forward", message |-> StageMsg("tune_kernel", t)]
<1>1. r \in Procs /\ rs \in Seq(Request)
  BY SubmissionType DEF Procs
<1>2. toBroker' = [toBroker EXCEPT ![r] = @ \o rs] /\ UNCHANGED <<queue, toWorker, hand>>
  BY DEF FetchTask, broker, worker
<1>3. Range(rs) \subseteq {x, y}
  BY DEF Submission, Range
<1>4. Plain(x) /\ Plain(y)
  BY DEF Plain, Is, StageMsg, TuneClass, ResultClass
<1> HIDE DEF rs, x, y
<1> QED BY <1>1, <1>2, <1>3, <1>4, SendingAllotted

LEMMA AskAllotted ==
  ASSUME TypeInv, Allotted, NEW w \in Workers, GetTask(w)
  PROVE  Allotted'
<1> DEFINE rs == <<[type |-> "get_task"]>>
<1>1. w \in Procs /\ rs \in Seq(Request) /\ toBroker[w] \in Seq(Request)
  BY DEF Procs, Request, TypeInv, TypeOK
<1>2. toBroker' = [toBroker EXCEPT ![w] = @ \o rs] /\ UNCHANGED <<queue, toWorker, hand>>
  <2>1. toBroker' = [toBroker EXCEPT ![w] = Append(@, [type |-> "get_task"])]
        /\ UNCHANGED <<queue, toWorker, hand>>
    BY DEF GetTask, broker
  <2>2. Append(toBroker[w], [type |-> "get_task"]) = toBroker[w] \o rs
    BY <1>1
  <2> HIDE DEF rs
  <2> QED BY <2>1, <2>2
<1>3. \A e \in Range(rs) : Plain(e)
  BY RangeOne DEF Plain, Is
<1> HIDE DEF rs
<1> QED BY <1>1, <1>2, <1>3, SendingAllotted

LEMMA ReceiveAllotted ==
  ASSUME TypeInv, Allotted, NEW w \in Workers, ReceiveReply(w)
  PROVE  Allotted'
<1> USE DEF TypeInv, TypeOK
<1>1. /\ w \in Procs /\ toWorker[w] \in Seq(Response) /\ toWorker[w] # <<>>
      /\ UNCHANGED <<toBroker, queue>>
      /\ toWorker' = [toWorker EXCEPT ![w] = Tail(@)]
      /\ hand' = [hand EXCEPT ![w] = IF Head(toWorker[w]).type = "task"
                                     THEN <<Head(toWorker[w]).message>> ELSE <<>>]
  BY DEF ReceiveReply, Procs, broker
<1>2. Range(toWorker[w]) = {Head(toWorker[w])} \cup Range(Tail(toWorker[w]))
  BY <1>1, RangeTail
<1>3. \A e \in Range(toWorker[w]) : e.type = "task" => e.message.class \in ClassesOf(QueueOf(w))
  BY DEF Allotted
<1>4. \A m \in Range(hand'[w]) : m.class \in ClassesOf(QueueOf(w))
  <2>1. CASE Head(toWorker[w]).type = "task"
    BY <1>1, <1>2, <1>3, <2>1, RangeOne
  <2>2. CASE Head(toWorker[w]).type # "task"
    BY <1>1, <2>2, RangeOne
  <2> QED BY <2>1, <2>2
<1>5. \A e \in Range(toWorker'[w]) : e.type = "task" => e.message.class \in ClassesOf(QueueOf(w))
  BY <1>1, <1>2, <1>3
<1>6. ASSUME NEW v \in Workers, v # w
      PROVE  /\ \A m \in Range(hand'[v]) : m.class \in ClassesOf(QueueOf(v))
             /\ \A e \in Range(toWorker'[v]) :
                  e.type = "task" => e.message.class \in ClassesOf(QueueOf(v))
  <2>1. hand'[v] = hand[v] /\ toWorker'[v] = toWorker[v]
    BY <1>1, <1>6 DEF Procs
  <2> QED BY <2>1 DEF Allotted
<1>7. /\ \A q \in QueueName : \A m \in Range(queue'[q]) : m.class \in ClassesOf(q)
      /\ \A p \in Procs \ GpuWorkers : \A e \in Range(toBroker'[p]) : Plain(e)
  BY <1>1 DEF Allotted
<1> QED BY <1>4, <1>5, <1>6, <1>7 DEF Allotted, Plain, Is

\* What the worker of a queue returns that is not the GPU's.
LEMMA AnswerSides ==
  ASSUME NEW m \in Work, NEW ms \in Seq(Message), Answer(m, ms), m.class \in ClassesOf("cpu_queue")
  PROVE  \A e \in Range(Forwards(ms)) : Plain(e)
<1>1. m.class \notin {"probe", TuneClass}
  BY DEF ClassesOf, TuneClass, ResultClass
<1>2. \A x \in Range(ms) : x.class \notin {TuneClass, ResultClass, "postprocess"}
  <2>1. CASE ms = <<>>
    BY <2>1, RangeOne
  <2>2. CASE \E x \in Message : /\ ms = <<x>>
                                /\ x.class \in (Stages \ {"postprocess"}) \cup {"tune_kernel_ack"}
    BY <2>2, RangeOne DEF Stages, TuneClass, ResultClass
  <2> QED BY <1>1, <2>1, <2>2 DEF Answer
<1> QED BY <1>2, RangeForwards DEF Plain, Is

LEMMA HandleAllotted ==
  ASSUME TypeInv, Allotted, Untroubled', NEW w \in Workers, Handle(w)
  PROVE  Allotted'
<1> DEFINE m == Head(hand[w])
<1>1. /\ hand[w] # <<>> /\ m \in Work
      /\ hand' = [hand EXCEPT ![w] = <<>>] /\ UNCHANGED <<queue, toWorker>>
      /\ \E ms \in Seq(Message) :
           Answer(m, ms) /\ toBroker' = [toBroker EXCEPT ![w] = @ \o Forwards(ms)]
  BY HandlerAnswers
<1>2. PICK ms \in Seq(Message) :
        Answer(m, ms) /\ toBroker' = [toBroker EXCEPT ![w] = @ \o Forwards(ms)]
  BY <1>1
<1>3. w \in Procs /\ Forwards(ms) \in Seq(Request)
  BY ForwardsType DEF Procs
<1>4. m.class \in ClassesOf(QueueOf(w))
  <2>1. hand[w] \in Seq(Work)
    BY DEF TypeInv, TypeOK
  <2>2. m \in Range(hand[w])
    BY <1>1, <2>1, RangeTail
  <2> QED BY <2>2 DEF Allotted
<1>5. \A v \in Workers : hand'[v] = hand[v] \/ hand'[v] = <<>>
  BY <1>1 DEF TypeInv, TypeOK
<1> HIDE DEF m
<1>6. w \notin GpuWorkers => \A e \in Range(Forwards(ms)) : Plain(e)
  <2>1. w \notin GpuWorkers => QueueOf(w) = "cpu_queue"
    BY DEF QueueOf
  <2> QED BY <1>1, <1>2, <1>4, <2>1, AnswerSides
<1> QED BY <1>1, <1>2, <1>3, <1>5, <1>6, SendingAllotted

LEMMA GetTaskAllotted ==
  ASSUME TypeInv, Allotted, NEW w \in Workers, HandleGetTask(w)
  PROVE  Allotted'
<1> USE DEF TypeInv, TypeOK
<1> DEFINE q == QueueOf(w)
<1>1. /\ w \in Procs /\ q \in QueueName /\ toBroker[w] # <<>> /\ UNCHANGED hand
      /\ toBroker' = [toBroker EXCEPT ![w] = Tail(@)] /\ toWorker[w] \in Seq(Response)
  BY DEF HandleGetTask, Serve, Procs, QueueOf, QueueName, worker
<1>2. CASE queue[q] = <<>>
  <2> DEFINE e == [type |-> "no_task"]
  <2>1. toWorker' = [toWorker EXCEPT ![w] = Append(@, e)] /\ queue' = queue
    BY <1>2 DEF HandleGetTask
  <2>2. e \in Response /\ e.type # "task"
    BY DEF Response
  <2> HIDE DEF e
  <2>3. toWorker'[w] = toWorker[w] \o <<e>> /\ \A v \in Workers \ {w} : toWorker'[v] = toWorker[v]
    BY <1>1, <2>1, <2>2 DEF Procs
  <2>4. <<e>> \in Seq(Response)
    BY <2>2
  <2>5. Range(toWorker'[w]) = Range(toWorker[w]) \cup {e}
    <3>1. toWorker[w] \in Seq(Response)
      BY <1>1
    <3> HIDE DEF TypeInv, TypeOK
    <3>2. Range(Joined(toWorker[w], <<e>>)) = Range(toWorker[w]) \cup Range(<<e>>)
      BY <2>4, <3>1, RangeJoined
    <3>3. toWorker'[w] = Joined(toWorker[w], <<e>>)
      BY <2>3 DEF Joined
    <3> QED BY <3>2, <3>3, RangeOne
  <2> QED BY <1>1, <2>1, <2>2, <2>3, <2>5, ServingAllotted
<1>3. CASE queue[q] # <<>>
  <2> DEFINE m == Head(queue[q])
             e == [type |-> "task", message |-> m]
  <2>1. /\ toWorker' = [toWorker EXCEPT ![w] = Append(@, e)]
        /\ queue' = [queue EXCEPT ![q] = Tail(@)]
    BY <1>3 DEF HandleGetTask
  <2>2. /\ queue[q] \in Seq(Work) /\ m \in Work
        /\ Range(queue[q]) = {m} \cup Range(Tail(queue[q]))
    BY <1>1, <1>3, RangeTail
  <2>3. m.class \in ClassesOf(q)
    BY <1>1, <2>2 DEF Allotted
  <2>4. e \in Response /\ e.type = "task" /\ e.message = m
    BY <2>2 DEF Response
  <2> HIDE DEF e, m
  <2>5. toWorker'[w] = toWorker[w] \o <<e>> /\ \A v \in Workers \ {w} : toWorker'[v] = toWorker[v]
    BY <1>1, <2>1, <2>4 DEF Procs
  <2>6. <<e>> \in Seq(Response)
    BY <2>4
  <2>7. Range(toWorker'[w]) = Range(toWorker[w]) \cup {e}
    <3>1. toWorker[w] \in Seq(Response)
      BY <1>1
    <3> HIDE DEF TypeInv, TypeOK
    <3>2. Range(Joined(toWorker[w], <<e>>)) = Range(toWorker[w]) \cup Range(<<e>>)
      BY <2>6, <3>1, RangeJoined, ZenonT(30)
    <3>3. toWorker'[w] = Joined(toWorker[w], <<e>>)
      BY <2>5 DEF Joined
    <3> QED BY <3>2, <3>3, RangeOne
  <2>8. \A o \in QueueName : Range(queue'[o]) \subseteq Range(queue[o])
    BY <1>1, <2>1, <2>2
  <2>9. \A v \in Workers : \A x \in Range(toWorker'[v]) :
          x \in Range(toWorker[v]) \/ (x.type = "task" => x.message.class \in ClassesOf(QueueOf(v)))
    BY <2>3, <2>4, <2>5, <2>7
  <2> HIDE DEF q
  <2> QED BY <1>1, <2>8, <2>9, ServingAllotted
<1> QED BY <1>2, <1>3

\* A message enters the queue of those who serve its class.
LEMMA QueuesAllotted ==
  ASSUME TypeInv, NEW p \in Procs, ForwardPlain(p) \/ ForwardResult(p)
  PROVE  LET m == Forwarded(p) IN
         /\ Serve(p, "forward") /\ m \in Work /\ m \in Message /\ UNCHANGED toWorker
         /\ \A q \in QueueName : \A x \in Range(queue'[q]) :
              x \in Range(queue[q]) \/ x.class \in ClassesOf(q)
         /\ \A q \in QueueName : Range(queue[q]) \subseteq Range(queue'[q])
         /\ ForwardPlain(p) => m \in Range(queue'[TargetQueue(m)])
<1> USE DEF TypeInv, TypeOK
<1> DEFINE m == Forwarded(p)
<1>1. Serve(p, "forward") /\ m \in Message /\ UNCHANGED toWorker
  BY ServeType, RequestFields DEF ForwardPlain, ForwardResult, Forwarded
<1>2. CASE ForwardPlain(p)
  <2>1. m \in Work
    BY <1>1, <1>2, MessageFields DEF ForwardPlain
  <2> DEFINE o == TargetQueue(m)
  <2>2. o \in QueueName /\ queue' = [queue EXCEPT ![o] = Enqueue(@, m)]
    BY <1>2 DEF ForwardPlain, TargetQueue, QueueName
  <2>3. m.class \in ClassesOf(o)
    <3>1. m.class \notin {"postprocess", "tune_kernel_ack", ResultClass}
      BY <1>2 DEF ForwardPlain
    <3>2. m.class \in {"tune_kernel", "preprocess", "probe", "mark_task_failed", TuneClass}
      BY <2>1, <3>1 DEF Work, Stages, ImplMessage
    <3> QED BY <3>2 DEF TargetQueue, ClassesOf
  <2> HIDE DEF m, o
  <2>4. Range(queue'[o]) = Range(queue[o]) \cup {m}
    <3>1. queue[o] \in Seq(Work) /\ queue'[o] = Enqueue(queue[o], m)
      BY <2>2
    <3> QED BY <2>1, <3>1, RangeEnqueue
  <2>5. \A q \in QueueName \ {o} : queue'[q] = queue[q]
    BY <2>2
  <2>6. /\ \A q \in QueueName : \A x \in Range(queue'[q]) :
             x \in Range(queue[q]) \/ x.class \in ClassesOf(q)
        /\ \A q \in QueueName : Range(queue[q]) \subseteq Range(queue'[q])
    BY <2>3, <2>4, <2>5
  <2> QED BY <1>1, <2>1, <2>4, <2>6 DEF m, o
<1>3. CASE ForwardResult(p) /\ ~ ForwardPlain(p)
  <2>1. m.class = ResultClass /\ m \in Work /\ m.task \in Tasks /\ m.impl \in Impls
    BY <1>1, <1>3, MessageFields DEF ForwardResult
  <2> DEFINE o == "cpu_queue"
             ms == Released(m)
             cpu == Insert(queue[o], ms, Priority("postprocess"))
  <2>2. o \in QueueName /\ queue' = [queue EXCEPT ![o] = Enqueue(cpu, m)]
    BY <1>3 DEF ForwardResult, QueueName
  <2>3. ms \in Seq(Work) /\ \A x \in Range(ms) : x.class = "postprocess"
    BY <2>1, ReleasedType DEF Released, Range, StageMsg
  <2>4. queue[o] \in Seq(Work) /\ Priority("postprocess") \in Int
    BY <2>2, PriorityType DEF Priority
  <2> HIDE DEF m, ms
  <2>5. cpu \in Seq(Work) /\ Range(cpu) = Range(queue[o]) \cup Range(ms)
    <3>1. cpu \in Seq(Work)
      BY <2>3, <2>4, InsertElements
    <3>2. cpu = Insert(queue[o], ms, Priority("postprocess"))
      OBVIOUS
    <3> HIDE DEF cpu
    <3> QED BY <2>3, <2>4, <3>1, <3>2, RangeInsert
  <2> HIDE DEF cpu
  <2>6. Range(Enqueue(cpu, m)) = Range(cpu) \cup {m}
    BY <2>1, <2>5, RangeEnqueue
  <2>7. queue'[o] = Enqueue(cpu, m) /\ \A q \in QueueName \ {o} : queue'[q] = queue[q]
    BY <2>2
  <2>8. "postprocess" \in ClassesOf(o) /\ ResultClass \in ClassesOf(o)
    BY DEF ClassesOf
  <2> HIDE DEF o
  <2>9. /\ \A q \in QueueName : \A x \in Range(queue'[q]) :
             x \in Range(queue[q]) \/ x.class \in ClassesOf(q)
        /\ \A q \in QueueName : Range(queue[q]) \subseteq Range(queue'[q])
    BY <2>1, <2>3, <2>5, <2>6, <2>7, <2>8
  <2> QED BY <1>1, <1>3, <2>1, <2>9 DEF m
<1> QED BY <1>2, <1>3

LEMMA AllottedKept ==
  ASSUME TypeInv, Allotted, [Next]_vars, Untroubled', Untroubled => running = Procs
  PROVE  Allotted'
<1> USE DEF TypeInv, TypeOK
<1>1. CASE Idle
  BY <1>1 DEF Idle, Allotted, Plain, Is
<1>2. ASSUME NEW r \in Readers, HandleRegisterAck(r) PROVE Allotted'
  <2>1. /\ r \in Procs /\ toBroker[r] # <<>> /\ toBroker' = [toBroker EXCEPT ![r] = Tail(@)]
        /\ UNCHANGED <<hand, toWorker, queue>>
    BY <1>2 DEF HandleRegisterAck, Serve, Procs, worker
  <2> QED BY <2>1, ServingAllotted
<1>3. ASSUME NEW p \in Procs, ForwardBlocked(p) \/ ForwardAck(p) PROVE Allotted'
  <2>1. /\ toBroker[p] # <<>> /\ toBroker' = [toBroker EXCEPT ![p] = Tail(@)]
        /\ UNCHANGED <<hand, queue>>
    BY <1>3 DEF ForwardBlocked, ForwardAck, Serve, worker
  <2>2. \A w \in Workers : toWorker'[w] = toWorker[w]
    <3>1. named \cap Workers = {}
      BY LocalQueueAssumption
    <3> QED BY <1>3, <3>1 DEF ForwardBlocked, ForwardAck, Procs
  <2> QED BY <2>1, <2>2, ServingAllotted
<1>4. ASSUME NEW p \in Procs, ForwardPlain(p) \/ ForwardResult(p) PROVE Allotted'
  <2>1. /\ Serve(p, "forward") /\ UNCHANGED toWorker
        /\ \A q \in QueueName : \A x \in Range(queue'[q]) :
              x \in Range(queue[q]) \/ x.class \in ClassesOf(q)
    BY <1>4, QueuesAllotted
  <2>2. /\ toBroker[p] # <<>> /\ toBroker' = [toBroker EXCEPT ![p] = Tail(@)] /\ UNCHANGED hand
    BY <2>1 DEF Serve, worker
  <2> QED BY <2>1, <2>2, ServingAllotted
<1> QED BY <1>1, <1>2, <1>3, <1>4, UntroubledCases, FetchAllotted, AskAllotted, ReceiveAllotted,
           HandleAllotted, GetTaskAllotted

\* A worker none of whose variables move keeps its turn.
LEMMA TurnStays ==
  ASSUME NEW w \in Workers, InTurn(w), Apart(w), toBroker'[w] = toBroker[w],
         toWorker'[w] = toWorker[w], hand'[w] = hand[w], asked'[w] = asked[w]
  PROVE  InTurn(w)' /\ Apart(w)'
  BY DEF InTurn, Apart, Is

\* The broker serves the first of what a worker sent.
LEMMA TurnServed ==
  ASSUME TypeInv, NEW w \in Workers, InTurn(w), Apart(w), toBroker[w] # <<>>,
         toBroker'[w] = Tail(toBroker[w]),
         toWorker'[w] = toWorker[w], hand'[w] = hand[w], asked'[w] = asked[w]
  PROVE  InTurn(w)' /\ Apart(w)'
<1> DEFINE s == toBroker[w]
<1>1. s \in Seq(Request) /\ s # <<>>
  BY DEF TypeInv, TypeOK, Procs
<1>2. Range(Tail(s)) \subseteq Range(s)
  BY <1>1, RangeTail
<1>3. Apart(w)'
  BY <1>2 DEF Apart, Is
<1>4. hand'[w] = <<>> /\ toWorker'[w] = <<>>
  BY DEF InTurn
<1>5. ASSUME NEW k \in DOMAIN Tail(s), Tail(s)[k].type = "get_task"
      PROVE  k = Len(Tail(s)) /\ asked[w] /\ toWorker[w] = <<>>
  <2>1. k + 1 \in DOMAIN s /\ s[k + 1] = Tail(s)[k] /\ Len(Tail(s)) = Len(s) - 1 /\ Len(s) \in Nat /\ k \in Nat
    BY <1>1
  <2>2. k + 1 = Len(s) /\ asked[w] /\ toWorker[w] = <<>>
    BY <1>5, <2>1 DEF InTurn
  <2> QED BY <2>1, <2>2
<1> QED BY <1>3, <1>4, <1>5 DEF InTurn

LEMMA TurnAsks ==
  ASSUME TypeInv, NEW w \in Workers, InTurn(w), Apart(w), GetTask(w)
  PROVE  InTurn(w)' /\ Apart(w)'
<1> DEFINE s == toBroker[w]
           e == [type |-> "get_task"]
<1>1. /\ s \in Seq(Request) /\ ~ asked[w] /\ hand[w] = <<>> /\ toWorker[w] = <<>>
      /\ toBroker'[w] = Append(s, e) /\ asked'[w] /\ hand'[w] = <<>> /\ toWorker'[w] = <<>>
  BY DEF GetTask, InTurn, TypeInv, TypeOK, Procs
<1>2. /\ Append(s, e) = s \o <<e>> /\ Len(Append(s, e)) = Len(s) + 1 /\ Len(s) \in Nat
      /\ DOMAIN Append(s, e) = 1 .. Len(s) + 1 /\ DOMAIN s = 1 .. Len(s)
      /\ \A k \in 1 .. Len(s) : Append(s, e)[k] = s[k]
  BY <1>1
<1>3. \A k \in DOMAIN s : s[k].type # "get_task"
  BY <1>1 DEF InTurn
<1>4. \A k \in DOMAIN Append(s, e) : k \in DOMAIN s \/ k = Len(Append(s, e))
  BY <1>2
<1>5. \A k \in DOMAIN Append(s, e) : Append(s, e)[k].type = "get_task" => k = Len(Append(s, e))
  BY <1>2, <1>3, <1>4
<1>6. Range(Append(s, e)) = Range(s) \cup {e}
  <2>1. e \in Request /\ <<e>> \in Seq(Request)
    BY DEF Request
  <2>2. s \in Seq(Request)
    BY <1>1
  <2> HIDE DEF e, s
  <2>3. Range(Joined(s, <<e>>)) = Range(s) \cup Range(<<e>>)
    BY <2>1, <2>2, RangeJoined
  <2>4. Append(s, e) = Joined(s, <<e>>)
    BY <1>2 DEF Joined
  <2> QED BY <2>3, <2>4, RangeOne
<1>7. \A c : ~ Is(e, c)
  BY DEF Is
<1>8. \A x \in Range(toBroker'[w]) : x = e \/ x \in Range(toBroker[w])
  BY <1>1, <1>6
<1>9. Apart(w)'
  BY <1>7, <1>8 DEF Apart, Is
<1>10. InTurn(w)'
  BY <1>1, <1>5 DEF InTurn
<1> QED BY <1>9, <1>10

LEMMA TurnReceives ==
  ASSUME TypeInv, NEW w \in Workers, InTurn(w), Apart(w), ReceiveReply(w)
  PROVE  InTurn(w)' /\ Apart(w)'
<1>1. /\ w \in Procs /\ toWorker[w] # <<>> /\ UNCHANGED toBroker /\ ~ asked'[w]
      /\ toWorker'[w] = Tail(toWorker[w])
      /\ hand'[w] = <<>> \/ hand'[w] = <<Head(toWorker[w]).message>>
  BY DEF ReceiveReply, TypeInv, TypeOK, Procs
<1>2. toWorker'[w] = <<>> /\ toBroker'[w] = <<>>
  BY <1>1 DEF InTurn
<1>3. hand'[w] # <<>> => hand'[w] = <<Head(hand'[w])>>
  BY <1>1
<1>4. Apart(w)'
  BY <1>2, RangeOne DEF Apart
<1>5. InTurn(w)'
  BY <1>1, <1>2, <1>3 DEF InTurn
<1> QED BY <1>4, <1>5

\* A handler returns tune messages and a postprocess message, or a result.
LEMMA AnswerApart ==
  ASSUME TypeInv, NEW m \in Work, m.task \in Tasks, NEW ms \in Seq(Message), Answer(m, ms)
  PROVE  \A x, y \in Range(ms) : ~ (x.class = "postprocess" /\ y.class = ResultClass)
<1>1. CASE ms = <<>>
  BY <1>1, RangeOne
<1>2. CASE \E x \in Message : ms = <<x>>
  BY <1>2, RangeOne DEF ResultClass
<1>3. CASE \E f \in Fanouts : ms = Fanout(m.task, f)
  <2>1. PICK f \in Fanouts : ms = Fanout(m.task, f)
    BY <1>3
  <2> DEFINE tm == TuneMsgs(m.task, f)
             post == PostMsg(m.task, Len(fanouts[m.task]) + 1, ImplSet(f))
  <2>2. f \in Seq(Impls) /\ ms = Append(tm, post)
    BY <2>1, LocalQueueAssumption DEF Fanout
  <2>3. \A k \in DOMAIN tm : tm[k].class = TuneClass
    BY DEF TuneMsgs, ImplMsg
  <2>4. post.class = "postprocess"
    BY DEF PostMsg
  <2>5. tm \in Seq(Message)
    BY <2>2, MessageTypes DEF TuneMsgs
  <2> HIDE DEF tm, post
  <2>6. \A x \in Range(ms) : x = post \/ x \in Range(tm)
    BY <2>2, <2>5 DEF Range
  <2>7. \A x \in Range(ms) : x.class \in {"postprocess", TuneClass}
    BY <2>3, <2>4, <2>6 DEF Range
  <2> QED BY <2>7 DEF TuneClass, ResultClass
<1> QED BY <1>1, <1>2, <1>3 DEF Answer

LEMMA TurnHandles ==
  ASSUME TypeInv, NEW w \in Workers, InTurn(w), Apart(w), Handle(w), Untroubled'
  PROVE  InTurn(w)' /\ Apart(w)'
<1> DEFINE m == Head(hand[w])
<1>1. /\ hand[w] # <<>> /\ m \in Work /\ m.task \in Tasks
      /\ hand' = [hand EXCEPT ![w] = <<>>] /\ UNCHANGED <<asked, toWorker>>
      /\ \E ms \in Seq(Message) :
           Answer(m, ms) /\ toBroker' = [toBroker EXCEPT ![w] = @ \o Forwards(ms)]
  BY HandlerAnswers
<1>2. PICK ms \in Seq(Message) :
        Answer(m, ms) /\ toBroker' = [toBroker EXCEPT ![w] = @ \o Forwards(ms)]
  BY <1>1
<1> HIDE DEF m
<1>3. ~ asked[w] /\ toBroker[w] = <<>> /\ toWorker[w] = <<>>
  BY <1>1 DEF InTurn
<1>4. Forwards(ms) \in Seq(Request)
  BY ForwardsType
<1>5. toBroker'[w] = Forwards(ms)
  <2>1. toBroker'[w] = toBroker[w] \o Forwards(ms)
    BY <1>2 DEF TypeInv, TypeOK, Procs
  <2> QED BY <1>3, <1>4, <2>1
<1>6. hand'[w] = <<>> /\ toWorker'[w] = <<>>
  BY <1>1, <1>3 DEF TypeInv, TypeOK
<1>7. \A k \in DOMAIN Forwards(ms) : Forwards(ms)[k].type # "get_task"
  BY DEF Forwards
<1>8. InTurn(w)'
  BY <1>5, <1>6, <1>7 DEF InTurn
<1>9. \A x \in Range(toBroker'[w]) : x.message \in Range(ms)
  BY <1>5, RangeForwards
<1>10. \A x, y \in Range(ms) : ~ (x.class = "postprocess" /\ y.class = ResultClass)
  BY <1>1, <1>2, AnswerApart
<1>11. Apart(w)'
  BY <1>9, <1>10 DEF Apart, Is
<1> QED BY <1>8, <1>11

LEMMA TurnAnswered ==
  ASSUME TypeInv, NEW w \in Workers, InTurn(w), Apart(w), HandleGetTask(w)
  PROVE  InTurn(w)' /\ Apart(w)'
<1> DEFINE s == toBroker[w]
<1>1. /\ s \in Seq(Request) /\ s # <<>> /\ Head(s).type = "get_task" /\ toBroker'[w] = Tail(s)
      /\ hand'[w] = hand[w] /\ asked'[w] = asked[w] /\ w \in Procs
  BY DEF HandleGetTask, Serve, TypeInv, TypeOK, Procs, worker
<1>2. Len(s) = 1 /\ asked[w] /\ toWorker[w] = <<>>
  <2>1. 1 \in DOMAIN s /\ s[1].type = "get_task"
    BY <1>1
  <2> QED BY <2>1 DEF InTurn
<1>3. toBroker'[w] = <<>> /\ hand'[w] = <<>>
  <2>1. Tail(s) \in Seq(Request) /\ Len(Tail(s)) = 0
    BY <1>1, <1>2
  <2> HIDE DEF s
  <2>2. Tail(s) = <<>>
    BY <2>1, EmptySeq
  <2> QED BY <1>1, <1>2, <2>2 DEF InTurn, s
<1>4. \E e : toWorker'[w] = <<e>>
  <2>1. \E e : toWorker' = [toWorker EXCEPT ![w] = Append(@, e)]
    BY DEF HandleGetTask
  <2> QED BY <1>1, <1>2, <2>1 DEF TypeInv, TypeOK
<1>5. Apart(w)'
  BY <1>3, RangeOne DEF Apart
<1>6. Tail(toWorker'[w]) = <<>>
  BY <1>4
<1>7. InTurn(w)'
  BY <1>1, <1>2, <1>3, <1>6 DEF InTurn
<1> QED BY <1>5, <1>7

LEMMA TurnsKept ==
  ASSUME TypeInv, FlowInv, [Next]_vars, Untroubled', NEW w \in Workers
  PROVE  InTurn(w)' /\ Apart(w)'
<1> USE DEF TypeInv, TypeOK
<1>1. InTurn(w) /\ Apart(w) /\ w \in Procs /\ w \notin Readers /\ named \cap Workers = {}
  BY LocalQueueAssumption DEF FlowInv, Procs
<1>2. CASE Idle
  BY <1>1, <1>2, TurnStays DEF Idle
<1>3. ASSUME NEW r \in Readers, NEW t \in Tasks, FetchTask(r, t) PROVE InTurn(w)' /\ Apart(w)'
  BY <1>1, <1>3, TurnStays DEF FetchTask, worker
<1>4. ASSUME NEW v \in Workers, GetTask(v) \/ ReceiveReply(v) PROVE InTurn(w)' /\ Apart(w)'
  <2>1. CASE v = w
    BY <1>1, <1>4, <2>1, TurnAsks, TurnReceives
  <2>2. CASE v # w
    BY <1>1, <1>4, <2>2, TurnStays DEF GetTask, ReceiveReply
  <2> QED BY <2>1, <2>2
<1>5. ASSUME NEW v \in Workers, Handle(v) PROVE InTurn(w)' /\ Apart(w)'
  <2>1. CASE v = w
    BY <1>1, <1>5, <2>1, TurnHandles
  <2>2. CASE v # w
    <3>1. /\ hand' = [hand EXCEPT ![v] = <<>>] /\ UNCHANGED <<asked, toWorker>>
          /\ \E ms : toBroker' = [toBroker EXCEPT ![v] = @ \o Forwards(ms)]
      BY <1>5, HandlerAnswers
    <3> QED BY <1>1, <2>2, <3>1, TurnStays
  <2> QED BY <2>1, <2>2
<1>6. ASSUME NEW v \in Workers, HandleGetTask(v) PROVE InTurn(w)' /\ Apart(w)'
  <2>1. CASE v = w
    BY <1>1, <1>6, <2>1, TurnAnswered
  <2>2. CASE v # w
    BY <1>1, <1>6, <2>2, TurnStays DEF HandleGetTask, Serve, worker
  <2> QED BY <2>1, <2>2
<1>7. ASSUME NEW p \in Procs,
             \/ p \in Readers /\ HandleRegisterAck(p)
             \/ ForwardBlocked(p) \/ ForwardResult(p) \/ ForwardAck(p) \/ ForwardPlain(p)
      PROVE  InTurn(w)' /\ Apart(w)'
  <2>1. /\ toBroker[p] # <<>> /\ toBroker' = [toBroker EXCEPT ![p] = Tail(@)]
        /\ UNCHANGED <<asked, hand>>
    BY <1>7 DEF HandleRegisterAck, ForwardBlocked, ForwardResult, ForwardAck, ForwardPlain, Serve, worker
  <2>2. toWorker'[w] = toWorker[w]
    BY <1>1, <1>7 DEF HandleRegisterAck, ForwardBlocked, ForwardResult, ForwardAck, ForwardPlain
  <2>3. CASE p = w
    BY <1>1, <2>1, <2>2, <2>3, TurnServed
  <2>4. CASE p # w
    BY <1>1, <2>1, <2>2, <2>4, TurnStays
  <2> QED BY <2>3, <2>4
<1>8. Untroubled => running = Procs
  BY DEF FlowInv
<1> QED BY <1>2, <1>3, <1>4, <1>5, <1>6, <1>7, <1>8, UntroubledCases DEF Procs

LEMMA FlowKept ==
  ASSUME TypeInv, Untroubled => FlowInv, [Next]_vars
  PROVE  (Untroubled => FlowInv)'
<1> SUFFICES ASSUME Untroubled' PROVE FlowInv'
  OBVIOUS
<1>1. Untroubled => running = Procs
  BY DEF FlowInv
<1>2. Untroubled /\ running' = Procs
  BY <1>1, UntroubledCases
<1>3. FlowInv
  BY <1>2
<1>4. Allotted'
  BY <1>1, <1>3, AllottedKept DEF FlowInv
<1>5. \A w \in Workers : InTurn(w)' /\ Apart(w)'
  BY <1>3, TurnsKept
<1> QED BY <1>2, <1>4, <1>5 DEF FlowInv

\* A message about an implementation of which the result is to come.
Sends(m) == [type |-> "forward", message |-> m]
Gives(m) == [type |-> "task", message |-> m]
Near(m) ==
  \/ \E p \in Procs : Sends(m) \in Range(toBroker[p])
  \/ m \in Range(queue["gpu_queue"])
  \/ \E w \in GpuWorkers : Gives(m) \in Range(toWorker[w]) \/ m \in Range(hand[w])

LEMMA ToComeIsNear ==
  ASSUME TypeInv, NEW t \in Tasks, NEW i \in ToCome(t)
  PROVE  i \in Impls /\ \E c \in {TuneClass, ResultClass} : Near(ImplMsg(c, t, i))
<1> USE DEF TypeInv, TypeOK
<1>1. PICK x : /\ \/ \E p \in Procs : x \in OnTheWayToBroker(p)
                  \/ x \in InQueue("gpu_queue")
                  \/ \E w \in GpuWorkers : x \in OnTheWayToWorker(w) \/ x \in InHand(w)
               /\ x.class \in {TuneClass, ResultClass} /\ x.task = t /\ i = x.impl
  BY DEF ToCome
<1>2. x \in Message \cup Work /\ Near(x)
  <2>1. ASSUME NEW p \in Procs, x \in OnTheWayToBroker(p) PROVE x \in Message /\ Near(x)
    <3>1. PICK k \in DOMAIN toBroker[p] :
            toBroker[p][k].type = "forward" /\ x = toBroker[p][k].message
      BY <2>1 DEF OnTheWayToBroker
    <3>2. toBroker[p][k] \in Request /\ toBroker[p][k] \in Range(toBroker[p])
      BY DEF Range
    <3>3. x \in Message /\ toBroker[p][k] = Sends(x)
      BY <3>1, <3>2 DEF Request, Sends
    <3> QED BY <3>2, <3>3 DEF Near
  <2>2. ASSUME x \in InQueue("gpu_queue") PROVE x \in Work /\ Near(x)
    <3>1. queue["gpu_queue"] \in Seq(Work)
      BY DEF QueueName
    <3>2. x \in Range(queue["gpu_queue"])
      BY <2>2 DEF InQueue, Range
    <3>3. x \in Work
      BY <2>2, <3>1 DEF InQueue
    <3> QED BY <3>2, <3>3 DEF Near
  <2>3. ASSUME NEW w \in GpuWorkers, x \in OnTheWayToWorker(w) PROVE x \in Work /\ Near(x)
    <3>1. PICK k \in DOMAIN toWorker[w] :
            toWorker[w][k].type = "task" /\ x = toWorker[w][k].message
      BY <2>3 DEF OnTheWayToWorker
    <3>2. toWorker[w][k] \in Response /\ toWorker[w][k] \in Range(toWorker[w])
      BY DEF Range, Procs, Workers
    <3>3. x \in Work /\ toWorker[w][k] = Gives(x)
      BY <3>1, <3>2 DEF Response, Gives
    <3> QED BY <3>2, <3>3 DEF Near
  <2>4. ASSUME NEW w \in GpuWorkers, x \in InHand(w) PROVE x \in Work /\ Near(x)
    <3>1. hand[w] \in Seq(Work)
      BY DEF Workers
    <3>2. x \in Range(hand[w])
      BY <2>4 DEF InHand, Range
    <3>3. x \in Work
      BY <2>4, <3>1 DEF InHand
    <3> QED BY <3>2, <3>3 DEF Near
  <2> QED BY <1>1, <2>1, <2>2, <2>3, <2>4
<1>3. x \in Measuring(t, i)
  BY <1>1, <1>2, Kinds
<1>4. x \in {ImplMsg(TuneClass, t, i), ImplMsg(ResultClass, t, i)}
  BY <1>3 DEF Measuring, Tuning
<1>5. i \in Impls
  BY <1>1, <1>2, WorkFields DEF Message, Work, Stages, ImplMessage, PostMessage, AckMessage, TuneClass, ResultClass
<1> QED BY <1>2, <1>4, <1>5

LEMMA NearIsToCome ==
  ASSUME NEW t, NEW i, NEW c \in {TuneClass, ResultClass}, Near(ImplMsg(c, t, i))'
  PROVE  i \in ToCome(t)'
<1> DEFINE m == ImplMsg(c, t, i)
<1>1. m.class = c /\ m.task = t /\ m.impl = i
  BY DEF ImplMsg
<1> HIDE DEF m
<1>2. \/ \E p \in Procs : m \in OnTheWayToBroker(p)'
      \/ m \in InQueue("gpu_queue")'
      \/ \E w \in GpuWorkers : m \in OnTheWayToWorker(w)' \/ m \in InHand(w)'
  <2>1. ASSUME NEW p \in Procs, Sends(m) \in Range(toBroker'[p]) PROVE m \in OnTheWayToBroker(p)'
    <3>1. PICK k \in DOMAIN toBroker'[p] : toBroker'[p][k] = Sends(m)
      BY <2>1 DEF Range
    <3> QED BY <3>1 DEF OnTheWayToBroker, Sends
  <2>2. ASSUME NEW w \in GpuWorkers, Gives(m) \in Range(toWorker'[w]) PROVE m \in OnTheWayToWorker(w)'
    <3>1. PICK k \in DOMAIN toWorker'[w] : toWorker'[w][k] = Gives(m)
      BY <2>2 DEF Range
    <3> QED BY <3>1 DEF OnTheWayToWorker, Gives
  <2>3. m \in Range(queue'["gpu_queue"]) => m \in InQueue("gpu_queue")'
    BY DEF Range, InQueue
  <2>4. \A w \in GpuWorkers : m \in Range(hand'[w]) => m \in InHand(w)'
    BY DEF Range, InHand
  <2>5. Near(m)'
    BY DEF m
  <2> QED BY <2>1, <2>2, <2>3, <2>4, <2>5 DEF Near, Sends, Gives
<1> QED BY <1>1, <1>2 DEF ToCome

\* A request leaves its connection only when it is the first and served.
LEMMA SentStep ==
  ASSUME TypeInv, FlowInv, [Next]_vars, Untroubled', NEW p \in Procs,
         NEW e \in Range(toBroker[p]), e.type = "forward"
  PROVE  \/ e \in Range(toBroker'[p])
         \/ /\ e = Head(toBroker[p])
            /\ ForwardBlocked(p) \/ ForwardResult(p) \/ ForwardAck(p) \/ ForwardPlain(p)
<1> USE DEF TypeInv, TypeOK
<1> DEFINE Stays == e \in Range(toBroker'[p])
<1>1. toBroker[p] \in Seq(Request) /\ toBroker[p] # <<>>
  BY DEF Range
<1>2. Range(toBroker[p]) = {Head(toBroker[p])} \cup Range(Tail(toBroker[p]))
  BY <1>1, RangeTail
<1>3. ASSUME NEW o \in Procs, NEW rs \in Seq(Request), toBroker' = [toBroker EXCEPT ![o] = @ \o rs]
      PROVE  Stays
  <2>1. CASE o = p
    <3>1. Range(toBroker[p] \o rs) = Range(toBroker[p]) \cup Range(rs)
      BY <1>1, RangeConcat
    <3> QED BY <1>3, <2>1, <3>1
  <2> QED BY <1>3, <2>1
<1>4. ASSUME NEW o \in Procs, NEW type, Serve(o, type), type = "forward" => o # p PROVE Stays
  <2>1. CASE o = p
    <3>1. Head(toBroker[p]).type # "forward" /\ toBroker'[p] = Tail(toBroker[p])
      BY <1>4, <2>1 DEF Serve
    <3> QED BY <1>2, <3>1
  <2> QED BY <1>4, <2>1 DEF Serve
<1> HIDE DEF Stays
<1>5. CASE Idle
  BY <1>5 DEF Idle, Stays
<1>6. ASSUME NEW r \in Readers, NEW t \in Tasks, FetchTask(r, t) PROVE Stays
  <2>1. Submission(t) \in Seq(Request) /\ r \in Procs
    BY SubmissionType DEF Procs
  <2> QED BY <1>3, <1>6, <2>1 DEF FetchTask
<1>7. ASSUME NEW w \in Workers, GetTask(w) \/ ReceiveReply(w) PROVE Stays
  <2>1. CASE ReceiveReply(w)
    BY <2>1 DEF ReceiveReply, Stays
  <2>2. CASE GetTask(w)
    <3> DEFINE rs == <<[type |-> "get_task"]>>
    <3>1. rs \in Seq(Request) /\ w \in Procs /\ toBroker[w] \in Seq(Request)
      BY DEF Request, Procs
    <3>2. toBroker' = [toBroker EXCEPT ![w] = Append(@, [type |-> "get_task"])]
      BY <2>2 DEF GetTask
    <3>3. Append(toBroker[w], [type |-> "get_task"]) = toBroker[w] \o rs
      BY <3>1
    <3> HIDE DEF rs
    <3>4. toBroker' = [toBroker EXCEPT ![w] = @ \o rs]
      BY <3>2, <3>3
    <3> QED BY <1>3, <3>1, <3>4
  <2> QED BY <1>7, <2>1, <2>2
<1>8. ASSUME NEW w \in Workers, Handle(w) PROVE Stays
  <2>1. \E ms \in Seq(Message) : toBroker' = [toBroker EXCEPT ![w] = @ \o Forwards(ms)]
    BY <1>8, HandlerAnswers
  <2>2. PICK ms \in Seq(Message) : toBroker' = [toBroker EXCEPT ![w] = @ \o Forwards(ms)]
    BY <2>1
  <2>3. Forwards(ms) \in Seq(Request) /\ w \in Procs
    BY ForwardsType DEF Procs
  <2> QED BY <1>3, <2>2, <2>3
<1>9. ASSUME NEW w \in Workers, HandleGetTask(w) PROVE Stays
  BY <1>4, <1>9 DEF HandleGetTask, Procs
<1>10. ASSUME NEW r \in Readers, HandleRegisterAck(r) PROVE Stays
  BY <1>4, <1>10 DEF HandleRegisterAck, Procs
<1>11. ASSUME NEW o \in Procs, ForwardBlocked(o) \/ ForwardResult(o) \/ ForwardAck(o) \/ ForwardPlain(o)
       PROVE  Stays \/ (e = Head(toBroker[p]) /\ o = p)
  <2>1. Serve(o, "forward")
    BY <1>11 DEF ForwardBlocked, ForwardResult, ForwardAck, ForwardPlain
  <2>2. CASE o # p
    BY <1>4, <2>1, <2>2
  <2>3. CASE o = p
    <3>1. toBroker'[p] = Tail(toBroker[p])
      BY <2>1, <2>3 DEF Serve
    <3> QED BY <1>2, <2>3, <3>1 DEF Stays
  <2> QED BY <2>2, <2>3
<1>12. Untroubled => running = Procs
  BY DEF FlowInv
<1> QED BY <1>5, <1>6, <1>7, <1>8, <1>9, <1>10, <1>11, <1>12, UntroubledCases DEF Stays

\* A benchmark, and then its result, goes on until the broker serves it.
LEMMA NearSent ==
  ASSUME TypeInv, FlowInv, [Next]_vars, Untroubled', NEW m \in ImplMessage,
         NEW p \in Procs, Sends(m) \in Range(toBroker[p])
  PROVE  Near(m)' \/ (ForwardResult(p) /\ Forwarded(p) = m)
<1>1. Sends(m).type = "forward" /\ Sends(m).message = m
  BY DEF Sends
<1>2. m.class \in {TuneClass, ResultClass} /\ m.class \notin {"postprocess", "tune_kernel_ack"}
  BY DEF ImplMessage, TuneClass, ResultClass
<1>3. CASE Sends(m) \in Range(toBroker'[p])
  BY <1>3 DEF Near, Sends
<1>4. CASE /\ Sends(m) = Head(toBroker[p])
           /\ ForwardBlocked(p) \/ ForwardResult(p) \/ ForwardAck(p) \/ ForwardPlain(p)
  <2>1. Forwarded(p) = m
    BY <1>1, <1>4 DEF Forwarded
  <2>2. CASE ForwardPlain(p)
    <3>1. m.class = TuneClass
      BY <1>2, <2>1, <2>2 DEF ForwardPlain
    <3>2. m \in Range(queue'[TargetQueue(m)])
      BY <2>1, <2>2, QueuesAllotted
    <3> QED BY <3>1, <3>2 DEF TargetQueue, Near
  <2> QED BY <1>2, <1>4, <2>1, <2>2 DEF ForwardBlocked, ForwardAck
<1> QED BY <1>1, <1>3, <1>4, SentStep

LEMMA NearQueued ==
  ASSUME TypeInv, FlowInv, [Next]_vars, Untroubled', NEW m, m \in Range(queue["gpu_queue"])
  PROVE  Near(m)'
<1> USE DEF TypeInv, TypeOK
<1> DEFINE g == "gpu_queue"
<1>1. g \in QueueName /\ queue[g] \in Seq(Work)
  BY DEF QueueName
<1>2. CASE UNCHANGED queue
  BY <1>2 DEF Near
<1>3. ASSUME NEW w \in Workers, HandleGetTask(w) PROVE Near(m)'
  <2>1. CASE UNCHANGED queue
    BY <1>2, <2>1
  <2>2. CASE ~ UNCHANGED queue
    <3> DEFINE q == QueueOf(w)
               e == Gives(Head(queue[q]))
    <3>1. /\ toWorker' = [toWorker EXCEPT ![w] = Append(@, e)]
          /\ queue' = [queue EXCEPT ![q] = Tail(@)] /\ queue[q] # <<>>
      BY <1>3, <2>2 DEF HandleGetTask, Gives
    <3> HIDE DEF e, q
    <3>2. CASE q # g
      BY <1>1, <3>1, <3>2 DEF Near
    <3>3. CASE q = g
      <4>1. w \in GpuWorkers
        BY <3>3 DEF q, QueueOf
      <4>2. Range(queue[g]) = {Head(queue[g])} \cup Range(Tail(queue[g]))
        BY <1>1, <3>1, <3>3, RangeTail
      <4>3. CASE m \in Range(Tail(queue[g]))
        BY <1>1, <3>1, <3>3, <4>3 DEF Near
      <4>4. CASE m = Head(queue[g])
        <5>1. e = Gives(m)
          BY <3>3, <4>4 DEF e
        <5>2. toWorker'[w] = Append(toWorker[w], e) /\ toWorker[w] \in Seq(Response)
          BY <3>1 DEF Procs
        <5>3. Head(queue[g]) \in Work
          BY <1>1, <3>1, <3>3
        <5>4. e \in Response
          BY <4>4, <5>1, <5>3 DEF Gives, Response
        <5>5. e \in Range(toWorker'[w])
          <6>1. Range(Append(toWorker[w], e)) = Range(toWorker[w]) \cup {e}
            BY <5>2, <5>4, RangeAppend
          <6> QED BY <5>2, <6>1
        <5> QED BY <4>1, <5>1, <5>5 DEF Near, Gives
      <4> QED BY <4>2, <4>3, <4>4
    <3> QED BY <3>2, <3>3
  <2> QED BY <2>1, <2>2
<1>4. ASSUME NEW p \in Procs, ForwardPlain(p) \/ ForwardResult(p) PROVE Near(m)'
  <2>1. Range(queue[g]) \subseteq Range(queue'[g])
    BY <1>1, <1>4, QueuesAllotted
  <2> QED BY <2>1 DEF Near
<1>5. ASSUME NEW w \in Workers, Handle(w) PROVE UNCHANGED queue
  BY <1>5, HandlerAnswers
<1>6. Untroubled => running = Procs
  BY DEF FlowInv
<1> QED BY <1>2, <1>3, <1>4, <1>5, <1>6, UntroubledCases
        DEF Idle, FetchTask, GetTask, ReceiveReply, HandleRegisterAck, ForwardBlocked, ForwardAck, broker

LEMMA NearReplied ==
  ASSUME TypeInv, FlowInv, [Next]_vars, Untroubled', NEW m, NEW w \in GpuWorkers,
         Gives(m) \in Range(toWorker[w])
  PROVE  Near(m)'
<1> USE DEF TypeInv, TypeOK
<1>1. /\ w \in Workers /\ w \in Procs /\ w \notin Readers /\ toWorker[w] \in Seq(Response)
      /\ toWorker[w] # <<>>
  BY LocalQueueAssumption DEF Workers, Procs, Range
<1>2. CASE toWorker'[w] = toWorker[w]
  BY <1>2 DEF Near, Gives
<1>3. ASSUME NEW v \in Workers, HandleGetTask(v) PROVE Near(m)'
  <2>1. CASE v = w
    <3>1. toBroker[w] # <<>>
      BY <1>3, <2>1 DEF HandleGetTask, Serve
    <3> QED BY <1>1, <3>1 DEF FlowInv, InTurn
  <2>2. CASE v # w
    BY <1>1, <1>2, <1>3, <2>2 DEF HandleGetTask
  <2> QED BY <2>1, <2>2
<1>4. ASSUME NEW v \in Workers, ReceiveReply(v) PROVE Near(m)'
  <2>1. CASE v = w
    <3>1. Tail(toWorker[w]) = <<>>
      BY <1>1 DEF FlowInv, InTurn
    <3>2. Range(toWorker[w]) = {Head(toWorker[w])}
      <4>1. Range(toWorker[w]) = {Head(toWorker[w])} \cup Range(Tail(toWorker[w]))
        BY <1>1, RangeTail
      <4> QED BY <3>1, <4>1, RangeOne
    <3>3. Head(toWorker[w]).type = "task" /\ Head(toWorker[w]).message = m
      BY <3>2 DEF Gives
    <3>4. hand'[w] = <<m>>
      BY <1>1, <1>4, <2>1, <3>3 DEF ReceiveReply
    <3>5. Range(hand'[w]) = {m}
      BY <3>4, RangeOne
    <3> QED BY <3>5 DEF Near
  <2>2. CASE v # w
    BY <1>1, <1>2, <1>4, <2>2 DEF ReceiveReply, Procs
  <2> QED BY <2>1, <2>2
<1>5. ASSUME NEW v \in Workers, Handle(v) PROVE toWorker' = toWorker
  BY <1>5, HandlerAnswers
<1>6. ASSUME NEW p \in Procs, ForwardAck(p) PROVE toWorker'[w] = toWorker[w]
  BY <1>1, <1>6 DEF ForwardAck
<1>7. Untroubled => running = Procs
  BY DEF FlowInv
<1> QED BY <1>1, <1>2, <1>3, <1>4, <1>5, <1>6, <1>7, UntroubledCases
        DEF Idle, FetchTask, GetTask, HandleRegisterAck, ForwardBlocked, ForwardResult, ForwardPlain

LEMMA NearHeld ==
  ASSUME TypeInv, FlowInv, [Next]_vars, Untroubled', NEW m \in ImplMessage, NEW w \in GpuWorkers,
         m \in Range(hand[w])
  PROVE  Near(m)' \/ (m.class = TuneClass /\ Near(ImplMsg(ResultClass, m.task, m.impl))')
<1> USE DEF TypeInv, TypeOK
<1> DEFINE Goal == Near(m)' \/ (m.class = TuneClass /\ Near(ImplMsg(ResultClass, m.task, m.impl))')
<1>1. /\ w \in Workers /\ w \in Procs /\ hand[w] \in Seq(Work) /\ hand[w] # <<>>
  BY DEF Workers, Procs, Range
<1>2. hand[w] = <<m>> /\ Head(hand[w]) = m /\ ~ asked[w] /\ toBroker[w] = <<>>
  <2>1. hand[w] = <<Head(hand[w])>> /\ ~ asked[w] /\ toBroker[w] = <<>>
    BY <1>1 DEF FlowInv, InTurn
  <2>2. Range(<<Head(hand[w])>>) = {Head(hand[w])}
    BY RangeOne
  <2> QED BY <2>1, <2>2
<1>3. CASE hand'[w] = hand[w]
  BY <1>3 DEF Near
<1>4. m.class = TuneClass
  <2>1. m.class \in ClassesOf("gpu_queue")
    BY <1>1 DEF FlowInv, Allotted, QueueOf
  <2> QED BY <2>1 DEF ClassesOf, ImplMessage, TuneClass, ResultClass
<1>5. ASSUME NEW v \in Workers, Handle(v) PROVE Goal
  <2>1. /\ hand' = [hand EXCEPT ![v] = <<>>]
        /\ \E ms \in Seq(Message) :
              Answer(Head(hand[v]), ms) /\ toBroker' = [toBroker EXCEPT ![v] = @ \o Forwards(ms)]
    BY <1>5, HandlerAnswers
  <2>2. CASE v # w
    BY <1>1, <1>3, <2>1, <2>2
  <2>3. CASE v = w
    <3> DEFINE x == ImplMsg(ResultClass, m.task, m.impl)
    <3>1. PICK ms \in Seq(Message) :
            Answer(m, ms) /\ toBroker' = [toBroker EXCEPT ![w] = @ \o Forwards(ms)]
      BY <1>2, <2>1, <2>3
    <3>2. ms = <<x>>
      BY <1>4, <3>1 DEF Answer, Stages, TuneClass, ResultClass
    <3> HIDE DEF x
    <3>3. toBroker'[w] = Forwards(ms)
      <4>1. Forwards(ms) \in Seq(Request) /\ toBroker'[w] = toBroker[w] \o Forwards(ms)
        BY <1>1, <3>1, ForwardsType
      <4> QED BY <1>2, <4>1
    <3>4. Range(Forwards(ms)) = { [type |-> "forward", message |-> y] : y \in Range(ms) }
      BY RangeForwards
    <3>5. Sends(x) \in Range(toBroker'[w])
      BY <3>2, <3>3, <3>4, RangeOne DEF Sends
    <3>6. Near(x)'
      BY <1>1, <3>5 DEF Near, Sends
    <3> QED BY <1>4, <3>6 DEF x
  <2> QED BY <2>2, <2>3
<1>6. ASSUME NEW v \in Workers, ReceiveReply(v) PROVE hand'[w] = hand[w]
  BY <1>1, <1>2, <1>6 DEF ReceiveReply
<1> HIDE DEF Goal
<1>7. Goal
  <2>1. hand'[w] = hand[w] => Goal
    BY <1>3 DEF Goal
  <2>2. Untroubled => running = Procs
    BY DEF FlowInv
  <2> QED BY <1>5, <1>6, <2>1, <2>2, UntroubledCases
          DEF Idle, FetchTask, GetTask, HandleGetTask, HandleRegisterAck, ForwardBlocked,
              ForwardResult, ForwardAck, ForwardPlain, Serve, worker
<1> QED BY <1>7 DEF Goal

\* What is to come for a task stays so until the broker serves its result.
LEMMA ToComeStep ==
  ASSUME TypeInv, FlowInv, [Next]_vars, Untroubled', NEW t \in Tasks, NEW i \in ToCome(t)
  PROVE  \/ i \in ToCome(t)'
         \/ \E p \in Procs : ForwardResult(p) /\ Forwarded(p).task = t /\ Forwarded(p).impl = i
<1>1. i \in Impls /\ \E c \in {TuneClass, ResultClass} : Near(ImplMsg(c, t, i))
  BY ToComeIsNear
<1>2. PICK c \in {TuneClass, ResultClass} : Near(ImplMsg(c, t, i))
  BY <1>1
<1> DEFINE m == ImplMsg(c, t, i)
<1>3. m \in ImplMessage /\ m.task = t /\ m.impl = i /\ m.class = c
  BY <1>1 DEF ImplMsg, ImplMessage
<1>4. Near(m)' => i \in ToCome(t)'
  BY NearIsToCome
<1>5. Near(ImplMsg(ResultClass, t, i))' => i \in ToCome(t)'
  BY NearIsToCome
<1> HIDE DEF m
<1>6. Near(m)
  BY <1>2 DEF m
<1>7. CASE \E p \in Procs : Sends(m) \in Range(toBroker[p])
  BY <1>3, <1>4, <1>7, NearSent
<1>8. CASE m \in Range(queue["gpu_queue"])
  BY <1>4, <1>8, NearQueued
<1>9. CASE \E w \in GpuWorkers : Gives(m) \in Range(toWorker[w])
  BY <1>4, <1>9, NearReplied
<1>10. CASE \E w \in GpuWorkers : m \in Range(hand[w])
  BY <1>3, <1>4, <1>5, <1>10, NearHeld
<1> QED BY <1>6, <1>7, <1>8, <1>9, <1>10 DEF Near

\* The broker serves one request at a time.
LEMMA OneServed ==
  ASSUME TypeInv, NEW p \in Procs, NEW q \in Procs, ForwardResult(p),
         ForwardResult(q) \/ ForwardBlocked(q)
  PROVE  p = q
<1>1. /\ toBroker[p] \in Seq(Request) /\ toBroker[p] # <<>>
      /\ toBroker' = [toBroker EXCEPT ![p] = Tail(@)]
      /\ toBroker' = [toBroker EXCEPT ![q] = Tail(@)]
  BY DEF ForwardResult, ForwardBlocked, Serve, TypeInv, TypeOK
<1>2. Tail(toBroker[p]) # toBroker[p]
  <2> DEFINE s == toBroker[p]
  <2>1. Len(s) \in Nat /\ Len(Tail(s)) = Len(s) - 1
    BY <1>1
  <2> HIDE DEF s
  <2>2. Tail(s) # s
    BY <2>1
  <2> QED BY <2>2 DEF s
<1>3. p # q => toBroker'[p] = Tail(toBroker[p]) /\ toBroker'[p] = toBroker[p]
  BY <1>1 DEF TypeInv, TypeOK
<1> QED BY <1>2, <1>3

\* A postprocess message is new on its way when a probe has just sent it, after
\* the messages of what it expects.
LEMMA PostIsNew ==
  ASSUME TypeInv, FlowInv, [Next]_vars, Untroubled', OneBenchmarker, NEW p \in Procs,
         NEW e \in Range(toBroker'[p]), Is(e, "postprocess")
  PROVE  e \in Range(toBroker[p]) \/ Due(e.message)'
<1> USE DEF TypeInv, TypeOK
<1> DEFINE Goal == e \in Range(toBroker[p]) \/ Due(e.message)'
<1>1. toBroker[p] \in Seq(Request)
  OBVIOUS
<1>2. CASE toBroker'[p] = toBroker[p]
  BY <1>2
<1>3. ASSUME NEW o \in Procs, NEW type, Serve(o, type) PROVE Goal
  <2>1. CASE o = p
    <3>1. toBroker'[p] = Tail(toBroker[p]) /\ toBroker[p] # <<>>
      BY <1>3, <2>1 DEF Serve
    <3>2. Range(toBroker[p]) = {Head(toBroker[p])} \cup Range(Tail(toBroker[p]))
      BY <1>1, <3>1, RangeTail
    <3> QED BY <3>1, <3>2
  <2> QED BY <1>2, <1>3, <2>1 DEF Serve
<1>4. ASSUME NEW o \in Procs, NEW rs \in Seq(Request), toBroker' = [toBroker EXCEPT ![o] = @ \o rs]
      PROVE  Goal \/ (o = p /\ e \in Range(rs))
  <2>1. CASE o = p
    <3>1. Range(toBroker[p] \o rs) = Range(toBroker[p]) \cup Range(rs)
      BY <1>1, RangeConcat
    <3> QED BY <1>4, <2>1, <3>1
  <2> QED BY <1>2, <1>4, <2>1
<1> HIDE DEF Goal
<1>5. ASSUME toBroker' = toBroker PROVE Goal
  BY <1>2, <1>5 DEF Goal
<1>6. ASSUME NEW r \in Readers, NEW t \in Tasks, FetchTask(r, t) PROVE Goal
  <2>1. Submission(t) \in Seq(Request) /\ r \in Procs
    BY SubmissionType DEF Procs
  <2>2. \A x \in Range(Submission(t)) : ~ Is(x, "postprocess")
    BY DEF Submission, Range, Is, StageMsg
  <2> QED BY <1>4, <1>6, <2>1, <2>2 DEF FetchTask
<1>7. ASSUME NEW w \in Workers, GetTask(w) PROVE Goal
  <2> DEFINE x == [type |-> "get_task"]
  <2>1. /\ x \in Request /\ toBroker[w] \in Seq(Request) /\ w \in Procs
        /\ toBroker' = [toBroker EXCEPT ![w] = Append(@, x)] /\ ~ Is(x, "postprocess")
    BY <1>7 DEF GetTask, Request, Procs, Is
  <2> HIDE DEF x
  <2>2. CASE w = p
    <3>1. Range(toBroker'[p]) = Range(toBroker[p]) \cup {x}
      <4>1. Range(Append(toBroker[w], x)) = Range(toBroker[w]) \cup {x}
        BY <2>1, RangeAppend
      <4> QED BY <2>1, <2>2, <4>1
    <3> QED BY <2>1, <3>1 DEF Goal
  <2>3. CASE w # p
    BY <1>2, <2>1, <2>3 DEF Goal
  <2> QED BY <2>2, <2>3
<1>8. ASSUME NEW w \in Workers, Handle(w) PROVE Goal
  <2> DEFINE h == Head(hand[w])
  <2>1. h \in Work /\ h.task \in Tasks /\ w \in Procs
        /\ \E ms \in Seq(Message) :
              Answer(h, ms) /\ toBroker' = [toBroker EXCEPT ![w] = @ \o Forwards(ms)]
    BY <1>8, HandlerAnswers DEF Procs
  <2> HIDE DEF h
  <2>2. PICK t \in Tasks, ms \in Seq(Message) :
          t = h.task /\ Answer(h, ms) /\ toBroker' = [toBroker EXCEPT ![w] = @ \o Forwards(ms)]
    BY <2>1
  <2>3. Forwards(ms) \in Seq(Request)
    BY ForwardsType
  <2>4. Goal \/ (w = p /\ e \in Range(Forwards(ms)))
    BY <1>4, <2>1, <2>2, <2>3
  <2>5. SUFFICES ASSUME w = p, e \in Range(Forwards(ms)) PROVE Goal
    BY <2>4
  <2>6. e.message \in Range(ms) /\ e.message.class = "postprocess"
    <3>1. PICK m \in Range(ms) : e = [type |-> "forward", message |-> m]
      BY <2>5, RangeForwards
    <3>2. e.message = m
      BY <3>1
    <3> QED BY <3>2 DEF Is
  <2>7. CASE ms = <<>> \/ \E x : ms = <<x>> /\ x.class # "postprocess"
    <3>1. CASE ms = <<>>
      BY <2>6, <3>1, RangeOne
    <3>2. ASSUME NEW x, ms = <<x>>, x.class # "postprocess" PROVE FALSE
      <4>1. Range(ms) = {x}
        BY <3>2, RangeOne
      <4> QED BY <2>6, <3>2, <4>1
    <3> QED BY <2>7, <3>1, <3>2
  <2>8. CASE \E f \in Fanouts : ms = Fanout(t, f)
    <3>1. PICK f \in Fanouts : ms = Fanout(t, f)
      BY <2>8
    <3> DEFINE tm == TuneMsgs(t, f)
               post == PostMsg(t, Len(fanouts[t]) + 1, ImplSet(f))
    <3>2. ms = Append(tm, post) /\ f \in Seq(Impls) /\ f # <<>>
      BY <3>1, LocalQueueAssumption DEF Fanout, OneBenchmarker
    <3>3. tm \in Seq(Message) /\ \A k \in DOMAIN f : ImplMsg(TuneClass, t, f[k]) \in Range(tm)
      BY <2>1, <3>2, MessageTypes DEF TuneMsgs, Range
    <3>4. post \in Message
      <4>1. Len(fanouts[t]) + 1 \in Nat /\ ImplSet(f) \in SUBSET Impls
        BY <2>1, FanoutType
      <4> QED BY <2>1, <4>1, MessageTypes
    <3>5. \A x \in Range(tm) : x.class # "postprocess"
      BY DEF TuneMsgs, ImplMsg, Range, TuneClass
    <3>6. post.task = t /\ post.received = {} /\ post.expected = ImplSet(f)
      BY DEF PostMsg
    <3> HIDE DEF tm, post
    <3>7. Range(ms) = Range(tm) \cup {post}
      BY <3>2, <3>3, <3>4, RangeAppend
    <3>8. e.message = post
      BY <2>6, <3>5, <3>7
    <3>9. ASSUME NEW i \in ImplSet(f) PROVE i \in ToCome(t)'
      <4>1. ImplMsg(TuneClass, t, i) \in Range(ms)
        BY <3>3, <3>7 DEF ImplSet
      <4>2. Sends(ImplMsg(TuneClass, t, i)) \in Range(Forwards(ms))
        BY <4>1, RangeForwards DEF Sends
      <4>3. Range(toBroker[w] \o Forwards(ms)) = Range(toBroker[w]) \cup Range(Forwards(ms))
        BY <1>1, <2>3, <2>5, RangeConcat
      <4>4. Sends(ImplMsg(TuneClass, t, i)) \in Range(toBroker'[w])
        BY <2>1, <2>2, <4>2, <4>3
      <4>5. Near(ImplMsg(TuneClass, t, i))'
        BY <2>1, <4>4 DEF Near, Sends
      <4> QED BY <4>5, NearIsToCome
    <3>10. ImplSet(f) # {}
      <4>1. 1 \in DOMAIN f
        BY <3>2
      <4> QED BY <4>1 DEF ImplSet
    <3> QED BY <3>6, <3>8, <3>9, <3>10 DEF Goal, Due
  <2>9. ASSUME NEW x, ms = <<x>>, \/ x.class \in (Stages \ {"postprocess"}) \cup {"tune_kernel_ack"}
                                   \/ x = ImplMsg(ResultClass, h.task, h.impl)
        PROVE  x.class # "postprocess"
    BY <2>9 DEF ImplMsg, ResultClass
  <2> QED BY <2>2, <2>7, <2>8, <2>9 DEF Answer
<1>9. Goal
  <2>1. Untroubled => running = Procs
    BY DEF FlowInv
  <2>2. Workers \subseteq Procs /\ Readers \subseteq Procs
    BY DEF Procs
  <2>4. /\ \A w \in Workers : HandleGetTask(w) => Serve(w, "get_task")
        /\ \A r \in Readers : HandleRegisterAck(r) => Serve(r, "register_ack")
        /\ \A o \in Procs : ForwardBlocked(o) \/ ForwardResult(o) \/ ForwardAck(o) \/ ForwardPlain(o)
                            => Serve(o, "forward")
    BY DEF HandleGetTask, HandleRegisterAck, ForwardBlocked, ForwardResult, ForwardAck, ForwardPlain
  <2>5. \A o \in Procs : \A type : Serve(o, type) => Goal
    BY <1>3
  <2>6. (\E w \in Workers : HandleGetTask(w)) \/ (\E r \in Readers : HandleRegisterAck(r)) => Goal
    BY <2>2, <2>4, <2>5
  <2>7. (\E o \in Procs : ForwardBlocked(o) \/ ForwardResult(o) \/ ForwardAck(o) \/ ForwardPlain(o))
          => Goal
    BY <2>4, <2>5
  <2>8. ASSUME NEW w \in Workers, GetTask(w) \/ ReceiveReply(w) \/ Handle(w) \/ HandleGetTask(w)
        PROVE  Goal
    <3>1. CASE ReceiveReply(w)
      BY <1>5, <3>1 DEF ReceiveReply
    <3>2. CASE HandleGetTask(w)
      BY <2>6, <3>2
    <3> QED BY <1>7, <1>8, <2>8, <3>1, <3>2
  <2>9. (\E r \in Readers, t \in Tasks : FetchTask(r, t)) => Goal
    BY <1>6
  <2>10. Idle => Goal
    BY <1>5 DEF Idle
  <2>11. \/ Idle \/ \E r \in Readers, t \in Tasks : FetchTask(r, t)
         \/ \E w \in Workers : GetTask(w) \/ ReceiveReply(w) \/ Handle(w) \/ HandleGetTask(w)
         \/ \E r \in Readers : HandleRegisterAck(r)
         \/ \E o \in Procs : ForwardBlocked(o) \/ ForwardResult(o) \/ ForwardAck(o) \/ ForwardPlain(o)
    BY <2>1, UntroubledCases
  <2> QED BY <2>6, <2>7, <2>8, <2>9, <2>10, <2>11
<1> QED BY <1>9 DEF Goal

\* No result reaches the broker while a postprocess message is still to: both
\* come from the one process that benchmarks, the message before the results.
LEMMA AnnouncedStays ==
  ASSUME TypeInv, FlowInv, OneBenchmarker, NEW p \in Procs, NEW e \in Range(toBroker[p]),
         Is(e, "postprocess"), NEW q \in Procs, ForwardResult(q)
  PROVE  FALSE
<1> DEFINE x == Head(toBroker[q])
<1>1. Is(x, ResultClass) /\ x \in Range(toBroker[q])
  <2>1. toBroker[q] \in Seq(Request) /\ toBroker[q] # <<>>
    BY DEF TypeInv, TypeOK, ForwardResult, Serve
  <2>2. x \in Range(toBroker[q])
    BY <2>1, RangeTail
  <2> QED BY <2>2 DEF Is, ForwardResult, Serve, Forwarded
<1>2. p \in GpuWorkers /\ q \in GpuWorkers
  <2>1. ~ Plain(e) /\ ~ Plain(x)
    BY <1>1 DEF Plain
  <2> QED BY <1>1, <2>1 DEF FlowInv, Allotted
<1>3. p = q /\ p \in Workers
  BY <1>2 DEF OneBenchmarker, Workers
<1> QED BY <1>1, <1>3 DEF FlowInv, Apart

LEMMA AnnouncedKept ==
  ASSUME TypeInv, FlowInv, Announced, OneBenchmarker, [Next]_vars, Untroubled'
  PROVE  Announced'
<1> SUFFICES ASSUME NEW p \in Procs, NEW e \in Range(toBroker'[p]), Is(e, "postprocess")
             PROVE  Due(e.message)'
  BY DEF Announced, Is
<1>1. CASE e \in Range(toBroker[p])
  <2> DEFINE m == e.message
             t == m.task
  <2>1. Due(m)
    BY <1>1 DEF Announced
  <2>2. t \in Tasks
    <3>1. toBroker[p] \in Seq(Request)
      BY DEF TypeInv, TypeOK
    <3>2. e \in Request /\ e.type = "forward"
      BY <1>1, <3>1 DEF Range, Is
    <3>3. e.message \in Message
      BY <3>2, RequestFields
    <3> QED BY <3>3, MessageFields
  <2> HIDE DEF m, t
  <2>3. \A i \in ToCome(t) : i \in ToCome(t)'
    BY <1>1, <2>2, ToComeStep, AnnouncedStays
  <2>4. Due(m)'
    BY <2>1, <2>3 DEF Due, t
  <2> QED BY <2>4 DEF m
<1>2. CASE e \notin Range(toBroker[p])
  BY <1>2, PostIsNew
<1> QED BY <1>1, <1>2

\* What is held back after a step.
LEMMA BlockedSteps ==
  ASSUME TypeInv, FlowInv, [Next]_vars, Untroubled', NEW b \in blocked'
  PROVE  \/ \E p \in Procs : ForwardResult(p) /\ b \in StillBlocked(Forwarded(p))
         \/ \E p \in Procs : ForwardBlocked(p) /\ b = Forwarded(p)
         \/ b \in blocked
<1>1. ASSUME NEW w \in Workers, Handle(w) PROVE blocked' = blocked
  BY <1>1, HandlerAnswers
<1>2. Untroubled => running = Procs
  BY DEF FlowInv
<1> QED BY <1>1, <1>2, UntroubledCases
        DEF Idle, FetchTask, GetTask, ReceiveReply, HandleGetTask, HandleRegisterAck, ForwardBlocked,
            ForwardResult, ForwardAck, ForwardPlain, broker

LEMMA SourceKept ==
  ASSUME TypeInv, FlowInv, SourceInv, OneBenchmarker, [Next]_vars, Untroubled'
  PROVE  BlockedHasSource'
<1> DEFINE Missing(b) == b.expected \ b.received
<1> SUFFICES ASSUME NEW b \in blocked'
             PROVE  Missing(b) # {} /\ Missing(b) \subseteq ToCome(b.task)'
  BY DEF BlockedHasSource
<1>1. \A c \in blocked : /\ c.task \in Tasks /\ Missing(c) # {}
                         /\ Missing(c) \subseteq ToCome(c.task)
  BY DEF SourceInv, BlockedHasSource, TypeInv, TypeOK, PostMessage
<1>2. ASSUME NEW p \in Procs, ForwardResult(p), b \in StillBlocked(Forwarded(p))
      PROVE  Missing(b) # {} /\ Missing(b) \subseteq ToCome(b.task)'
  <2> DEFINE m == Forwarded(p)
  <2>1. PICK c \in blocked \ Unblocked(m) : b = Received(c, m)
    BY <1>2 DEF StillBlocked
  <2>2. \A t \in Tasks : \A i \in ToCome(t) : i \in ToCome(t)' \/ (m.task = t /\ m.impl = i)
    BY <1>2, ToComeStep, OneServed
  <2> HIDE DEF m
  <2>3. CASE c.task = m.task
    <3>1. b = [c EXCEPT !.received = @ \cup {m.impl}] /\ ~ (b.expected \subseteq b.received)
      BY <2>1, <2>3 DEF Unblocked, Complete, Received
    <3>2. c \in PostMessage
      BY DEF TypeInv, TypeOK
    <3>3. b.task = c.task /\ Missing(b) = Missing(c) \ {m.impl}
      BY <3>1, <3>2 DEF PostMessage
    <3> QED BY <1>1, <2>2, <3>1, <3>3
  <2>4. CASE c.task # m.task
    <3>1. b = c
      BY <2>1, <2>4 DEF Received
    <3> QED BY <1>1, <2>2, <2>4, <3>1
  <2> QED BY <2>3, <2>4
<1>3. CASE \A p \in Procs : ~ ForwardResult(p)
  <2>1. \A t \in Tasks : \A i \in ToCome(t) : i \in ToCome(t)'
    BY <1>3, ToComeStep
  <2>2. CASE b \in blocked
    BY <1>1, <2>1, <2>2
  <2>3. ASSUME NEW p \in Procs, ForwardBlocked(p), b = Forwarded(p)
        PROVE  Missing(b) # {} /\ Missing(b) \subseteq ToCome(b.task)'
    <3> DEFINE x == Head(toBroker[p])
    <3>1. toBroker[p] \in Seq(Request) /\ toBroker[p] # <<>>
      BY <2>3 DEF TypeInv, TypeOK, ForwardBlocked, Serve
    <3>2. x \in Range(toBroker[p]) /\ x \in Request
      BY <3>1, RangeTail
    <3>3. Is(x, "postprocess") /\ x.message = b
      BY <2>3 DEF Is, ForwardBlocked, Serve, Forwarded
    <3>4. b.task \in Tasks
      <4>1. b \in Message
        BY <3>2, <3>3, RequestFields DEF Is
      <4> QED BY <4>1, MessageFields
    <3>5. Due(b)
      BY <3>2, <3>3 DEF SourceInv, Announced
    <3> QED BY <2>1, <3>4, <3>5 DEF Due
  <2> QED BY <1>3, <2>2, <2>3, BlockedSteps
<1>4. CASE \E p \in Procs : ForwardResult(p) /\ b \notin StillBlocked(Forwarded(p))
  <2>1. PICK p \in Procs : ForwardResult(p) /\ b \notin StillBlocked(Forwarded(p))
    BY <1>4
  <2>2. blocked' = StillBlocked(Forwarded(p))
    BY <2>1 DEF ForwardResult
  <2> QED BY <2>1, <2>2
<1> QED BY <1>2, <1>3, <1>4

\* In an untroubled service every benchmark and every held-back message has
\* its place and its turn.
SourceUntilTrouble ==
  Untroubled => FlowInv /\ (OneBenchmarker => SourceInv)

LEMMA InitSource == Init => SourceUntilTrouble
<1> SUFFICES ASSUME Init PROVE FlowInv /\ SourceInv
  BY DEF SourceUntilTrouble
<1>1. /\ \A q \in QueueName : Range(queue[q]) = {}
      /\ \A w \in Workers : Range(hand[w]) = {} /\ Range(toWorker[w]) = {}
      /\ \A p \in Procs : Range(toBroker[p]) = {}
  BY RangeOne DEF Init, Procs
<1>2. Allotted
  BY <1>1 DEF Allotted, Procs
<1>3. \A w \in Workers : InTurn(w) /\ Apart(w)
  BY <1>1 DEF Init, InTurn, Apart, Procs
<1>4. Announced /\ BlockedHasSource
  BY <1>1 DEF Init, Announced, BlockedHasSource
<1> QED BY <1>2, <1>3, <1>4 DEF Init, FlowInv, SourceInv

LEMMA NextSource == TypeInv /\ SourceUntilTrouble /\ [Next]_vars => SourceUntilTrouble'
<1> SUFFICES ASSUME TypeInv, SourceUntilTrouble, [Next]_vars, Untroubled'
             PROVE  FlowInv' /\ (OneBenchmarker => SourceInv')
  BY DEF SourceUntilTrouble, OneBenchmarker
<1>1. Untroubled /\ FlowInv
  BY UntroubledCases DEF SourceUntilTrouble, FlowInv
<1>2. FlowInv'
  BY <1>1, FlowKept
<1>3. OneBenchmarker => SourceInv'
  BY <1>1, AnnouncedKept, SourceKept DEF SourceUntilTrouble, SourceInv
<1> QED BY <1>2, <1>3

\* As long as nothing stops and no exception escapes, with one process that
\* benchmarks and probes that dispatch something, whatever is reset: each
\* postprocess message the broker holds back still misses a result, and every
\* result it misses is on its way to the broker (_build_fanout_kernel and
\* _build_fanout_op, LocalBroker._resolve_dependencies).
THEOREM HeldBackIsReleasable == Spec => [](Untroubled /\ OneBenchmarker => BlockedHasSource)
<1>1. Init => TypeInv /\ SourceUntilTrouble
  BY InitTypeInv, InitSource
<1>2. TypeInv /\ SourceUntilTrouble /\ [Next]_vars => TypeInv' /\ SourceUntilTrouble'
  BY NextType, NextSource
<1>3. SourceUntilTrouble => (Untroubled /\ OneBenchmarker => BlockedHasSource)
  BY DEF SourceUntilTrouble, SourceInv
<1> QED BY <1>1, <1>2, <1>3, PTL DEF Spec

-----------------------------------------------------------------------------
(* Stopping the node                                                       *)

\* Processes end, and nothing else changes.
Ending ==
  /\ running' \subseteq running
  /\ UNCHANGED <<db, tmpdirs, awaiting, worker, broker, toBroker, toWorker, fanouts, bounds>>

LEMMA EndingKeeps ==
  ASSUME TypeInv, Ending
  PROVE  TypeInv' /\ (StageInv => StageInv') /\ (LifeInv => LifeInv')
<1> USE DEF Ending, db, worker, broker, bounds
<1>1. TypeInv'
  BY DEF TypeInv, TypeOK
<1>2. \A M : Conserved(M)
  BY BlendSame, NothingMoves
<1>3. \A M : Somewhere(M)' = Somewhere(M) /\ Unique(M)' = Unique(M)
  BY DEF Somewhere, Unique, At, Content
<1>4. Quiet
  BY <1>2 DEF Quiet
<1>5. StageInv => StageInv'
  BY <1>4, QuietStage
<1>6. LifeInv => LifeInv'
  BY <1>3 DEF LifeInv, LifeOf, Unprobed, Expecting, DirectoryOf
<1> QED BY <1>1, <1>5, <1>6

\* Serving is a step of the local queue that resets nothing.
LEMMA ServingStep ==
  ASSUME TypeInv, Serving
  PROVE  Next /\ resets' = resets /\ running' \subseteq running
<1> USE DEF TypeInv, TypeOK
<1>1. ASSUME NEW r \in Readers, Fetch(r) \/ ReceiveAck(r)
      PROVE  Next /\ resets' = resets /\ running' = running
  BY <1>1 DEF Next, Fetch, FetchTask, ReceiveAck, bounds
<1>2. ASSUME NEW w \in Workers, GetTask(w) \/ ReceiveReply(w)
      PROVE  Next /\ resets' = resets /\ running' = running
  BY <1>2 DEF Next, GetTask, ReceiveReply, bounds
<1>3. ASSUME NEW w \in Workers, HandleOn(w)
      PROVE  Next /\ resets' = resets /\ running' \subseteq running
  <2>1. Handle(w) /\ resets' = resets
    BY <1>3, HandleCases DEF HandleOn
  <2>2. running' \subseteq running
    BY <2>1 DEF Handle, TuneKernel, PreprocessOk, PreprocessFails, ProbeOk, ProbeFails,
       TuneImpl, WriteResult, Postprocess, MarkTaskFailed, Return
  <2> QED BY <2>1, <2>2 DEF Next
<1>4. ASSUME NEW p \in Procs, Broker(p)
      PROVE  Next /\ resets' = resets /\ running' = running
  BY <1>4 DEF Next, Broker, HandleGetTask, HandleRegisterAck, ForwardBlocked, ForwardResult,
     ForwardAck, ForwardPlain, RemoveWorker, Serve, bounds
<1> QED BY <1>1, <1>2, <1>3, <1>4 DEF Serving

\* The GPU workers have ended before the script goes on to the processes
\* behind them, and the tasks live on until the broker has ended.
StopInv ==
  /\ TypeInv
  /\ resets = 0
  /\ phase \in Phase
  /\ phase # "done" => StageInv /\ LifeInv
  /\ phase \in {"hup", "cpu", "broker", "done"} => GpuWorkers \cap running = {}

LEMMA ServingKeepsStopInv == ASSUME StopInv, Serving PROVE StopInv'
<1> USE DEF StopInv
<1>1. Next /\ resets' = resets /\ running' \subseteq running /\ UNCHANGED stop
  BY ServingStep DEF Serving
<1>2. TypeInv'
  BY <1>1, NextType
<1>3. phase # "done" => StageInv' /\ LifeInv'
  BY <1>1, NextLife
<1>4. phase' = phase
  BY <1>1 DEF stop
<1> QED BY <1>1, <1>2, <1>3, <1>4

\* A step that ends processes keeps it, if the script has not ended before and
\* no GPU worker is left when it passes them.
LEMMA EndingKeepsStopInv ==
  ASSUME StopInv, Ending, phase' \in Phase, phase # "done" \/ phase' = "done",
         phase' \in {"hup", "cpu", "broker", "done"} =>
           phase \in {"hup", "cpu", "broker", "done"} \/ GpuWorkers \cap running' = {},
         phase' # "done" => phase # "done"
  PROVE  StopInv'
<1>1. TypeInv' /\ (StageInv => StageInv') /\ (LifeInv => LifeInv')
  BY EndingKeeps DEF StopInv
<1>2. resets' = 0 /\ running' \subseteq running
  BY DEF StopInv, Ending, bounds
<1>3. phase' # "done" => StageInv' /\ LifeInv'
  BY <1>1 DEF StopInv
<1>4. phase' \in {"hup", "cpu", "broker", "done"} => GpuWorkers \cap running' = {}
  BY <1>2 DEF StopInv
<1> QED BY <1>1, <1>2, <1>3, <1>4 DEF StopInv

LEMMA ScriptKeepsStopInv == ASSUME StopInv, Script PROVE StopInv'
<1>1. phase \in Phase
  BY DEF StopInv
<1>2. ASSUME phase \notin {"broker", "done"}
      PROVE  /\ NextPhase \in Phase \ {"done"}
             /\ NextPhase \in {"hup", "cpu", "broker"} => phase \in {"gpu", "hup", "cpu"}
             /\ phase = "gpu" => Group(phase) = GpuWorkers
             /\ phase \in {"hup", "broker"} => Group(phase) = {}
  BY <1>1, <1>2 DEF NextPhase, Phase, Group
<1>3. CASE Advance
  <2>1. Ending /\ phase' = NextPhase /\ running' = running
        /\ phase \notin {"broker", "done"} /\ Group(phase) \cap running = {}
    BY <1>3 DEF Advance, EnterNext, Ending, vars
  <2>2. phase = "gpu" => GpuWorkers \cap running' = {}
    BY <1>2, <2>1
  <2> QED BY <1>2, <2>1, <2>2, EndingKeepsStopInv
<1>4. CASE ForceKill
  <2>1. Ending /\ phase' = NextPhase /\ running' = running \ Group(phase)
        /\ phase \notin {"broker", "done"}
    BY <1>1, <1>4 DEF ForceKill, EnterNext, Ending, Group, Phase
  <2>2. phase = "gpu" => GpuWorkers \cap running' = {}
    BY <1>2, <2>1
  <2> QED BY <1>2, <2>1, <2>2, EndingKeepsStopInv
<1>5. CASE StopBroker \/ KillBroker
  <2>1. BrokerEnds /\ tmpdirs' \subseteq tmpdirs /\ blocked' \in {blocked, {}}
    BY <1>5 DEF StopBroker, KillBroker, Teardown
  <2>2. phase' = "done" /\ resets' = resets /\ running' = running /\ phase = "broker"
    BY <2>1 DEF BrokerEnds, NextPhase, bounds
  <2>3. blocked' \in SUBSET PostMessage /\ IsFiniteSet(blocked')
    BY <2>1, FS_EmptySet DEF StopInv, TypeInv, TypeOK
  <2>4. TypeInv'
    BY <2>1, <2>3 DEF BrokerEnds, StopInv, TypeInv, TypeOK, db, worker, bounds
  <2> QED BY <2>2, <2>4 DEF StopInv, Phase
<1> QED BY <1>3, <1>4, <1>5 DEF Script

\* While a node is stopped, the directory a GPU worker probes or benchmarks in
\* is there as long as the worker runs (DirectoryInUse).
THEOREM DirectoryOutlivesWorkers == StopSpec => []DirectoryInUse
<1>1. StopInit => StopInv
  <2>1. StopInit => Init /\ phase = "serve" /\ resets = 0
    BY DEF StopInit, Init
  <2>2. "serve" \in Phase /\ "serve" \notin {"hup", "cpu", "broker", "done"}
    BY DEF Phase
  <2> QED BY <2>1, <2>2, InitTypeInv, InitLife DEF StopInv
<1>2. StopInv /\ [StopNext]_all => StopInv'
  <2>1. ASSUME StopInv, UNCHANGED all \/ \E p \in Procs : Exit(p) PROVE StopInv'
    <3>1. Ending /\ phase' = phase
      BY <2>1 DEF all, vars, stop, Exit, Ending
    <3> QED BY <2>1, <3>1, EndingKeepsStopInv DEF StopInv
  <2> QED BY <2>1, ServingKeepsStopInv, ScriptKeepsStopInv DEF StopNext
<1>3. StopInv => DirectoryInUse
  <2> SUFFICES ASSUME StopInv, NEW w \in GpuWorkers \cap running,
                      Handling(w, "probe") \/ Handling(w, TuneClass)
               PROVE  Head(hand[w]).task \in tmpdirs
    BY DEF DirectoryInUse
  <2> DEFINE m == Head(hand[w])
  <2>1. LifeInv /\ TypeInv /\ w \in Workers
    BY DEF StopInv, Workers
  <2>2. hand[w] # <<>> /\ m.class \in {"probe", TuneClass} /\ m \in Work /\ m.task \in Tasks
    BY <2>1, HandlingFields DEF Handling
  <2>3. Somewhere({m})
    BY <2>1, <2>2, HeldIsSomewhere
  <2> QED BY <2>1, <2>2, <2>3, NeedsDirectory
<1> QED BY <1>1, <1>2, <1>3, PTL DEF StopSpec
=============================================================================
