-------------------------- MODULE ExaidProxyProofs --------------------------
(***************************************************************************)
(* Theorems of ExaidProxy, for any number of calls and OVERHEATING lines   *)
(* and any capacity of stderr: an answer is taken for the call it answers, *)
(* and which deaths of the process the caller survives.                    *)
(***************************************************************************)
EXTENDS ExaidProxy, SequenceTheorems, TLAPS

Requests == [command : Commands \cup {"exit"}, call : Nat]
Pieces == [kind : {"heat", "ok", "error"}, call : Nat, end : BOOLEAN]
Results == [kind : {"OK", "NotOK", "ValueError", "OSError", "BrokenPipe", "exit"}, call : Nat]

Waiting == pc \in {"poll", "read"}
Between == pc \in {"idle", "write"}

\* What the worker has written and the caller has not taken.
Pending == buffer \o stdout

Whole(x) == x.end
Terminal(x) == Whole(x) /\ x.kind \in {"ok", "error"}
LastIs(kind) == result # <<>> /\ result[Len(result)].kind = kind

Types ==
  /\ pc \in {"idle", "write", "poll", "read", "reset", "join"}
  /\ command \in Commands \cup {"exit", "none"} /\ call \in Nat
  /\ pc # "idle" => command # "none"
  /\ result \in Seq(Results)
  /\ process \in {"none", "running"} \cup Dead
  /\ stdin \in Seq(Requests) /\ stdout \in Seq(Pieces) /\ buffer \in Seq(Pieces)
  /\ job \in {None} \cup Requests

\* A result for each call that has returned.
Counted == /\ pc = "idle" => Len(result) = call
           /\ pc # "idle" => Len(result) + 1 = call

\* The lines of one command n: only an "ok" comes in two writes, and nothing
\* follows the answer.
Answers(p, n) ==
  \A i \in 1..Len(p) :
    /\ p[i].call = n
    /\ Whole(p[i]) \/ p[i].kind = "ok"
    /\ ~Whole(p[i]) => i = Len(p) \/ (i = Len(p) - 1 /\ Terminal(p[Len(p)]))
    /\ Terminal(p[i]) => i = Len(p)

\* A command is on its way, in work, or answered.
Working(p) ==
  p # <<>> =>
    /\ ~Whole(p[Len(p)]) => job # None /\ half
    /\ Terminal(p[Len(p)]) => job = None /\ stdin = <<>>

\* While the caller waits, all there is belongs to its call.
Own == Waiting =>
  /\ \A i \in 1..Len(stdin) : stdin[i].call = call
  /\ Len(stdin) <= 1
  /\ job # None => job.call = call /\ stdin = <<>>
  /\ Answers(Pending, call) /\ Working(Pending)

\* Between two calls a process that runs has nothing left to say.
Clean == Between /\ process = "running" =>
  stdin = <<>> /\ stdout = <<>> /\ buffer = <<>> /\ job = None

NoLine == pc = "read" => ~HasLine(buffer)

\* How the last call ended, and what became of the process.
Deaths ==
  /\ Between /\ LastIs("OSError") => process = "none"
  /\ Between /\ LastIs("BrokenPipe") => process \in Dead
  /\ Between /\ process # "none" => result # <<>>
  /\ ~Between => ~LastIs("BrokenPipe")

ProxyInv ==
  /\ Types /\ Counted /\ Own /\ Clean /\ NoLine /\ Deaths
  /\ AnswerBelongs /\ DeathsSeenOrFatal

-----------------------------------------------------------------------------
(* Sequences. *)

LEMMA TwoPieces ==
  ASSUME NEW x \in Nat, NEW y \in Nat, x >= 2, x + y <= 2
  PROVE  x = 2 /\ y = 0
  OBVIOUS

LEMMA NothingLeft ==
  ASSUME NEW S, NEW q \in Seq(S), Len(q) = 0
  PROVE  q = <<>>
  BY EmptySeq

\* A write goes behind what is pending.
LEMMA AppendPending ==
  ASSUME NEW S, NEW b \in Seq(S), NEW s \in Seq(S), NEW x \in S
  PROVE  b \o Append(s, x) = Append(b \o s, x)
<1>1. Append(s, x) = s \o <<x>> /\ <<x>> \in Seq(S)
  BY AppendIsConcat
<1>2. b \o s \in Seq(S)
  BY ConcatProperties
<1>3. Append(b \o s, x) = (b \o s) \o <<x>>
  BY <1>2, AppendIsConcat
<1>4. (b \o s) \o <<x>> = b \o (s \o <<x>>)
  BY <1>1, ConcatAssociative
<1> QED
  BY <1>1, <1>3, <1>4

\* Reading moves a part of stdout to the buffer.
LEMMA MovePending ==
  ASSUME NEW b \in Seq(Pieces), NEW s \in Seq(Pieces), NEW k \in 1..Len(s)
  PROVE  /\ b \o SubSeq(s, 1, k) \in Seq(Pieces) /\ SubSeq(s, k + 1, Len(s)) \in Seq(Pieces)
         /\ (b \o SubSeq(s, 1, k)) \o SubSeq(s, k + 1, Len(s)) = b \o s
<1> DEFINE h == SubSeq(s, 1, k)
           t == SubSeq(s, k + 1, Len(s))
           bh == b \o h
           l == bh \o t
           r == b \o s
<1>1. /\ k \in Nat /\ Len(s) \in Nat /\ Len(b) \in Nat /\ 1 <= k /\ k <= Len(s)
  OBVIOUS
<1>2. h \in Seq(Pieces) /\ Len(h) = k /\ \A i \in 1..k : h[i] = s[i]
  OBVIOUS
<1>3. t \in Seq(Pieces) /\ Len(t) = Len(s) - k /\ \A i \in 1..(Len(s) - k) : t[i] = s[i + k]
  BY <1>1
<1>4. /\ r \in Seq(Pieces) /\ Len(r) = Len(b) + Len(s)
      /\ \A i \in 1..(Len(b) + Len(s)) : r[i] = IF i <= Len(b) THEN b[i] ELSE s[i - Len(b)]
  BY ConcatProperties
<1> HIDE DEF h, t, r
<1>5. /\ bh \in Seq(Pieces) /\ Len(bh) = Len(b) + Len(h)
      /\ \A i \in 1..(Len(b) + Len(h)) : bh[i] = IF i <= Len(b) THEN b[i] ELSE h[i - Len(b)]
  BY <1>2, ConcatProperties
<1> HIDE DEF bh
<1>6. /\ l \in Seq(Pieces) /\ Len(l) = Len(bh) + Len(t)
      /\ \A i \in 1..(Len(bh) + Len(t)) : l[i] = IF i <= Len(bh) THEN bh[i] ELSE t[i - Len(bh)]
  <2>1. bh \in Seq(Pieces) /\ t \in Seq(Pieces)
    BY <1>3, <1>5
  <2> QED
    BY <2>1, ConcatProperties
<1> HIDE DEF l
<1>7. Len(bh) = Len(b) + k /\ Len(l) = Len(r)
  BY <1>1, <1>2, <1>3, <1>4, <1>5, <1>6
<1>8. ASSUME NEW i \in 1..Len(l)
      PROVE  l[i] = r[i]
  <2>1. i \in Nat /\ i >= 1 /\ i <= Len(b) + Len(s)
    BY <1>1, <1>4, <1>7
  <2>2. r[i] = IF i <= Len(b) THEN b[i] ELSE s[i - Len(b)]
    BY <1>4, <1>7
  <2>3. CASE i <= Len(b) + k
    <3>1. l[i] = bh[i]
      BY <1>6, <1>7, <2>3
    <3>2. i \in 1..(Len(b) + Len(h))
      BY <1>1, <1>2, <2>1, <2>3
    <3>3. bh[i] = IF i <= Len(b) THEN b[i] ELSE h[i - Len(b)]
      BY <1>5, <3>2
    <3>4. ~(i <= Len(b)) => h[i - Len(b)] = s[i - Len(b)]
      BY <1>1, <1>2, <2>1, <2>3
    <3> QED
      BY <2>2, <3>1, <3>3, <3>4
  <2>4. CASE ~(i <= Len(b) + k)
    <3>1. l[i] = t[i - (Len(b) + k)]
      BY <1>6, <1>7, <2>4
    <3>2. i - (Len(b) + k) \in 1..(Len(s) - k) /\ (i - (Len(b) + k)) + k = i - Len(b)
      BY <1>1, <2>1, <2>4
    <3>3. t[i - (Len(b) + k)] = s[i - Len(b)]
      BY <1>3, <3>2
    <3>4. ~(i <= Len(b))
      BY <1>1, <2>1, <2>4
    <3> QED
      BY <2>2, <3>1, <3>3, <3>4
  <2> QED
    BY <2>3, <2>4
<1>9. l = r
  BY <1>4, <1>6, <1>7, <1>8, SeqEqual
<1> QED
  BY <1>3, <1>5, <1>9 DEF l, r, bh, h, t

\* Taking a line off the buffer takes it off what is pending.
LEMMA DropPending ==
  ASSUME NEW S, NEW g \in Seq(S), NEW r \in Seq(S), NEW e \in 1..Len(g)
  PROVE  /\ SubSeq(g, e + 1, Len(g)) \in Seq(S)
         /\ SubSeq(g, e + 1, Len(g)) \o r = SubSeq(g \o r, e + 1, Len(g \o r))
<1> DEFINE d == SubSeq(g, e + 1, Len(g))
           p == g \o r
           left == d \o r
           right == SubSeq(p, e + 1, Len(p))
<1>1. Len(g) \in Nat /\ Len(r) \in Nat /\ e \in Nat /\ 1 <= e /\ e <= Len(g)
  OBVIOUS
<1>2. d \in Seq(S) /\ Len(d) = Len(g) - e /\ \A i \in 1..(Len(g) - e) : d[i] = g[i + e]
  BY <1>1
<1>3. /\ p \in Seq(S) /\ Len(p) = Len(g) + Len(r)
      /\ \A i \in 1..(Len(g) + Len(r)) : p[i] = IF i <= Len(g) THEN g[i] ELSE r[i - Len(g)]
  BY ConcatProperties
<1> HIDE DEF d, p
<1>4. /\ left \in Seq(S) /\ Len(left) = Len(d) + Len(r)
      /\ \A i \in 1..(Len(d) + Len(r)) : left[i] = IF i <= Len(d) THEN d[i] ELSE r[i - Len(d)]
  BY <1>2, ConcatProperties
<1>5. Len(p) - e \in Nat /\ Len(p) \in Nat
  BY <1>1, <1>3
<1>6. /\ right \in Seq(S) /\ Len(right) = Len(p) - e
      /\ \A i \in 1..(Len(p) - e) : right[i] = p[i + e]
  BY <1>1, <1>3, <1>5
<1> HIDE DEF left, right
<1>7. Len(left) = Len(right) /\ Len(left) = (Len(g) - e) + Len(r)
  BY <1>1, <1>2, <1>3, <1>4, <1>6
<1>8. ASSUME NEW i \in 1..Len(left)
      PROVE  left[i] = right[i]
  <2>1. i \in Nat /\ i >= 1 /\ i <= (Len(g) - e) + Len(r) /\ i + e \in 1..(Len(g) + Len(r))
    BY <1>1, <1>7
  <2>2. right[i] = p[i + e]
    BY <1>6, <1>7
  <2>3. p[i + e] = IF i + e <= Len(g) THEN g[i + e] ELSE r[(i + e) - Len(g)]
    BY <1>3, <2>1
  <2>4. left[i] = IF i <= Len(d) THEN d[i] ELSE r[i - Len(d)]
    BY <1>4, <2>1
  <2>5. CASE i <= Len(g) - e
    <3>1. i + e <= Len(g) /\ i <= Len(d) /\ d[i] = g[i + e]
      BY <1>1, <1>2, <2>1, <2>5
    <3> QED
      BY <2>2, <2>3, <2>4, <3>1
  <2>6. CASE ~(i <= Len(g) - e)
    <3>1. ~(i + e <= Len(g)) /\ ~(i <= Len(d)) /\ (i + e) - Len(g) = i - Len(d)
      BY <1>1, <1>2, <2>1, <2>6
    <3> QED
      BY <2>2, <2>3, <2>4, <3>1
  <2> QED
    BY <2>5, <2>6
<1>9. left = right
  BY <1>4, <1>6, <1>7, <1>8, SeqEqual
<1> QED
  BY <1>2, <1>9 DEF left, right, d, p

-----------------------------------------------------------------------------
(* Lines and answers. *)

LEMMA WholePiece ==
  ASSUME NEW kind, NEW n
  PROVE  Whole(Piece(kind, n, TRUE)) /\ ~Whole(Piece(kind, n, FALSE))
  BY DEF Whole, Piece

LEMMA HasWhole ==
  ASSUME NEW b \in Seq(Pieces)
  PROVE  HasLine(b) <=> \E i \in 1..Len(b) : Whole(b[i])
<1>1. DOMAIN b = 1..Len(b)
  OBVIOUS
<1> QED
  BY <1>1 DEF HasLine, Whole

\* LineEnd is where the first line ends.
LEMMA LineEndAt ==
  ASSUME NEW b \in Seq(Pieces), NEW i \in 1..Len(b), Whole(b[i]),
         \A j \in 1..(i - 1) : ~Whole(b[j])
  PROVE  LineEnd(b) = i
<1> DEFINE Q(k) == Whole(b[k]) /\ \A j \in 1..(k - 1) : ~Whole(b[j])
<1>1. DOMAIN b = 1..Len(b)
  OBVIOUS
<1>2. LineEnd(b) = CHOOSE k \in 1..Len(b) : Q(k)
  BY <1>1 DEF LineEnd, Whole
<1>3. \A k \in 1..Len(b) : Q(k) => k = i
  <2> SUFFICES ASSUME NEW k \in 1..Len(b), Q(k)
               PROVE  k = i
    OBVIOUS
  <2>1. ~(k < i)
    <3>1. k < i => k \in 1..(i - 1)
      OBVIOUS
    <3> QED
      BY <3>1
  <2>2. ~(i < k)
    <3>1. i < k => i \in 1..(k - 1)
      OBVIOUS
    <3> QED
      BY <3>1
  <2> QED
    BY <2>1, <2>2
<1>4. Q(i)
  OBVIOUS
<1> HIDE DEF Q
<1> QED
  BY <1>2, <1>3, <1>4

\* The first line of an answer is one write, or an "ok" in two that ends it.
LEMMA FirstLine ==
  ASSUME NEW b \in Seq(Pieces), NEW r \in Seq(Pieces), NEW p \in Seq(Pieces), NEW n,
         Len(p) = Len(b) + Len(r), \A i \in 1..Len(b) : p[i] = b[i],
         Answers(p, n), HasLine(b)
  PROVE  /\ LineEnd(b) \in 1..Len(b) /\ Len(b) > 0 /\ b[1].call = n
         /\ \/ Whole(b[1]) /\ LineEnd(b) = 1
            \/ /\ LineEnd(b) = 2 /\ Len(b) = 2 /\ r = <<>>
               /\ b[1].kind = "ok" /\ Terminal(b[2])
<1>1. Len(b) \in Nat /\ Len(r) \in Nat
  OBVIOUS
<1>2. PICK k \in 1..Len(b) : Whole(b[k])
  BY HasWhole
<1>4. Len(b) > 0 /\ 1 \in 1..Len(b) /\ 1 \in 1..Len(p)
  BY <1>1, <1>2
<1>5. b[1].call = n
  BY <1>1, <1>4 DEF Answers
<1>6. CASE Whole(b[1])
  <2>1. LineEnd(b) = 1
    BY <1>4, <1>6, LineEndAt
  <2> QED
    BY <1>4, <1>5, <1>6, <2>1
<1>7. CASE ~Whole(b[1])
  <2>1. /\ b[1].kind = "ok"
        /\ 1 = Len(p) \/ (1 = Len(p) - 1 /\ Terminal(p[Len(p)]))
    BY <1>1, <1>4, <1>7 DEF Answers
  <2>2. k # 1
    BY <1>2, <1>7
  <2>a. k \in 2..Len(b)
    BY <1>1, <2>2
  <2>b. Len(p) <= 2
    BY <1>1, <2>1
  <2>c. Len(p) = Len(b) + Len(r) /\ Len(b) \in Nat /\ Len(r) \in Nat
    BY <1>1
  <2>3. Len(b) = 2 /\ Len(r) = 0 /\ Len(p) = 2 /\ k = 2
    <3>1. Len(b) >= 2 /\ k >= 2 /\ k <= Len(b) /\ k \in Int
      BY <2>a, <2>c
    <3>2. Len(b) + Len(r) <= 2
      BY <2>b, <2>c
    <3>3. Len(b) = 2 /\ Len(r) = 0
      BY <2>c, <3>1, <3>2, TwoPieces, Zenon
    <3>4. k = 2
      BY <3>1, <3>3
    <3>5. Len(p) >= 2 /\ Len(p) \in Nat
      BY <2>c, <3>1
    <3>6. Len(p) = 2
      BY <2>b, <3>5
    <3> QED
      BY <3>3, <3>4, <3>6, Zenon
  <2>4. r = <<>>
    BY <2>3, NothingLeft
  <2>5. Terminal(b[2])
    BY <1>1, <2>1, <2>3
  <2>6. LineEnd(b) = 2
    <3>1. 2 \in 1..Len(b) /\ Whole(b[2])
      BY <1>2, <2>3
    <3>2. \A j \in 1..(2 - 1) : ~Whole(b[j])
      BY <1>7
    <3> QED
      BY <3>1, <3>2, LineEndAt
  <2> QED
    BY <1>4, <1>5, <2>1, <2>3, <2>4, <2>5, <2>6
<1> QED
  BY <1>6, <1>7

LEMMA DropAnswers ==
  ASSUME NEW p \in Seq(Pieces), NEW n, NEW e \in 1..Len(p), Answers(p, n)
  PROVE  /\ Answers(SubSeq(p, e + 1, Len(p)), n)
         /\ SubSeq(p, e + 1, Len(p)) # <<>> =>
              SubSeq(p, e + 1, Len(p))[Len(SubSeq(p, e + 1, Len(p)))] = p[Len(p)]
<1> DEFINE d == SubSeq(p, e + 1, Len(p))
<1>1. /\ d \in Seq(Pieces) /\ Len(d) = Len(p) - e /\ Len(p) \in Nat /\ e \in Nat
      /\ \A i \in 1..(Len(p) - e) : d[i] = p[i + e]
  OBVIOUS
<1> HIDE DEF d
<1>2. d # <<>> => Len(d) > 0
  BY <1>1, EmptySeq
<1>3. Len(d) > 0 => d[Len(d)] = p[Len(p)]
  <2> SUFFICES ASSUME Len(d) > 0
               PROVE  d[Len(d)] = p[Len(p)]
    OBVIOUS
  <2>1. Len(d) \in 1..(Len(p) - e) /\ Len(d) + e = Len(p)
    BY <1>1
  <2> QED
    BY <1>1, <2>1
<1>4. ASSUME NEW i \in 1..Len(d)
      PROVE  /\ d[i].call = n
             /\ Whole(d[i]) \/ d[i].kind = "ok"
             /\ ~Whole(d[i]) => i = Len(d) \/ (i = Len(d) - 1 /\ Terminal(d[Len(d)]))
             /\ Terminal(d[i]) => i = Len(d)
  <2>1. i + e \in 1..Len(p) /\ d[i] = p[i + e]
    BY <1>1
  <2>2. /\ p[i + e].call = n
        /\ Whole(p[i + e]) \/ p[i + e].kind = "ok"
        /\ ~Whole(p[i + e]) => i + e = Len(p) \/ (i + e = Len(p) - 1 /\ Terminal(p[Len(p)]))
        /\ Terminal(p[i + e]) => i + e = Len(p)
    BY <2>1 DEF Answers
  <2>3. d[Len(d)] = p[Len(p)]
    BY <1>1, <1>3
  <2>4. (i + e = Len(p) <=> i = Len(d)) /\ (i + e = Len(p) - 1 <=> i = Len(d) - 1)
    BY <1>1
  <2> QED
    BY <2>1, <2>2, <2>3, <2>4
<1>5. Answers(d, n)
  BY <1>4 DEF Answers
<1> QED
  BY <1>2, <1>3, <1>5 DEF d

LEMMA AppendAnswers ==
  ASSUME NEW p \in Seq(Pieces), NEW x \in Pieces, NEW n, x.call = n, Answers(p, n),
         Whole(x) \/ x.kind = "ok",
         p # <<>> => ~Terminal(p[Len(p)]),
         p # <<>> /\ ~Whole(p[Len(p)]) => Terminal(x)
  PROVE  /\ Answers(Append(p, x), n)
         /\ Append(p, x)[Len(Append(p, x))] = x
<1> DEFINE d == Append(p, x)
<1>1. /\ d \in Seq(Pieces) /\ Len(d) = Len(p) + 1 /\ Len(p) \in Nat
      /\ (\A i \in 1..Len(p) : d[i] = p[i]) /\ d[Len(d)] = x
  BY AppendProperties
<1> HIDE DEF d
<1>2. ASSUME NEW i \in 1..Len(d)
      PROVE  /\ d[i].call = n
             /\ Whole(d[i]) \/ d[i].kind = "ok"
             /\ ~Whole(d[i]) => i = Len(d) \/ (i = Len(d) - 1 /\ Terminal(d[Len(d)]))
             /\ Terminal(d[i]) => i = Len(d)
  <2>1. CASE i = Len(d)
    BY <1>1, <2>1
  <2>2. CASE i # Len(d)
    <3>1. i \in 1..Len(p) /\ d[i] = p[i] /\ p # <<>>
      BY <1>1, <2>2, EmptySeq
    <3>2. /\ p[i].call = n
          /\ Whole(p[i]) \/ p[i].kind = "ok"
          /\ ~Whole(p[i]) => i = Len(p) \/ (i = Len(p) - 1 /\ Terminal(p[Len(p)]))
          /\ Terminal(p[i]) => i = Len(p)
      BY <3>1 DEF Answers
    <3>3. ~Terminal(p[Len(p)])
      BY <3>1
    <3>4. ~Terminal(p[i])
      BY <3>2, <3>3
    <3>5. ~Whole(p[i]) => i = Len(p) /\ Terminal(x)
      BY <3>1, <3>2, <3>3
    <3>6. i = Len(p) => i = Len(d) - 1
      BY <1>1
    <3> QED
      BY <1>1, <3>1, <3>2, <3>4, <3>5, <3>6
  <2> QED
    BY <2>1, <2>2
<1>3. Answers(d, n)
  BY <1>2 DEF Answers
<1> QED
  BY <1>1, <1>3 DEF d

-----------------------------------------------------------------------------
(* The caller takes a line. *)

LEMMA PendingTyped ==
  ASSUME ProxyInv
  PROVE  /\ buffer \in Seq(Pieces) /\ stdout \in Seq(Pieces) /\ Pending \in Seq(Pieces)
         /\ Waiting => Answers(Pending, call) /\ Working(Pending)
<1>1. buffer \in Seq(Pieces) /\ stdout \in Seq(Pieces)
  BY DEF ProxyInv, Types
<1>2. Pending \in Seq(Pieces)
  BY <1>1, ConcatProperties DEF Pending
<1> QED
  BY <1>1, <1>2 DEF ProxyInv, Own

\* When the answer is at the front, nothing is behind it.
LEMMA NothingBehind ==
  ASSUME ProxyInv, Waiting, NEW got \in Seq(Pieces), NEW rest \in Seq(Pieces),
         got \o rest = Pending, NEW i \in 1..Len(got), Terminal(got[i])
  PROVE  i = Len(got) /\ rest = <<>> /\ job = None /\ stdin = <<>>
<1> DEFINE p == Pending
<1>1. /\ p \in Seq(Pieces) /\ Len(p) = Len(got) + Len(rest)
      /\ Len(got) \in Nat /\ Len(rest) \in Nat
      /\ \A j \in 1..Len(got) : p[j] = got[j]
  BY PendingTyped, ConcatProperties
<1>2. Answers(p, call) /\ Working(p)
  BY PendingTyped
<1> HIDE DEF p
<1>3. i \in 1..Len(p) /\ p[i] = got[i]
  BY <1>1
<1>4. i = Len(p)
  BY <1>2, <1>3 DEF Answers
<1>5. i = Len(got) /\ Len(rest) = 0
  BY <1>1, <1>4
<1>6. rest = <<>>
  BY <1>5, NothingLeft
<1>7. p # <<>> /\ Terminal(p[Len(p)])
  BY <1>1, <1>3, <1>4, EmptySeq
<1> QED
  BY <1>2, <1>5, <1>6, <1>7 DEF Working

LEMMA Delivered ==
  ASSUME ProxyInv, Waiting, NEW got \in Seq(Pieces), NEW rest \in Seq(Pieces),
         got \o rest = Pending, HasLine(got),
         Deliver(SubSeq(got, 1, LineEnd(got))),
         buffer' = SubSeq(got, LineEnd(got) + 1, Len(got)), stdout' = rest,
         UNCHANGED <<stdin, worker>>
  PROVE  /\ buffer' \in Seq(Pieces)
         /\ \/ Goto("poll") /\ Answers(Pending', call) /\ Working(Pending)'
            \/ /\ \E kind \in {"OK", "NotOK"} : Return(kind, call)
               /\ stdin' = <<>> /\ stdout' = <<>> /\ buffer' = <<>> /\ job' = None
<1> DEFINE p == Pending
           e == LineEnd(got)
           line == SubSeq(got, 1, e)
<1>1. /\ p \in Seq(Pieces) /\ Len(p) = Len(got) + Len(rest)
      /\ \A j \in 1..Len(got) : p[j] = got[j]
  BY PendingTyped, ConcatProperties
<1>2. Answers(p, call) /\ Working(p)
  BY PendingTyped
<1>3. /\ e \in 1..Len(got) /\ Len(got) > 0 /\ got[1].call = call
      /\ \/ Whole(got[1]) /\ e = 1
         \/ /\ e = 2 /\ Len(got) = 2 /\ rest = <<>>
            /\ got[1].kind = "ok" /\ Terminal(got[2])
  BY <1>1, <1>2, FirstLine
<1>4. /\ buffer' \in Seq(Pieces)
      /\ Pending' = SubSeq(p, e + 1, Len(p))
  <2>1. /\ SubSeq(got, e + 1, Len(got)) \in Seq(Pieces)
        /\ SubSeq(got, e + 1, Len(got)) \o rest = SubSeq(got \o rest, e + 1, Len(got \o rest))
    BY <1>3, DropPending
  <2> QED
    BY <2>1 DEF Pending
<1>5. Deliver(line) /\ UNCHANGED <<stdin, job, half>>
  BY DEF worker
<1>6. /\ Len(line) = e /\ line[1] = got[1] /\ line[e] = got[e]
      /\ got[1] \in Pieces /\ 1 \in 1..Len(got)
  BY <1>3
<1>a. buffer' = SubSeq(got, e + 1, Len(got)) /\ e \in Int /\ Len(got) \in Int
  BY <1>3
<1> HIDE DEF p, e, line
<1>7. CASE Whole(got[1]) /\ e = 1 /\ got[1].kind = "heat"
  <2>1. Goto("poll")
    BY <1>5, <1>6, <1>7 DEF Deliver
  <2>2. e \in 1..Len(p)
    BY <1>1, <1>3
  <2>3. /\ Answers(Pending', call)
        /\ Pending' # <<>> => Pending'[Len(Pending')] = p[Len(p)]
    BY <1>1, <1>2, <1>4, <2>2, DropAnswers
  <2>4. p # <<>>
    BY <1>1, <2>2, EmptySeq
  <2>5. Working(Pending)'
    BY <1>2, <1>5, <2>3, <2>4 DEF Working
  <2> QED
    BY <1>4, <2>1, <2>3, <2>5
<1>8. CASE Whole(got[1]) /\ e = 1 /\ got[1].kind # "heat"
  <2>1. got[1].kind \in {"ok", "error"}
    BY <1>6, <1>8 DEF Pieces
  <2>2. Terminal(got[1])
    BY <1>8, <2>1 DEF Terminal
  <2>3. 1 = Len(got) /\ rest = <<>> /\ job = None /\ stdin = <<>>
    BY <1>6, <2>2, NothingBehind
  <2>4. buffer' = <<>>
    <3>1. e + 1 \in Int /\ Len(got) < e + 1
      BY <1>a, <1>8, <2>3
    <3>2. SubSeq(got, e + 1, Len(got)) = <<>>
      BY <1>a, <3>1, SubSeqEmpty
    <3> QED
      BY <1>a, <3>2
  <2>5. \E kind \in {"OK", "NotOK"} : Return(kind, call)
    <3>1. CASE got[1].kind = "error"
      <4>1. Return("NotOK", call)
        BY <1>3, <1>5, <1>6, <3>1 DEF Deliver
      <4> QED
        BY <4>1
    <3>2. CASE got[1].kind = "ok"
      <4>1. line[Len(line)].end
        BY <1>6, <1>8 DEF Whole
      <4>2. Return("OK", call)
        BY <1>3, <1>5, <1>6, <3>2, <4>1 DEF Deliver
      <4> QED
        BY <4>2
    <3> QED
      BY <2>1, <3>1, <3>2
  <2> QED
    BY <1>4, <1>5, <2>3, <2>4, <2>5
<1>9. CASE /\ e = 2 /\ Len(got) = 2 /\ rest = <<>>
           /\ got[1].kind = "ok" /\ Terminal(got[2])
  <2>1. job = None /\ stdin = <<>>
    <3>1. 2 \in 1..Len(got)
      BY <1>9
    <3> QED
      BY <1>9, <3>1, NothingBehind
  <2>2. buffer' = <<>>
    <3>1. e + 1 \in Int /\ Len(got) < e + 1
      BY <1>a, <1>9
    <3>2. SubSeq(got, e + 1, Len(got)) = <<>>
      BY <1>a, <3>1, SubSeqEmpty
    <3> QED
      BY <1>a, <3>2
  <2>3. line[Len(line)].end
    BY <1>6, <1>9 DEF Terminal, Whole
  <2>4. Return("OK", call)
    BY <1>3, <1>5, <1>6, <1>9, <2>3 DEF Deliver
  <2> QED
    BY <1>4, <1>5, <1>9, <2>1, <2>2, <2>4
<1> QED
  BY <1>3, <1>7, <1>8, <1>9

-----------------------------------------------------------------------------
(* The results of the calls. *)

\* A call that ends with `kind'.
LEMMA ReturnKeeps ==
  ASSUME ProxyInv, pc # "idle",
         NEW kind \in {"OK", "NotOK", "ValueError", "OSError", "BrokenPipe", "exit"},
         Return(kind, call),
         kind = "OSError" => process' = "none",
         kind = "BrokenPipe" => Between /\ process \in Dead /\ process' = process,
         kind # "BrokenPipe" => ~Between
  PROVE  /\ result' \in Seq(Results) /\ Counted' /\ NoLine' /\ Deaths'
         /\ AnswerBelongs' /\ DeathsSeenOrFatal'
<1> DEFINE x == [kind |-> kind, call |-> call]
           m == Len(result)
<1>1. /\ pc' = "idle" /\ call' = call /\ result' = Append(result, x)
      /\ result \in Seq(Results) /\ call \in Nat
  BY DEF Return, ProxyInv, Types
<1>2. x \in Results /\ x.kind = kind /\ x.call = call
  BY <1>1 DEF Results
<1> HIDE DEF x
<1>3. /\ result' \in Seq(Results) /\ result' # <<>>
      /\ Len(result') = m + 1 /\ m \in Nat
      /\ \A n \in 1..m : result'[n] = result[n]
      /\ result'[m + 1] = x
  BY <1>1, <1>2, AppendProperties
<1>4. m + 1 = call
  BY DEF ProxyInv, Counted
<1>5. DOMAIN result = 1..m /\ DOMAIN result' = 1..(m + 1)
  BY <1>1, <1>3
<1>b. m > 0 => result # <<>>
  BY <1>1, EmptySeq
<1> HIDE DEF m
<1>6. Counted'
  BY <1>1, <1>3, <1>4 DEF Counted
<1>7. NoLine'
  BY <1>1 DEF NoLine
<1>8. Deaths'
  <2>1. \A k : LastIs(k)' => k = kind
    BY <1>2, <1>3 DEF LastIs
  <2> QED
    BY <1>1, <1>3, <2>1 DEF Deaths, Between, Dead
<1>9. AnswerBelongs'
  <2>1. ASSUME NEW n \in 1..(m + 1), result'[n].kind \in {"OK", "NotOK", "ValueError"}
        PROVE  result'[n].call = n
    <3>1. CASE n = m + 1
      BY <1>2, <1>3, <1>4, <3>1
    <3>2. CASE n # m + 1
      <4>1. n \in 1..m
        BY <1>3, <3>2
      <4> QED
        BY <1>3, <1>5, <2>1, <4>1 DEF ProxyInv, AnswerBelongs
    <3> QED
      BY <3>1, <3>2
  <2> QED
    BY <1>5, <2>1 DEF AnswerBelongs
<1>10. DeathsSeenOrFatal'
  <2> SUFFICES ASSUME NEW n \in 1..(m + 1), result'[n].kind = "BrokenPipe"
               PROVE  /\ n > 1 /\ result'[n - 1].kind # "OSError"
                      /\ \A k \in (n + 1)..(m + 1) : result'[k].kind = "BrokenPipe"
    BY <1>3, <1>5 DEF DeathsSeenOrFatal
  <2>1. CASE n = m + 1
    <3>1. kind = "BrokenPipe"
      BY <1>2, <1>3, <2>1
    <3>2. Between /\ process \in Dead
      BY <3>1
    <3>3. result # <<>> /\ ~LastIs("OSError")
      BY <3>2 DEF ProxyInv, Deaths, Dead
    <3>4. m # 0
      BY <1>1, <3>3, NothingLeft DEF m
    <3>5. m \in 1..m /\ n - 1 = m
      BY <1>3, <2>1, <3>4
    <3>6. result'[n - 1].kind # "OSError"
      BY <1>3, <3>3, <3>5 DEF LastIs, m
    <3>7. (n + 1)..(m + 1) = {}
      BY <1>3, <2>1
    <3> QED
      BY <1>3, <2>1, <3>4, <3>6, <3>7
  <2>2. CASE n # m + 1
    <3>1. n \in 1..m /\ result[n].kind = "BrokenPipe"
      BY <1>3, <2>2
    <3>2. /\ n > 1 /\ result[n - 1].kind # "OSError"
          /\ \A k \in (n + 1)..m : result[k].kind = "BrokenPipe"
      BY <1>5, <3>1 DEF ProxyInv, DeathsSeenOrFatal, m
    <3>3. n - 1 \in 1..m
      BY <1>3, <3>1, <3>2
    <3>4. LastIs("BrokenPipe")
      <4>1. result[m].kind = "BrokenPipe"
        <5>1. CASE n = m
          BY <3>1, <5>1
        <5>2. CASE n # m
          <6>1. m \in (n + 1)..m
            BY <1>3, <3>1, <5>2
          <6> QED
            BY <3>2, <6>1
        <5> QED
          BY <5>1, <5>2
      <4>2. result # <<>>
        BY <1>3, <1>b, <3>1
      <4> QED
        BY <4>1, <4>2 DEF LastIs, m
    <3>5. kind = "BrokenPipe"
      BY <3>4 DEF ProxyInv, Deaths
    <3>6. ASSUME NEW k \in (n + 1)..(m + 1)
          PROVE  result'[k].kind = "BrokenPipe"
      <4>1. CASE k = m + 1
        BY <1>2, <1>3, <3>5, <4>1
      <4>2. CASE k # m + 1
        <5>1. k \in (n + 1)..m /\ k \in 1..m
          BY <1>3, <3>1, <4>2
        <5> QED
          BY <1>3, <3>2, <5>1
      <4> QED
        BY <4>1, <4>2
    <3> QED
      BY <1>3, <3>2, <3>3, <3>6
  <2> QED
    BY <2>1, <2>2
<1> QED
  BY <1>3, <1>6, <1>7, <1>8, <1>9, <1>10

\* A step within a call, or between two.
LEMMA StayKeeps ==
  ASSUME ProxyInv, UNCHANGED <<call, result>>, pc = "idle" <=> pc' = "idle"
  PROVE  result' \in Seq(Results) /\ Counted' /\ AnswerBelongs' /\ DeathsSeenOrFatal'
<1>1. result' = result /\ call' = call /\ result \in Seq(Results)
  BY DEF ProxyInv, Types
<1>2. Counted'
  BY <1>1 DEF ProxyInv, Counted
<1>3. AnswerBelongs'
  BY <1>1 DEF ProxyInv, AnswerBelongs
<1>4. DeathsSeenOrFatal'
  BY <1>1 DEF ProxyInv, DeathsSeenOrFatal
<1> QED
  BY <1>1, <1>2, <1>3, <1>4

-----------------------------------------------------------------------------
(* The steps of the caller. *)

\* When a call fails to be waited for any longer nothing of it matters.
LEMMA LeaveKeeps ==
  ASSUME ProxyInv, pc \in {"poll", "read"}, Goto("reset"), Types'
  PROVE  ProxyInv'
<1>1. pc' = "reset" /\ UNCHANGED <<call, result>>
  BY DEF Goto
<1>2. Counted' /\ AnswerBelongs' /\ DeathsSeenOrFatal'
  BY <1>1, StayKeeps
<1>3. Own' /\ Clean' /\ NoLine'
  BY <1>1 DEF Own, Clean, NoLine, Waiting, Between
<1>4. Deaths'
  BY <1>1 DEF Deaths, ProxyInv, Between, LastIs
<1> QED
  BY <1>2, <1>3, <1>4 DEF ProxyInv

LEMMA DeliverKeeps ==
  ASSUME ProxyInv, Waiting, NEW got \in Seq(Pieces), NEW rest \in Seq(Pieces),
         got \o rest = Pending, HasLine(got),
         Deliver(SubSeq(got, 1, LineEnd(got))),
         buffer' = SubSeq(got, LineEnd(got) + 1, Len(got)), stdout' = rest,
         UNCHANGED <<process, stdin, worker>>
  PROVE  ProxyInv'
<1>1. /\ buffer' \in Seq(Pieces)
      /\ \/ Goto("poll") /\ Answers(Pending', call) /\ Working(Pending)'
         \/ /\ \E kind \in {"OK", "NotOK"} : Return(kind, call)
            /\ stdin' = <<>> /\ stdout' = <<>> /\ buffer' = <<>> /\ job' = None
  BY Delivered
<1>2. UNCHANGED <<process, stdin, job>> /\ pc \in {"poll", "read"} /\ Types
  BY DEF worker, Waiting, ProxyInv
<1>3. CASE Goto("poll") /\ Answers(Pending', call) /\ Working(Pending)'
  <2>1. pc' = "poll" /\ UNCHANGED <<command, call, result>>
    BY <1>3 DEF Goto
  <2>2. Types'
    BY <1>1, <1>2, <2>1 DEF Types
  <2>3. Counted' /\ AnswerBelongs' /\ DeathsSeenOrFatal'
    BY <1>2, <2>1, StayKeeps
  <2>4. Own'
    BY <1>2, <1>3, <2>1 DEF ProxyInv, Own, Waiting
  <2>5. Clean' /\ NoLine'
    BY <2>1 DEF Clean, NoLine, Between
  <2>6. Deaths'
    BY <1>2, <2>1 DEF Deaths, ProxyInv, Between, LastIs
  <2> QED
    BY <2>2, <2>3, <2>4, <2>5, <2>6 DEF ProxyInv
<1>4. ASSUME NEW kind \in {"OK", "NotOK"}, Return(kind, call),
             stdin' = <<>>, stdout' = <<>>, buffer' = <<>>, job' = None
      PROVE  ProxyInv'
  <2>1. pc' = "idle" /\ UNCHANGED <<command, call>>
    BY <1>4 DEF Return
  <2>2. /\ result' \in Seq(Results) /\ Counted' /\ NoLine' /\ Deaths'
        /\ AnswerBelongs' /\ DeathsSeenOrFatal'
    BY <1>2, <1>4, ReturnKeeps DEF Between
  <2>3. Types'
    BY <1>1, <1>2, <1>4, <2>1, <2>2 DEF Types
  <2>4. Own' /\ Clean'
    BY <1>4, <2>1 DEF Own, Waiting, Clean
  <2> QED
    BY <2>2, <2>3, <2>4 DEF ProxyInv
<1> QED
  BY <1>1, <1>3, <1>4

LEMMA CallStep ==
  ASSUME ProxyInv, NEW c \in Commands \cup {"exit"}, Call(c)
  PROVE  ProxyInv'
<1>1. /\ pc = "idle" /\ pc' = "write" /\ command' = c /\ call' = call + 1
      /\ UNCHANGED <<result, process, stdin, stdout, buffer, job>>
  BY DEF Call, worker
<1>2. Types'
  BY <1>1 DEF ProxyInv, Types, Commands
<1>3. Counted'
  BY <1>1 DEF ProxyInv, Types, Counted
<1>4. Own' /\ NoLine'
  BY <1>1 DEF Own, NoLine, Waiting
<1>5. Clean' /\ Deaths'
  BY <1>1 DEF ProxyInv, Clean, Deaths, Between, LastIs
<1>6. AnswerBelongs' /\ DeathsSeenOrFatal'
  BY <1>1 DEF ProxyInv, AnswerBelongs, DeathsSeenOrFatal
<1> QED
  BY <1>2, <1>3, <1>4, <1>5, <1>6 DEF ProxyInv

LEMMA WriteStep ==
  ASSUME ProxyInv, Write
  PROVE  ProxyInv'
<1> DEFINE request == [command |-> command, call |-> call]
<1>1. pc = "write" /\ Types
  BY DEF Write, ProxyInv
<1>2. CASE process \in Dead
  <2>1. /\ UNCHANGED <<process, stdin, stdout, buffer, job>> /\ Return("BrokenPipe", call)
    BY <1>2 DEF Write, Dead, worker
  <2>2. /\ result' \in Seq(Results) /\ Counted' /\ NoLine' /\ Deaths'
        /\ AnswerBelongs' /\ DeathsSeenOrFatal'
    BY <1>1, <1>2, <2>1, ReturnKeeps DEF Between
  <2>3. pc' = "idle" /\ UNCHANGED <<command, call>>
    BY <2>1 DEF Return
  <2>4. Types'
    BY <1>1, <2>1, <2>2, <2>3 DEF Types
  <2>5. Own' /\ Clean'
    BY <1>2, <2>1, <2>3 DEF Own, Waiting, Clean, Dead
  <2> QED
    BY <2>2, <2>4, <2>5 DEF ProxyInv
<1>3. CASE process \notin Dead
  <2>1. /\ pc' \in {"join", "poll"} /\ UNCHANGED <<command, call, result>>
    BY <1>3 DEF Write, Goto
  <2>2. request \in Requests
    BY <1>1 DEF Types, Requests
  <2>3. /\ stdin' = <<request>> /\ stdout' = <<>> /\ buffer' = <<>> /\ job' = None
        /\ process' = "running"
    <3>1. CASE process = "none"
      BY <3>1 DEF Write, NewProcess, Dead
    <3>2. CASE process = "running"
      <4>1. stdin = <<>> /\ stdout = <<>> /\ buffer = <<>> /\ job = None
        BY <1>1, <3>2 DEF ProxyInv, Clean, Between
      <4>2. stdin' = Append(stdin, request) /\ UNCHANGED <<process, stdout, buffer, job>>
        BY <3>2 DEF Write, worker, Dead
      <4> QED
        BY <3>2, <4>1, <4>2
    <3> QED
      BY <1>1, <1>3, <3>1, <3>2 DEF Types
  <2>a. request.call = call
    OBVIOUS
  <2> HIDE DEF request
  <2>4. Types'
    BY <1>1, <2>1, <2>2, <2>3 DEF Types
  <2>5. Counted' /\ AnswerBelongs' /\ DeathsSeenOrFatal'
    BY <1>1, <2>1, StayKeeps
  <2>6. Own'
    <3>1. Pending' = <<>>
      BY <2>3 DEF Pending
    <3>2. Answers(Pending, call)' /\ Working(Pending)'
      BY <3>1 DEF Answers, Working
    <3>3. Len(stdin') = 1 /\ stdin'[1] = request
      BY <2>3
    <3>4. \A i \in 1..Len(stdin') : stdin'[i].call = call'
      BY <2>1, <2>a, <3>3
    <3> QED
      BY <2>3, <3>2, <3>3, <3>4 DEF Own
  <2>7. Clean' /\ NoLine'
    BY <2>1 DEF Clean, NoLine, Between
  <2>8. Deaths'
    BY <1>1, <1>3, <2>1 DEF ProxyInv, Deaths, Between, LastIs
  <2> QED
    BY <2>4, <2>5, <2>6, <2>7, <2>8 DEF ProxyInv
<1> QED
  BY <1>2, <1>3

LEMMA PollStep ==
  ASSUME ProxyInv, Poll
  PROVE  ProxyInv'
<1>1. /\ pc = "poll" /\ Types /\ Waiting
      /\ UNCHANGED <<process, stdin, stdout, worker, job>>
  BY DEF Poll, ProxyInv, Waiting, worker
<1>2. CASE process = "crashed"
  <2>1. Goto("reset") /\ UNCHANGED buffer
    BY <1>2 DEF Poll
  <2>2. Types'
    BY <1>1, <2>1 DEF Types, Goto
  <2> QED
    BY <1>1, <2>1, <2>2, LeaveKeeps
<1>3. CASE process # "crashed" /\ HasLine(buffer)
  <2>1. /\ Deliver(SubSeq(buffer, 1, LineEnd(buffer)))
        /\ buffer' = SubSeq(buffer, LineEnd(buffer) + 1, Len(buffer))
    BY <1>3 DEF Poll
  <2>2. buffer \o stdout = Pending
    BY DEF Pending
  <2> QED
    BY <1>1, <1>3, <2>1, <2>2, PendingTyped, DeliverKeeps
<1>4. CASE process # "crashed" /\ ~HasLine(buffer)
  <2>1. pc' = "read" /\ UNCHANGED <<command, call, result, buffer>>
    BY <1>4 DEF Poll, Goto
  <2>2. Types'
    BY <1>1, <2>1 DEF Types
  <2>3. Counted' /\ AnswerBelongs' /\ DeathsSeenOrFatal'
    BY <1>1, <2>1, StayKeeps
  <2>4. Own'
    BY <1>1, <2>1 DEF ProxyInv, Own, Waiting, Pending, Answers, Working, worker
  <2>5. Clean' /\ NoLine'
    BY <1>4, <2>1 DEF Clean, NoLine, Between, HasLine
  <2>6. Deaths'
    BY <1>1, <2>1 DEF ProxyInv, Deaths, Between, LastIs
  <2> QED
    BY <2>2, <2>3, <2>4, <2>5, <2>6 DEF ProxyInv
<1> QED
  BY <1>2, <1>3, <1>4

LEMMA ReadStep ==
  ASSUME ProxyInv, Read
  PROVE  ProxyInv'
<1>1. /\ pc = "read" /\ Types /\ Waiting
      /\ UNCHANGED <<process, stdin, worker, job>>
  BY DEF Read, ProxyInv, Waiting, worker
<1>2. buffer \in Seq(Pieces) /\ stdout \in Seq(Pieces) /\ DOMAIN stdout = 1..Len(stdout)
  BY <1>1 DEF Types
<1>3. PICK k \in 1..Len(stdout) :
        LET got == buffer \o SubSeq(stdout, 1, k)
        IN  /\ stdout' = SubSeq(stdout, k + 1, Len(stdout))
            /\ IF ~HasLine(got) THEN Goto("read") /\ buffer' = got
               ELSE /\ buffer' = SubSeq(got, LineEnd(got) + 1, Len(got))
                    /\ IF process = "crashed" THEN Goto("reset")
                       ELSE Deliver(SubSeq(got, 1, LineEnd(got)))
  BY <1>2 DEF Read
<1> DEFINE got == buffer \o SubSeq(stdout, 1, k)
           rest == SubSeq(stdout, k + 1, Len(stdout))
<1>4. got \in Seq(Pieces) /\ rest \in Seq(Pieces) /\ got \o rest = Pending
  <2>1. Pending = buffer \o stdout
    BY DEF Pending
  <2>2. got \in Seq(Pieces) /\ rest \in Seq(Pieces) /\ got \o rest = buffer \o stdout
    BY <1>2, MovePending
  <2> QED
    BY <2>1, <2>2, Zenon
<1>5. /\ stdout' = rest
      /\ ~HasLine(got) => Goto("read") /\ buffer' = got
      /\ HasLine(got) =>
           /\ buffer' = SubSeq(got, LineEnd(got) + 1, Len(got))
           /\ process = "crashed" => Goto("reset")
           /\ process # "crashed" => Deliver(SubSeq(got, 1, LineEnd(got)))
  BY <1>3
<1> HIDE DEF got, rest
<1>6. CASE ~HasLine(got)
  <2>1. pc' = "read" /\ UNCHANGED <<command, call, result>> /\ buffer' = got /\ stdout' = rest
    BY <1>5, <1>6 DEF Goto
  <2>2. Types'
    BY <1>1, <1>4, <2>1 DEF Types
  <2>3. Counted' /\ AnswerBelongs' /\ DeathsSeenOrFatal'
    BY <1>1, <2>1, StayKeeps
  <2>4. Pending' = Pending
    BY <1>4, <2>1 DEF Pending
  <2>5. Answers(Pending, call)' /\ Working(Pending)'
    BY <1>1, <2>1, <2>4 DEF ProxyInv, Own, Answers, Working, worker
  <2>6. Own'
    BY <1>1, <2>1, <2>5 DEF ProxyInv, Own
  <2>7. Clean' /\ NoLine'
    BY <1>6, <2>1 DEF Clean, NoLine, Between, HasLine
  <2>8. Deaths'
    BY <1>1, <2>1 DEF ProxyInv, Deaths, Between, LastIs
  <2> QED
    BY <2>2, <2>3, <2>6, <2>7, <2>8 DEF ProxyInv
<1>7. CASE HasLine(got) /\ process = "crashed"
  <2>1. LineEnd(got) \in 1..Len(got)
    <3>1. /\ Len(Pending) = Len(got) + Len(rest)
          /\ \A j \in 1..Len(got) : Pending[j] = got[j]
      BY <1>4, ConcatProperties
    <3> QED
      BY <1>1, <1>4, <1>7, <3>1, PendingTyped, FirstLine
  <2>2. SubSeq(got, LineEnd(got) + 1, Len(got)) \in Seq(Pieces)
    BY <1>4, <2>1, DropPending
  <2>3. Types'
    BY <1>1, <1>4, <1>5, <1>7, <2>2 DEF Types, Goto
  <2> QED
    BY <1>1, <1>5, <1>7, <2>3, LeaveKeeps
<1>8. CASE HasLine(got) /\ process # "crashed"
  BY <1>1, <1>4, <1>5, <1>8, DeliverKeeps
<1> QED
  BY <1>6, <1>7, <1>8

LEMMA EofStep ==
  ASSUME ProxyInv, Eof
  PROVE  ProxyInv'
<1>1. /\ pc = "read" /\ stdout = <<>> /\ process \in Dead /\ buffer' = <<>>
      /\ UNCHANGED <<process, stdin, stdout, job>> /\ Types /\ Waiting
  BY DEF Eof, worker, ProxyInv, Waiting
<1>2. CASE buffer = <<>>
  <2>1. Goto("reset")
    BY <1>2 DEF Eof
  <2>2. Types'
    BY <1>1, <2>1 DEF Types, Goto
  <2> QED
    BY <1>1, <2>1, <2>2, LeaveKeeps
<1>3. CASE buffer # <<>>
  <2>1. Deliver(buffer)
    BY <1>3 DEF Eof
  <2>2. buffer \in Seq(Pieces) /\ Pending = buffer
    BY <1>1, ConcatEmptySeq DEF Types, Pending
  <2>3. 1 \in 1..Len(buffer)
    BY <1>3, <2>2, EmptySeq
  <2>4. ~Whole(buffer[1])
    BY <1>1, <2>2, <2>3, HasWhole DEF ProxyInv, NoLine
  <2>5. buffer[1].kind = "ok" /\ buffer[1].call = call
    BY <1>1, <2>2, <2>3, <2>4, PendingTyped DEF Answers
  <2>6. PICK kind \in {"OK", "ValueError"} : Return(kind, call)
    <3>1. CASE buffer[Len(buffer)].end
      BY <2>1, <2>5, <3>1 DEF Deliver
    <3>2. CASE ~buffer[Len(buffer)].end
      BY <2>1, <2>5, <3>2 DEF Deliver
    <3> QED
      BY <3>1, <3>2
  <2>7. /\ result' \in Seq(Results) /\ Counted' /\ NoLine' /\ Deaths'
        /\ AnswerBelongs' /\ DeathsSeenOrFatal'
    BY <1>1, <2>6, ReturnKeeps DEF Between
  <2>8. pc' = "idle" /\ UNCHANGED <<command, call>>
    BY <2>6 DEF Return
  <2>9. Types'
    BY <1>1, <2>7, <2>8 DEF Types
  <2>10. Own' /\ Clean'
    BY <1>1, <2>8 DEF Own, Waiting, Clean, Dead
  <2> QED
    BY <2>7, <2>9, <2>10 DEF ProxyInv
<1> QED
  BY <1>2, <1>3

LEMMA TimeoutStep ==
  ASSUME ProxyInv, Timeout
  PROVE  ProxyInv'
<1>1. pc = "read" /\ Goto("reset") /\ Types
  BY DEF Timeout, ProxyInv
<1>2. process' \in Dead /\ UNCHANGED <<stdin, stdout, buffer, job>>
  BY DEF Timeout, worker, Dead
<1>3. Types'
  BY <1>1, <1>2 DEF Types, Goto
<1> QED
  BY <1>1, <1>3, LeaveKeeps

LEMMA ResetStep ==
  ASSUME ProxyInv, Reset
  PROVE  ProxyInv'
<1>1. /\ pc = "reset" /\ Return("OSError", call) /\ process' = "none" /\ Types
      /\ stdin' = <<>> /\ stdout' = <<>> /\ buffer' = <<>> /\ UNCHANGED job
  BY DEF Reset, Forget, worker, ProxyInv
<1>2. /\ result' \in Seq(Results) /\ Counted' /\ NoLine' /\ Deaths'
      /\ AnswerBelongs' /\ DeathsSeenOrFatal'
  BY <1>1, ReturnKeeps DEF Between
<1>3. pc' = "idle" /\ UNCHANGED <<command, call>>
  BY <1>1 DEF Return
<1>4. Types'
  BY <1>1, <1>2, <1>3 DEF Types
<1>5. Own' /\ Clean'
  BY <1>1, <1>3 DEF Own, Waiting, Clean
<1> QED
  BY <1>2, <1>4, <1>5 DEF ProxyInv

LEMMA JoinStep ==
  ASSUME ProxyInv, Join
  PROVE  ProxyInv'
<1>1. pc = "join" /\ Return("exit", call) /\ Types /\ UNCHANGED job
  BY DEF Join, worker, ProxyInv
<1>2. \/ process' \in Dead /\ UNCHANGED <<stdin, stdout, buffer>>
      \/ process' = "none" /\ stdin' = <<>> /\ stdout' = <<>> /\ buffer' = <<>>
  BY DEF Join, Forget, Dead
<1>3. /\ result' \in Seq(Results) /\ Counted' /\ NoLine' /\ Deaths'
      /\ AnswerBelongs' /\ DeathsSeenOrFatal'
  BY <1>1, ReturnKeeps DEF Between
<1>4. pc' = "idle" /\ UNCHANGED <<command, call>>
  BY <1>1 DEF Return
<1>5. Types'
  <2>1. CASE process' \in Dead /\ UNCHANGED <<stdin, stdout, buffer>>
    BY <1>1, <1>3, <1>4, <2>1 DEF Types
  <2>2. CASE process' = "none" /\ stdin' = <<>> /\ stdout' = <<>> /\ buffer' = <<>>
    BY <1>1, <1>3, <1>4, <2>2 DEF Types
  <2> QED
    BY <1>2, <2>1, <2>2
<1>6. Own' /\ Clean'
  BY <1>2, <1>4 DEF Own, Waiting, Clean, Dead
<1> QED
  BY <1>3, <1>5, <1>6 DEF ProxyInv

-----------------------------------------------------------------------------
(* The steps of the process, and the theorems. *)

\* The process ends or goes on; whether it does, a call does not see here.
LEMMA WorkerKeeps ==
  ASSUME ProxyInv, UNCHANGED <<caller, buffer>>,
         process' = process \/ (process \in {"running"} \cup Dead /\ process' \in Dead)
  PROVE  /\ Counted' /\ NoLine' /\ Deaths' /\ AnswerBelongs' /\ DeathsSeenOrFatal'
<1>1. UNCHANGED <<pc, command, call, result, buffer>>
  BY DEF caller
<1>2. Counted' /\ AnswerBelongs' /\ DeathsSeenOrFatal'
  BY <1>1, StayKeeps
<1>3. NoLine'
  BY <1>1 DEF ProxyInv, NoLine, HasLine
<1>4. Deaths'
  BY <1>1 DEF ProxyInv, Deaths, Between, LastIs, Dead
<1> QED
  BY <1>2, <1>3, <1>4

\* The command in work prints x.
LEMMA SayKeeps ==
  ASSUME ProxyInv, Waiting, job # None, NEW x \in Pieces, x.call = job.call, Say(x),
         buffer' = buffer, Whole(x) \/ x.kind = "ok", half => Terminal(x)
  PROVE  /\ Answers(Pending', call) /\ Pending' # <<>>
         /\ Pending'[Len(Pending')] = x
<1>1. /\ buffer \in Seq(Pieces) /\ stdout \in Seq(Pieces) /\ Pending \in Seq(Pieces)
      /\ Answers(Pending, call) /\ Working(Pending)
  BY PendingTyped
<1>2. x.call = call
  BY DEF ProxyInv, Own
<1>3. Pending' = Append(Pending, x)
  BY <1>1, AppendPending DEF Pending, Say
<1>4. /\ Pending # <<>> => ~Terminal(Pending[Len(Pending)])
      /\ Pending # <<>> /\ ~Whole(Pending[Len(Pending)]) => Terminal(x)
  BY <1>1 DEF Working
<1>5. /\ Answers(Append(Pending, x), call)
      /\ Append(Pending, x)[Len(Append(Pending, x))] = x
  BY <1>1, <1>2, <1>4, AppendAnswers
<1>6. Append(Pending, x) # <<>>
  BY <1>1, AppendProperties
<1> QED
  BY <1>3, <1>5, <1>6

LEMMA TakeStep ==
  ASSUME ProxyInv, Take
  PROVE  ProxyInv'
<1>1. /\ process = "running" /\ job = None /\ stdin # <<>> /\ stdin' = Tail(stdin) /\ Types
      /\ UNCHANGED <<caller, stdout, buffer, half>>
  BY DEF Take, At, ProxyInv
<1>2. \/ process' = "closing" /\ UNCHANGED job
      \/ job' = Head(stdin) /\ UNCHANGED process
  BY DEF Take
<1>3. /\ stdin \in Seq(Requests) /\ Head(stdin) \in Requests /\ Tail(stdin) \in Seq(Requests)
      /\ Head(stdin) = stdin[1] /\ 1 \in 1..Len(stdin) /\ Len(Tail(stdin)) = Len(stdin) - 1
  BY <1>1, EmptySeq, HeadTailProperties DEF Types
<1>4. UNCHANGED <<pc, command, call, result>>
  BY <1>1 DEF caller
<1>5. Types'
  BY <1>1, <1>2, <1>3, <1>4 DEF Types, Dead
<1>6. Counted' /\ NoLine' /\ Deaths' /\ AnswerBelongs' /\ DeathsSeenOrFatal'
  BY <1>1, <1>2, WorkerKeeps DEF Dead
<1>7. Own'
  <2> SUFFICES ASSUME Waiting
               PROVE  /\ \A i \in 1..Len(stdin') : stdin'[i].call = call
                      /\ Len(stdin') <= 1
                      /\ job' # None => job'.call = call /\ stdin' = <<>>
                      /\ Answers(Pending', call) /\ Working(Pending)'
    BY <1>4 DEF Own, Waiting
  <2>1. Len(stdin) <= 1 /\ stdin[1].call = call
    BY <1>3 DEF ProxyInv, Own
  <2>2. Len(stdin') = 0
    BY <1>1, <1>3, <2>1
  <2>3. stdin' = <<>>
    BY <1>1, <1>3, <2>2, NothingLeft
  <2>4. Answers(Pending, call) /\ Working(Pending) /\ Pending' = Pending
    BY <1>1, PendingTyped DEF Pending
  <2>5. Pending # <<>> => Whole(Pending[Len(Pending)]) /\ ~Terminal(Pending[Len(Pending)])
    BY <1>1, <2>4 DEF Working
  <2>6. Working(Pending)'
    BY <2>4, <2>5 DEF Working
  <2>7. job' # None => job'.call = call
    BY <1>1, <1>2, <1>3, <2>1
  <2> QED
    BY <2>2, <2>3, <2>4, <2>6, <2>7
<1>8. Clean'
  BY <1>1, <1>4 DEF ProxyInv, Clean, Between
<1> QED
  BY <1>5, <1>6, <1>7, <1>8 DEF ProxyInv

\* A line that does not end the command: x.
LEMMA PrintStep ==
  ASSUME ProxyInv, job # None, ~half, NEW x \in Pieces, x.call = job.call, Say(x),
         Whole(x) \/ (x.kind = "ok" /\ half'), ~Terminal(x),
         UNCHANGED <<caller, process, stdin, buffer, job>>
  PROVE  ProxyInv'
<1>1. UNCHANGED <<pc, command, call, result>> /\ Types
  BY DEF caller, ProxyInv
<1>2. stdout' \in Seq(Pieces)
  BY <1>1, AppendProperties DEF Types, Say
<1>3. Types'
  BY <1>1, <1>2 DEF Types
<1>4. Counted' /\ NoLine' /\ Deaths' /\ AnswerBelongs' /\ DeathsSeenOrFatal'
  BY WorkerKeeps
<1>5. Own'
  <2> SUFFICES ASSUME Waiting
               PROVE  Own'
    BY <1>1 DEF Own, Waiting
  <2>1. /\ Answers(Pending', call) /\ Pending' # <<>>
        /\ Pending'[Len(Pending')] = x
    BY SayKeeps
  <2>2. Working(Pending)'
    BY <2>1 DEF Working
  <2> QED
    BY <1>1, <2>1, <2>2 DEF ProxyInv, Own
<1>6. Clean'
  BY <1>1 DEF ProxyInv, Clean, Between
<1> QED
  BY <1>3, <1>4, <1>5, <1>6 DEF ProxyInv

\* A line that ends it.
LEMMA AnswerStep ==
  ASSUME ProxyInv, job # None, NEW x \in Pieces, x.call = job.call, Say(x), Terminal(x),
         job' = None, UNCHANGED <<caller, process, stdin, buffer>>
  PROVE  ProxyInv'
<1>1. UNCHANGED <<pc, command, call, result>> /\ Types
  BY DEF caller, ProxyInv
<1>2. stdout' \in Seq(Pieces)
  BY <1>1, AppendProperties DEF Types, Say
<1>3. Types'
  BY <1>1, <1>2 DEF Types
<1>4. Counted' /\ NoLine' /\ Deaths' /\ AnswerBelongs' /\ DeathsSeenOrFatal'
  BY WorkerKeeps
<1>5. Own'
  <2> SUFFICES ASSUME Waiting
               PROVE  Own'
    BY <1>1 DEF Own, Waiting
  <2>1. /\ Answers(Pending', call) /\ Pending' # <<>>
        /\ Pending'[Len(Pending')] = x
    BY SayKeeps DEF Terminal
  <2>2. stdin = <<>>
    BY DEF ProxyInv, Own
  <2>3. Working(Pending)'
    BY <2>1, <2>2 DEF Working, Terminal
  <2> QED
    BY <1>1, <2>1, <2>3 DEF ProxyInv, Own
<1>6. Clean'
  BY <1>1 DEF ProxyInv, Clean, Between
<1> QED
  BY <1>3, <1>4, <1>5, <1>6 DEF ProxyInv

\* Nothing is said.
LEMMA SilentStep ==
  ASSUME ProxyInv, UNCHANGED <<caller, stdin, stdout, buffer, job, half>>,
         process' = process \/ (process \in {"running"} \cup Dead /\ process' \in Dead)
  PROVE  ProxyInv'
<1>1. UNCHANGED <<pc, command, call, result>> /\ Types
  BY DEF caller, ProxyInv
<1>2. Types'
  BY <1>1 DEF Types
<1>3. Counted' /\ NoLine' /\ Deaths' /\ AnswerBelongs' /\ DeathsSeenOrFatal'
  BY WorkerKeeps
<1>4. Pending' = Pending
  BY DEF Pending
<1>5. Own'
  BY <1>1, <1>4 DEF ProxyInv, Own, Waiting, Answers, Working
<1>6. Clean'
  BY <1>1 DEF ProxyInv, Clean, Between, Dead
<1> QED
  BY <1>2, <1>3, <1>5, <1>6 DEF ProxyInv

LEMMA WorkerStep ==
  ASSUME ProxyInv, Worker
  PROVE  ProxyInv'
<1>1. job # None => job.call \in Nat
  BY DEF ProxyInv, Types, Requests
<1>2. CASE Take
  BY <1>2, TakeStep
<1>3. CASE Overheating
  <2> DEFINE x == Piece("heat", job.call, TRUE)
  <2>1. job # None /\ ~half /\ Say(x) /\ UNCHANGED <<caller, process, stdin, buffer, job>>
    BY <1>3 DEF Overheating, At
  <2>2. x \in Pieces /\ x.call = job.call /\ Whole(x) /\ ~Terminal(x)
    BY <1>1, <2>1, WholePiece DEF Piece, Pieces, Terminal
  <2> HIDE DEF x
  <2> QED
    BY <2>1, <2>2, PrintStep
<1>4. CASE Warn
  <2>1. UNCHANGED <<caller, process, stdin, stdout, buffer, job, half>>
    BY <1>4 DEF Warn
  <2> QED
    BY <2>1, SilentStep
<1>5. CASE ReportHalf
  <2> DEFINE x == Piece("ok", job.call, FALSE)
  <2>1. /\ job # None /\ ~half /\ half' /\ Say(x)
        /\ UNCHANGED <<caller, process, stdin, buffer, job>>
    BY <1>5 DEF ReportHalf, At
  <2>2. x \in Pieces /\ x.call = job.call /\ x.kind = "ok" /\ ~Terminal(x)
    BY <1>1, <2>1, WholePiece DEF Piece, Pieces, Terminal
  <2> HIDE DEF x
  <2> QED
    BY <2>1, <2>2, PrintStep
<1>6. CASE ReportOk
  <2> DEFINE x == Piece("ok", job.call, TRUE)
  <2>1. job # None /\ Say(x) /\ job' = None /\ UNCHANGED <<caller, process, stdin, buffer>>
    BY <1>6 DEF ReportOk, At
  <2>2. x \in Pieces /\ x.call = job.call /\ Terminal(x)
    BY <1>1, <2>1, WholePiece DEF Piece, Pieces, Terminal
  <2> HIDE DEF x
  <2> QED
    BY <2>1, <2>2, AnswerStep
<1>7. CASE ReportError
  <2> DEFINE x == Piece("error", job.call, TRUE)
  <2>1. job # None /\ Say(x) /\ job' = None /\ UNCHANGED <<caller, process, stdin, buffer>>
    BY <1>7 DEF ReportError, At
  <2>2. x \in Pieces /\ x.call = job.call /\ Terminal(x)
    BY <1>1, <2>1, WholePiece DEF Piece, Pieces, Terminal
  <2> HIDE DEF x
  <2> QED
    BY <2>1, <2>2, AnswerStep
<1>8. CASE Crash
  <2>1. /\ UNCHANGED <<caller, stdin, stdout, buffer, job, half>>
        /\ process \in {"running"} \cup Dead /\ process' \in Dead
    BY <1>8 DEF Crash, Dead
  <2> QED
    BY <2>1, SilentStep
<1>9. CASE Reap
  <2>1. /\ UNCHANGED <<caller, stdin, stdout, buffer, job, half>>
        /\ process \in {"running"} \cup Dead /\ process' \in Dead
    BY <1>9 DEF Reap, Dead, worker
  <2> QED
    BY <2>1, SilentStep
<1> QED
  BY <1>2, <1>3, <1>4, <1>5, <1>6, <1>7, <1>8, <1>9 DEF Worker

LEMMA ProxyInvInit == Init => ProxyInv
<1> SUFFICES ASSUME Init
             PROVE  ProxyInv
  OBVIOUS
<1>1. Types
  BY DEF Init, Types
<1>2. Counted /\ Own /\ Clean /\ NoLine /\ Deaths
  BY DEF Init, Counted, Own, Clean, NoLine, Deaths, Waiting, Between, LastIs
<1>3. DOMAIN result = {}
  BY DEF Init
<1>4. AnswerBelongs /\ DeathsSeenOrFatal
  BY <1>3 DEF AnswerBelongs, DeathsSeenOrFatal
<1> QED
  BY <1>1, <1>2, <1>4 DEF ProxyInv

LEMMA ProxyInvStep == ProxyInv /\ [Next]_vars => ProxyInv'
<1> SUFFICES ASSUME ProxyInv, [Next]_vars
             PROVE  ProxyInv'
  OBVIOUS
<1>1. ASSUME NEW c \in Commands \cup {"exit"}, Call(c)
      PROVE  ProxyInv'
  BY <1>1, CallStep
<1>2. CASE Caller
  BY <1>2, WriteStep, PollStep, ReadStep, EofStep, TimeoutStep, ResetStep, JoinStep DEF Caller
<1>3. CASE Worker
  BY <1>3, WorkerStep
<1>4. CASE UNCHANGED vars
  <2>1. UNCHANGED <<caller, process, stdin, stdout, buffer, job, half>>
    BY <1>4 DEF vars, worker
  <2> QED
    BY <2>1, SilentStep
<1> QED
  BY <1>1, <1>2, <1>3, <1>4 DEF Next

LEMMA ProxyInvHolds == Spec => []ProxyInv
  BY ProxyInvInit, ProxyInvStep, PTL DEF Spec

\* What readinfo returns to prepare_data, probe and benchmark is the answer to
\* their own command, whatever lines came before it, whatever the reads cut out
\* of the pipe and whenever the process died or was given up.
THEOREM NoStaleAnswer == Spec => []AnswerBelongs
<1>1. ProxyInv => AnswerBelongs
  BY DEF ProxyInv
<1> QED
  BY <1>1, ProxyInvHolds, PTL

\* A failure readinfo saw is behind the caller at the next call; a death it did
\* not see meets every later call with BrokenPipeError.
THEOREM UnseenDeathIsFatal == Spec => []DeathsSeenOrFatal
<1>1. ProxyInv => DeathsSeenOrFatal
  BY DEF ProxyInv
<1> QED
  BY <1>1, ProxyInvHolds, PTL
=============================================================================
