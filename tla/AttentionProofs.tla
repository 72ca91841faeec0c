--------------------------- MODULE AttentionProofs ---------------------------
(***************************************************************************)
(* The tile arithmetic is right for every size of the tiles, the sequences *)
(* and the window: a tile adds an element of the attention matrix exactly  *)
(* once if the window admits it and not at all otherwise, though it masks  *)
(* only some of its blocks.                                                *)
(***************************************************************************)
EXTENDS AttnProperties, FiniteSetTheorems, TLAPS

-----------------------------------------------------------------------------
(* Division. *)

LEMMA ProductNat == ASSUME NEW a \in Nat, NEW b \in Nat PROVE a * b \in Nat
  OBVIOUS

LEMMA DivFloor ==
  ASSUME NEW x \in Nat, NEW y \in Positive
  PROVE  /\ x \div y \in Nat
         /\ (x \div y) * y <= x
         /\ x < (x \div y) * y + y
  BY DEF Positive

LEMMA TruncDivNat ==
  ASSUME NEW x \in Nat, NEW y \in Positive PROVE TruncDiv(x, y) = x \div y
  BY DEF TruncDiv

LEMMA DivRdFloor ==
  ASSUME NEW x \in Int, NEW y \in Positive
  PROVE  /\ div_rd(x, y) \in Int
         /\ div_rd(x, y) * y <= x
         /\ x < div_rd(x, y) * y + y
<1>1. CASE x >= 0
  BY <1>1, DivFloor DEF div_rd, TruncDiv, Positive
<1>2. CASE x < 0
  <2> DEFINE e == (-x) \div y
  <2>1. /\ e \in Nat /\ e * y <= -x /\ -x < e * y + y
    <3>1. -x \in Nat
      BY <1>2
    <3> QED BY <3>1, DivFloor
  <2>2. TruncDiv(x, y) = -e
    BY <1>2 DEF TruncDiv
  <2> HIDE DEF e
  <2>3. (-e) * y = -(e * y) /\ (-e - 1) * y = -(e * y) - y
    BY <2>1 DEF Positive
  <2> QED BY <2>1, <2>2, <2>3 DEF div_rd, Positive
<1> QED BY <1>1, <1>2

\* Blocks are ordered like the numbers they hold.
LEMMA FloorMonotone ==
  ASSUME NEW x \in Int, NEW y \in Int, NEW B \in Positive,
         NEW d \in Int, NEW e \in Int,
         d * B <= x, x < d * B + B, e * B <= y, y < e * B + B, x <= y
  PROVE  d <= e
<1>1. SUFFICES ASSUME d > e PROVE FALSE
  OBVIOUS
<1>2. (d - e - 1) * B \in Nat
  BY <1>1, ProductNat DEF Positive
<1>3. (d - e - 1) * B = d * B - e * B - B
  BY DEF Positive
<1> QED BY <1>2, <1>3 DEF Positive

\* d * B <= x compares d with the block x lies in.
LEMMA BlockBelow ==
  ASSUME NEW x \in Int, NEW d \in Int, NEW e \in Int, NEW B \in Positive,
         e * B <= x, x < e * B + B
  PROVE  d * B <= x <=> d <= e
<1>1. ASSUME d * B <= x PROVE d <= e
  <2>1. d * B \in Int /\ d * B < d * B + B
    BY DEF Positive
  <2> QED BY <1>1, <2>1, FloorMonotone
<1>2. ASSUME d <= e PROVE d * B <= x
  <2>1. (e - d) * B \in Nat
    BY <1>2, ProductNat DEF Positive
  <2>2. (e - d) * B = e * B - d * B
    BY DEF Positive
  <2> QED BY <2>1, <2>2 DEF Positive
<1> QED BY <1>1, <1>2

-----------------------------------------------------------------------------
(* Intervals of blocks. *)

LEMMA IntersectionBlocks ==
  ASSUME NEW a \in Int \X Int, NEW c \in Int \X Int, NEW b \in Int
  PROVE  b \in Blocks(closed_interval_isect(a, c))
           <=> b \in Blocks(a) /\ b \in Blocks(c)
  BY DEF Blocks, closed_interval_isect, Larger, Smaller

LEMMA IntersectionPair ==
  ASSUME NEW a \in Int \X Int, NEW c \in Int \X Int
  PROVE  closed_interval_isect(a, c) \in Int \X Int
  BY DEF closed_interval_isect, Larger, Smaller

Triple(lb, fb, rb) == [lb |-> lb, fb |-> fb, rb |-> rb]

Counted(iv, b, masked) ==
    (IF b \in Blocks(iv.fb) THEN 1 ELSE 0)
  + (IF masked /\ b \in Blocks(iv.lb) THEN 1 ELSE 0)
  + (IF masked /\ b \in Blocks(iv.rb) THEN 1 ELSE 0)

(* The two products Trailing compares with the keys, as block indices. *)
TrailingMoves(f, sk, BN) == f[1] <= (sk - 1) \div BN /\ sk \div BN <= f[2]

LEMMA TrailingCompares ==
  ASSUME NEW sk \in Positive, NEW BN \in Positive, NEW f \in Int \X Int
  PROVE  TrailingMoves(f, sk, BN) <=> f[1] * BN < sk /\ sk < f[2] * BN + BN
<1> DEFINE v == (sk - 1) \div BN
           q == sk \div BN
<1>1. /\ v \in Int /\ v * BN <= sk - 1 /\ sk - 1 < v * BN + BN
      /\ q \in Int /\ q * BN <= sk /\ sk < q * BN + BN
  <2>1. sk - 1 \in Nat /\ sk \in Nat
    BY DEF Positive
  <2> QED BY <2>1, DivFloor
<1>2. f[1] * BN < sk <=> f[1] <= v
  <2> HIDE DEF v
  <2>1. f[1] * BN <= sk - 1 <=> f[1] <= v
    <3>1. sk - 1 \in Int /\ f[1] \in Int
      BY DEF Positive
    <3> QED BY <3>1, <1>1, BlockBelow
  <2>2. f[1] * BN \in Int
    BY DEF Positive
  <2> QED BY <2>1, <2>2 DEF Positive
<1>3. sk < f[2] * BN + BN <=> q <= f[2]
  <2> HIDE DEF q
  <2>1. (f[2] + 1) * BN <= sk <=> f[2] + 1 <= q
    <3>1. sk \in Int /\ f[2] + 1 \in Int
      BY DEF Positive
    <3> QED BY <3>1, <1>1, BlockBelow
  <2>2. (f[2] + 1) * BN = f[2] * BN + BN /\ f[2] * BN \in Int
    BY DEF Positive
  <2> QED BY <2>1, <2>2, <1>1 DEF Positive
<1> QED BY <1>2, <1>3 DEF TrailingMoves

LEMMA TrailingStays ==
  ASSUME NEW sk \in Positive, NEW BN \in Positive, NEW lb \in Int \X Int,
         NEW f \in Int \X Int, NEW rb \in Int \X Int,
         ~TrailingMoves(f, sk, BN)
  PROVE  Trailing(Triple(lb, f, rb), sk, BN) = Triple(lb, f, rb)
<1>1. ~(f[1] * BN < sk /\ sk < f[2] * BN + BN)
  BY TrailingCompares
<1> QED BY <1>1 DEF Trailing, Triple

LEMMA TrailingMoved ==
  ASSUME NEW sk \in Positive, NEW BN \in Positive, NEW lb \in Int \X Int,
         NEW f \in Int \X Int, NEW rb \in Int \X Int,
         TrailingMoves(f, sk, BN)
  PROVE  Trailing(Triple(lb, f, rb), sk, BN)
           = Triple(lb, <<f[1], (sk \div BN) - 1>>, <<sk \div BN, sk \div BN>>)
<1>1. f[1] * BN < sk /\ sk < f[2] * BN + BN
  BY TrailingCompares
<1>2. Trailing(Triple(lb, f, rb), sk, BN) =
        [Triple(lb, f, rb) EXCEPT !.fb = <<f[1], (sk \div BN) - 1>>,
                                  !.rb = <<sk \div BN, sk \div BN>>]
  BY <1>1 DEF Trailing, Triple
<1> QED BY <1>2 DEF Triple

-----------------------------------------------------------------------------
(* The blocks of the keys: the last one that holds a key is                *)
(* (sk - 1) \div BN, the first one that is not full sk \div BN.            *)

LEMMA FloorUnique ==
  ASSUME NEW x \in Int, NEW B \in Positive, NEW d \in Int, NEW e \in Int,
         d * B <= x, x < d * B + B, e * B <= x, x < e * B + B
  PROVE  d = e
<1>1. d <= e
  BY FloorMonotone
<1>2. e <= d
  BY FloorMonotone
<1> QED BY <1>1, <1>2

LEMMA KeyBlocks ==
  ASSUME NEW sk \in Positive, NEW BN \in Positive, NEW n \in Nat
  PROVE  /\ n \div BN \in Nat
         /\ (sk - 1) \div BN \in Nat
         /\ sk \div BN \in Nat
         /\ n < sk => n \div BN <= (sk - 1) \div BN
         /\ n \div BN < sk \div BN => n < sk
         /\ (sk - 1) \div BN <= sk \div BN
         /\ cdiv(sk, BN) - 1 = (sk - 1) \div BN
<1> DEFINE b == n \div BN
           v == (sk - 1) \div BN
           q == sk \div BN
<1>1. /\ b \in Nat /\ b * BN <= n /\ n < b * BN + BN
      /\ v \in Nat /\ v * BN <= sk - 1 /\ sk - 1 < v * BN + BN
      /\ q \in Nat /\ q * BN <= sk /\ sk < q * BN + BN
  <2>1. sk - 1 \in Nat /\ sk \in Nat
    BY DEF Positive
  <2> QED BY <2>1, DivFloor
<1>2. cdiv(sk, BN) = v + 1
  <2>1. sk + BN - 1 \in Nat
    BY DEF Positive
  <2> DEFINE c == (sk + BN - 1) \div BN
  <2>2. c \in Nat /\ c * BN <= sk + BN - 1 /\ sk + BN - 1 < c * BN + BN
    BY <2>1, DivFloor
  <2> HIDE DEF c, v
  <2>3. (v + 1) * BN = v * BN + BN /\ v * BN \in Int
    BY <1>1 DEF Positive
  <2>4. c = v + 1
    <3>1. (v + 1) * BN <= sk + BN - 1 /\ sk + BN - 1 < (v + 1) * BN + BN
      BY <2>3, <1>1 DEF Positive
    <3>2. sk + BN - 1 \in Int /\ c \in Int /\ v + 1 \in Int
      BY <1>1, <2>1, <2>2
    <3> QED BY <3>1, <3>2, <2>2, FloorUnique
  <2> QED BY <2>4 DEF cdiv, c
<1> HIDE DEF b, v, q
<1>3. n < sk => b <= v
  <2>1. n < sk => n <= sk - 1
    BY DEF Positive
  <2>2. sk - 1 \in Int /\ n \in Int
    BY DEF Positive
  <2> QED BY <1>1, <2>1, <2>2, FloorMonotone
<1>4. b < q => n < sk
  <2>1. SUFFICES ASSUME sk <= n PROVE q <= b
    BY <1>1 DEF Positive
  <2>2. sk \in Int /\ n \in Int
    BY DEF Positive
  <2> QED BY <1>1, <2>1, <2>2, FloorMonotone
<1>5. v <= q
  <2>1. sk - 1 \in Int /\ sk \in Int /\ sk - 1 <= sk
    BY DEF Positive
  <2> QED BY <1>1, <2>1, FloorMonotone
<1> QED BY <1>1, <1>2, <1>3, <1>4, <1>5 DEF b, v, q

-----------------------------------------------------------------------------
(* The two tables of intervals, over block indices alone: b is the block   *)
(* of an element, v and q the last block with a key and the first that is  *)
(* not full, key and allowed what the masks test.                          *)

Is01(count, one) == count = IF one THEN 1 ELSE 0

LEMMA EmptyNotTrailing ==
  ASSUME NEW sk \in Positive, NEW BN \in Positive, NEW lb \in Int \X Int,
         NEW f \in Int \X Int, NEW rb \in Int \X Int, f[2] < 0
  PROVE  Trailing(Triple(lb, f, rb), sk, BN) = Triple(lb, f, rb)
<1>1. sk \div BN \in Nat
  BY KeyBlocks, 0 \in Nat
<1>2. ~(sk \div BN <= f[2])
  BY <1>1
<1> QED BY <1>2, TrailingStays DEF TrailingMoves

LEMMA PlainMasked ==
  ASSUME NEW sk \in Positive, NEW BN \in Positive, NEW b \in Nat,
         NEW masked \in BOOLEAN,
         masked => b <= (sk - 1) \div BN
  PROVE  Is01(Counted(Trailing(Triple(<<0, (sk - 1) \div BN>>, <<-1, -2>>,
                                      <<-1, -2>>), sk, BN), b, masked), masked)
<1> DEFINE v == (sk - 1) \div BN
           q == sk \div BN
<1>1. v \in Nat /\ q \in Nat
  BY KeyBlocks, 0 \in Nat
<1>2. Trailing(Triple(<<0, v>>, <<-1, -2>>, <<-1, -2>>), sk, BN)
        = Triple(<<0, v>>, <<-1, -2>>, <<-1, -2>>)
  <2>1. <<0, v>> \in Int \X Int /\ <<-1, -2>> \in Int \X Int
    BY <1>1
  <2>2. (<<-1, -2>>)[2] < 0
    OBVIOUS
  <2> HIDE DEF v
  <2> QED BY <2>1, <2>2, EmptyNotTrailing
<1> HIDE DEF v, q
<1>3. masked => b <= v
  BY DEF v
<1> QED BY <1>1, <1>2, <1>3 DEF Is01, Counted, Triple, Blocks, v

LEMMA PlainFull ==
  ASSUME NEW sk \in Positive, NEW BN \in Positive, NEW b \in Nat,
         NEW key \in BOOLEAN,
         key => b <= (sk - 1) \div BN,
         b < sk \div BN => key,
         (sk - 1) \div BN <= sk \div BN
  PROVE  Is01(Counted(Trailing(Triple(<<-1, -2>>, <<0, sk \div BN>>,
                                      <<(sk \div BN) + 1, (sk - 1) \div BN>>),
                               sk, BN), b, key), key)
<1> DEFINE v == (sk - 1) \div BN
           q == sk \div BN
<1>1. v \in Nat /\ q \in Nat
  BY KeyBlocks, 0 \in Nat
<1>2. Trailing(Triple(<<-1, -2>>, <<0, q>>, <<q + 1, v>>), sk, BN)
        = Triple(<<-1, -2>>, <<0, q - 1>>, <<q, q>>)
  <2>1. <<0, q>> \in Int \X Int
    BY <1>1
  <2>2. (<<0, q>>)[1] <= v /\ q <= (<<0, q>>)[2]
    BY <1>1
  <2>3. <<-1, -2>> \in Int \X Int /\ <<q + 1, v>> \in Int \X Int
    BY <1>1
  <2>4. TrailingMoves(<<0, q>>, sk, BN)
    BY <2>2 DEF TrailingMoves
  <2> HIDE DEF v
  <2> QED BY <2>1, <2>3, <2>4, TrailingMoved
<1>3. (key => b <= v) /\ (b < q => key) /\ v <= q
  OBVIOUS
<1> HIDE DEF v, q
<1>4. Is01(Counted(Triple(<<-1, -2>>, <<0, q - 1>>, <<q, q>>), b, key), key)
  BY <1>1, <1>3 DEF Is01, Counted, Triple, Blocks
<1> QED BY <1>2, <1>4 DEF v, q

LEMMA CausalUnited ==
  ASSUME NEW sk \in Positive, NEW BN \in Positive, NEW b \in Nat,
         NEW masked \in BOOLEAN, NEW l1 \in Int, NEW r2 \in Int,
         masked => l1 <= b /\ b <= r2 /\ b <= (sk - 1) \div BN
  PROVE  Is01(Counted(Trailing(Triple(closed_interval_isect(<<l1, r2>>,
                                        <<0, (sk - 1) \div BN>>),
                                      <<-3, -4>>, <<-3, -4>>), sk, BN),
                      b, masked), masked)
<1> DEFINE v == (sk - 1) \div BN
           q == sk \div BN
           lb == closed_interval_isect(<<l1, r2>>, <<0, v>>)
<1>1. v \in Nat /\ q \in Nat
  BY KeyBlocks, 0 \in Nat
<1>2. Trailing(Triple(lb, <<-3, -4>>, <<-3, -4>>), sk, BN)
        = Triple(lb, <<-3, -4>>, <<-3, -4>>)
  <2>1. lb \in Int \X Int /\ <<-3, -4>> \in Int \X Int
    BY <1>1, IntersectionPair
  <2>2. (<<-3, -4>>)[2] < 0
    OBVIOUS
  <2> HIDE DEF lb
  <2> QED BY <2>1, <2>2, EmptyNotTrailing
<1>3. masked => b \in Blocks(lb)
  <2> HIDE DEF v
  <2>1. masked => b \in Blocks(<<l1, r2>>) /\ b \in Blocks(<<0, v>>)
    BY <1>1 DEF Blocks, v
  <2>2. <<l1, r2>> \in Int \X Int /\ <<0, v>> \in Int \X Int
    BY <1>1
  <2> QED BY <2>1, <2>2, IntersectionBlocks
<1> HIDE DEF lb, v, q
<1>4. Is01(Counted(Triple(lb, <<-3, -4>>, <<-3, -4>>), b, masked), masked)
  BY <1>3 DEF Is01, Counted, Triple, Blocks
<1> QED BY <1>2, <1>4 DEF lb, v

\* What the bounds of the window say of a tile whose two masked parts lie apart.
Apart(b, key, masked, l1, l2, r1, r2, v, q) ==
  /\ b \in Nat /\ key \in BOOLEAN /\ masked \in BOOLEAN
  /\ l1 \in Int /\ l2 \in Int /\ r1 \in Int /\ r2 \in Int
  /\ v \in Nat /\ q \in Nat /\ v <= q
  /\ l1 <= l2 /\ r1 <= r2 /\ (l2 < r1 \/ r2 < l1)
  /\ masked => key /\ l1 <= b /\ b <= r2
  /\ key /\ l2 < b /\ b < r1 => masked
  /\ (key => b <= v) /\ (b < q => key)

SplitIntervals(l1, l2, r1, r2, v) ==
  Triple(closed_interval_isect(<<l1, l2>>, <<0, v>>),
         closed_interval_isect(<<l2 + 1, r1 - 1>>, <<0, v>>),
         closed_interval_isect(<<r1, r2>>, <<0, v>>))

LEMMA CausalSplit ==
  ASSUME NEW sk \in Positive, NEW BN \in Positive, NEW b, NEW key, NEW masked,
         NEW l1, NEW l2, NEW r1, NEW r2, NEW v, NEW q,
         v = (sk - 1) \div BN, q = sk \div BN,
         Apart(b, key, masked, l1, l2, r1, r2, v, q)
  PROVE  Is01(Counted(Trailing(SplitIntervals(l1, l2, r1, r2, v), sk, BN),
                      b, masked), masked)
<1> DEFINE lb == closed_interval_isect(<<l1, l2>>, <<0, v>>)
           fb == closed_interval_isect(<<l2 + 1, r1 - 1>>, <<0, v>>)
           rb == closed_interval_isect(<<r1, r2>>, <<0, v>>)
<1>1. /\ v \in Nat /\ q \in Nat /\ b \in Nat
      /\ l1 \in Int /\ l2 \in Int /\ r1 \in Int /\ r2 \in Int
      /\ key \in BOOLEAN /\ masked \in BOOLEAN
      /\ l1 <= l2 /\ r1 <= r2 /\ (l2 < r1 \/ r2 < l1)
      /\ masked => key /\ l1 <= b /\ b <= r2
      /\ key /\ l2 < b /\ b < r1 => masked
  BY DEF Apart
<1>2. (key => b <= v) /\ (b < q => key) /\ v <= q
  BY DEF Apart
<1>3. TrailingMoves(fb, sk, BN) <=> fb[1] <= v /\ q <= fb[2]
  BY DEF TrailingMoves
<1>4. lb \in Int \X Int /\ fb \in Int \X Int /\ rb \in Int \X Int
  BY <1>1, IntersectionPair
<1>5. /\ b \in Blocks(lb) <=> l1 <= b /\ b <= l2 /\ b <= v
      /\ b \in Blocks(fb) <=> l2 < b /\ b < r1 /\ b <= v
      /\ b \in Blocks(rb) <=> r1 <= b /\ b <= r2 /\ b <= v
  <2>1. ASSUME NEW x \in Int, NEW y \in Int
        PROVE  b \in Blocks(closed_interval_isect(<<x, y>>, <<0, v>>))
                 <=> x <= b /\ b <= y /\ b <= v
    <3>1. <<x, y>> \in Int \X Int /\ <<0, v>> \in Int \X Int
      BY <1>1
    <3> QED BY <1>1, <3>1, IntersectionBlocks DEF Blocks
  <2>2. l2 + 1 \in Int /\ r1 - 1 \in Int
    BY <1>1
  <2>3. b \in Blocks(fb) <=> l2 + 1 <= b /\ b <= r1 - 1 /\ b <= v
    BY <2>1, <2>2
  <2>4. b \in Blocks(lb) <=> l1 <= b /\ b <= l2 /\ b <= v
    BY <1>1, <2>1
  <2>5. b \in Blocks(rb) <=> r1 <= b /\ b <= r2 /\ b <= v
    BY <1>1, <2>1
  <2> HIDE DEF lb, fb, rb
  <2> QED BY <1>1, <2>3, <2>4, <2>5
<1>6. b \in Blocks(fb) <=> fb[1] <= b /\ b <= fb[2]
  BY <1>1, <1>4 DEF Blocks
<1>7. fb[2] >= 0 => fb = <<Larger(l2 + 1, 0), Smaller(r1 - 1, v)>>
  BY <1>1 DEF closed_interval_isect
<1> HIDE DEF lb, fb, rb
<1>8. CASE ~TrailingMoves(fb, sk, BN)
  <2>1. Trailing(Triple(lb, fb, rb), sk, BN) = Triple(lb, fb, rb)
    BY <1>4, <1>8, TrailingStays
  <2>2. b \in Blocks(fb) => masked
    BY <1>1, <1>2, <1>3, <1>4, <1>5, <1>6, <1>8
  <2>3. Is01(Counted(Triple(lb, fb, rb), b, masked), masked)
    BY <1>1, <1>2, <1>5, <2>2 DEF Is01, Counted, Triple
  <2> QED BY <2>1, <2>3 DEF lb, fb, rb, SplitIntervals
<1>9. CASE TrailingMoves(fb, sk, BN)
  <2>1. Trailing(Triple(lb, fb, rb), sk, BN)
          = Triple(lb, <<fb[1], q - 1>>, <<q, q>>)
    BY <1>4, <1>9, TrailingMoved
  <2>2. /\ fb[1] = Larger(l2 + 1, 0) /\ fb[2] = Smaller(r1 - 1, v)
        /\ fb[1] <= v /\ q <= fb[2]
    BY <1>1, <1>3, <1>4, <1>7, <1>9
  <2>3. q = v /\ q < r1 /\ l2 < q /\ fb[1] \in Int
    BY <1>1, <1>2, <1>4, <2>2 DEF Larger, Smaller
  <2>4. b \in Blocks(<<fb[1], q - 1>>) <=> l2 < b /\ b < q
    BY <1>1, <2>2, <2>3 DEF Blocks, Larger
  <2>5. b \in Blocks(<<q, q>>) <=> b = q
    BY <1>1 DEF Blocks
  <2>6. Is01(Counted(Triple(lb, <<fb[1], q - 1>>, <<q, q>>), b, masked), masked)
    BY <1>1, <1>2, <1>5, <2>3, <2>4, <2>5 DEF Is01, Counted, Triple
  <2> QED BY <2>1, <2>6 DEF lb, fb, rb, SplitIntervals
<1> QED BY <1>8, <1>9

-----------------------------------------------------------------------------
(* The bounds of the window, rounded down to blocks, for a tile of rows    *)
(* start..end-1 and a row m of it. *)

Floor(x, d, B) == d \in Int /\ d * B <= x /\ x < d * B + B

LEMMA WindowBlocks ==
  ASSUME NEW BN \in Positive, NEW b \in Int, NEW n \in Int, Floor(n, b, BN),
         NEW left \in Int, NEW right \in Int,
         NEW start \in Int, NEW end \in Int, NEW m \in Int,
         start <= m, m < end
  PROVE  /\ div_rd(start - left, BN) <= div_rd(end - left - 1, BN)
         /\ div_rd(start + right, BN) <= div_rd(end + right - 1, BN)
         /\ m - left <= n => div_rd(start - left, BN) <= b
         /\ n <= m + right => b <= div_rd(end + right - 1, BN)
         /\ div_rd(end - left - 1, BN) < b => m - left <= n
         /\ b < div_rd(start + right, BN) => n <= m + right
<1> DEFINE A == start - left
           C == end - left - 1
           D == start + right
           E == end + right - 1
<1>1. A \in Int /\ C \in Int /\ D \in Int /\ E \in Int /\ A <= C /\ D <= E
  OBVIOUS
<1>2. /\ m - left <= n => A <= n
      /\ n <= m + right => n <= E
      /\ ~(m - left <= n) => n <= C
      /\ ~(n <= m + right) => D <= n
  OBVIOUS
<1> HIDE DEF A, C, D, E
<1>3. /\ Floor(A, div_rd(A, BN), BN) /\ Floor(C, div_rd(C, BN), BN)
      /\ Floor(D, div_rd(D, BN), BN) /\ Floor(E, div_rd(E, BN), BN)
  BY <1>1, DivRdFloor DEF Floor
<1>4. ASSUME NEW x \in Int, NEW y \in Int, NEW d, NEW e,
             Floor(x, d, BN), Floor(y, e, BN), x <= y
      PROVE  d <= e
  BY <1>4, FloorMonotone DEF Floor
<1>5. div_rd(A, BN) <= div_rd(C, BN) /\ div_rd(D, BN) <= div_rd(E, BN)
  BY <1>1, <1>3, <1>4
<1>6. m - left <= n => div_rd(A, BN) <= b
  BY <1>1, <1>2, <1>3, <1>4
<1>7. n <= m + right => b <= div_rd(E, BN)
  BY <1>1, <1>2, <1>3, <1>4
<1>8. ~(m - left <= n) => b <= div_rd(C, BN)
  BY <1>1, <1>2, <1>3, <1>4
<1>9. ~(n <= m + right) => div_rd(D, BN) <= b
  BY <1>1, <1>2, <1>3, <1>4
<1>10. b \in Int /\ div_rd(C, BN) \in Int /\ div_rd(D, BN) \in Int
  BY <1>3 DEF Floor
<1> QED BY <1>5, <1>6, <1>7, <1>8, <1>9, <1>10 DEF A, C, D, E

AddedIfAllowed(window, start, sq, sk, BM, BN, m, n) ==
  Times(calculate_intervals(window, start, sq, sk, BM, BN), window, m, n, sq, sk, BN)
    = IF n < sk /\ Allowed(window, m, n) THEN 1 ELSE 0

LEMMA TileAdds ==
  ASSUME NEW BM \in Positive, NEW BN \in Positive,
         NEW sq \in Positive, NEW sk \in Positive, NEW start \in Nat,
         NEW window, window.left \in Int, window.right \in Int,
         NEW m \in Nat, NEW n \in Nat, start <= m, m < start + BM, m < sq
  PROVE  AddedIfAllowed(window, start, sq, sk, BM, BN, m, n)
<1> DEFINE b == n \div BN
           v == (sk - 1) \div BN
           q == sk \div BN
           key == n < sk
           masked == n < sk /\ Allowed(window, m, n)
           overrun == start + BM > sq
           iv == calculate_intervals(window, start, sq, sk, BM, BN)
<1>1. /\ b \in Nat /\ v \in Nat /\ q \in Nat
      /\ (key => b <= v) /\ (b < q => key) /\ v <= q
      /\ cdiv(sk, BN) - 1 = v
  BY KeyBlocks
<1>2. TruncDiv(sk - 1, BN) = v
  <2>1. sk - 1 \in Nat
    BY DEF Positive
  <2> QED BY <2>1, TruncDivNat
<1>3. Floor(n, b, BN)
  BY DivFloor DEF Floor
<1>4. Times(iv, window, m, n, sq, sk, BN) = Counted(iv, b, masked)
  BY DEF Times, Counted
<1>5. SUFFICES Is01(Counted(iv, b, masked), masked)
  BY <1>4 DEF Is01, AddedIfAllowed
<1>6. masked \in BOOLEAN /\ key \in BOOLEAN
  BY DEF Allowed
<1>7. CASE ~window.causal
  <2>1. masked <=> key
    BY <1>7 DEF Allowed
  <2>2. CASE overrun
    <3>1. iv = Trailing(Triple(<<0, v>>, <<-1, -2>>, <<-1, -2>>), sk, BN)
      BY <1>1, <1>7, <2>2 DEF calculate_intervals, PlainIntervals, Triple
    <3> HIDE DEF masked, iv, key
    <3> QED BY <1>1, <1>6, <2>1, <3>1, PlainMasked
  <2>3. CASE ~overrun
    <3>1. iv = Trailing(Triple(<<-1, -2>>, <<0, q>>, <<q + 1, v>>), sk, BN)
      BY <1>1, <1>7, <2>3 DEF calculate_intervals, PlainIntervals, Triple
    <3>2. Is01(Counted(iv, b, key), key)
      <4> HIDE DEF iv, key
      <4> QED BY <1>1, <1>6, <3>1, PlainFull
    <3> QED BY <2>1, <3>2 DEF Is01, Counted
  <2> QED BY <2>2, <2>3
<1>8. CASE window.causal
  <2> DEFINE end == Smaller(start + BM, sq)
             l1 == div_rd(start - window.left, BN)
             l2 == div_rd(end - window.left - 1, BN)
             r1 == div_rd(start + window.right, BN)
             r2 == div_rd(end + window.right - 1, BN)
             vb == <<0, v>>
  <2>1. end \in Int /\ m < end
    BY DEF Smaller, Positive
  <2>2. l1 \in Int /\ l2 \in Int /\ r1 \in Int /\ r2 \in Int
    <3>1. /\ start - window.left \in Int /\ end - window.left - 1 \in Int
          /\ start + window.right \in Int /\ end + window.right - 1 \in Int
      BY <2>1
    <3> QED BY <3>1, DivRdFloor
  <2>3. /\ l1 <= l2 /\ r1 <= r2
        /\ m - window.left <= n => l1 <= b
        /\ n <= m + window.right => b <= r2
        /\ l2 < b => m - window.left <= n
        /\ b < r1 => n <= m + window.right
    <3>1. b \in Int /\ n \in Int /\ start \in Int /\ m \in Int
      BY <1>1
    <3> HIDE DEF b, end
    <3> QED BY <1>3, <2>1, <3>1, WindowBlocks
  <2>4. masked <=> key /\ n <= m + window.right /\ m - window.left <= n
    BY <1>8 DEF Allowed
  <2>5. masked => key /\ l1 <= b /\ b <= r2
    BY <2>3, <2>4
  <2>6. key /\ l2 < b /\ b < r1 => masked
    BY <2>3, <2>4
  <2> DEFINE apart == is_closed_interval_empty(
                        closed_interval_isect(<<l1, l2>>, <<r1, r2>>))
  <2>7. apart => l2 < r1 \/ r2 < l1
    <3> HIDE DEF l1, l2, r1, r2
    <3> QED BY <2>2, <2>3 DEF is_closed_interval_empty, closed_interval_isect,
                              Larger, Smaller
  <2>8. CASE apart /\ ~overrun
    <3>1. iv = Trailing(SplitIntervals(l1, l2, r1, r2, v), sk, BN)
      BY <1>2, <1>8, <2>8
      DEF calculate_intervals, CausalIntervals, SplitIntervals, Triple
    <3>2. l1 <= l2 /\ r1 <= r2 /\ (l2 < r1 \/ r2 < l1)
      BY <2>3, <2>7, <2>8
    <3>3. /\ masked => key /\ l1 <= b /\ b <= r2
          /\ key /\ l2 < b /\ b < r1 => masked
      BY <2>5, <2>6
    <3>4. v = (sk - 1) \div BN /\ q = sk \div BN
      OBVIOUS
    <3> HIDE DEF masked, iv, key, l1, l2, r1, r2, b, v, q
    <3>5. Apart(b, key, masked, l1, l2, r1, r2, v, q)
      BY <1>1, <1>6, <2>2, <3>2, <3>3 DEF Apart
    <3> QED BY <3>1, <3>4, <3>5, CausalSplit
  <2>9. CASE ~(apart /\ ~overrun)
    <3>1. iv = Trailing(Triple(closed_interval_isect(<<l1, r2>>, vb),
                               <<-3, -4>>, <<-3, -4>>), sk, BN)
      BY <1>2, <1>8, <2>9 DEF calculate_intervals, CausalIntervals, Triple
    <3> HIDE DEF masked, iv, key, l1, l2, r1, r2, apart
    <3>2. masked => l1 <= b /\ b <= r2 /\ b <= v
      BY <1>1, <2>5
    <3> QED BY <1>1, <1>6, <2>2, <3>1, <3>2, CausalUnited
  <2> QED BY <2>8, <2>9
<1> QED BY <1>7, <1>8

(* Every element counts exactly once: calculate_intervals and the two      *)
(* kinds of inner loop add element (m, n) of a row of the tile once if it  *)
(* is a key the window admits and never otherwise, whatever the sizes of   *)
(* the tile, the sequences and the window are.                             *)
THEOREM TileIsExact ==
  ASSUME NEW BM \in Positive, NEW BN \in Positive,
         NEW sq \in Positive, NEW sk \in Positive, NEW start \in Nat,
         NEW window, window.left \in Int, window.right \in Int,
         NEW m \in Nat, NEW n \in Nat, start <= m, m < start + BM, m < sq
  PROVE  Times(calculate_intervals(window, start, sq, sk, BM, BN),
               window, m, n, sq, sk, BN)
           = IF n < sk /\ Allowed(window, m, n) THEN 1 ELSE 0
<1>1. AddedIfAllowed(window, start, sq, sk, BM, BN, m, n)
  BY TileAdds
<1> QED BY <1>1 DEF AddedIfAllowed

-----------------------------------------------------------------------------
(* The random number of an element depends on the element alone, not on    *)
(* the tile it is met in: the backward kernels, which tile the matrix      *)
(* another way, replay the numbers of the forward kernel.                  *)

LEMMA SumOfBlocks ==
  ASSUME NEW y \in Nat, NEW j \in Nat, NEW per \in Positive, y % per = 0
  PROVE  /\ (y + j) \div per = y \div per + j \div per
         /\ (y + j) % per = j % per
<1> DEFINE Y == y \div per
           J == j \div per
           S == (y + j) \div per
<1>1. /\ Y \in Nat /\ y = Y * per
      /\ J \in Nat /\ J * per <= j /\ j < J * per + per
      /\ S \in Nat /\ S * per <= y + j /\ y + j < S * per + per
  BY DivFloor DEF Positive
<1>2. j % per = j - J * per /\ (y + j) % per = (y + j) - S * per
  BY DEF Positive
<1> HIDE DEF Y, J, S
<1>3. (Y + J) * per = Y * per + J * per /\ Y * per \in Int /\ J * per \in Int
  BY <1>1 DEF Positive
<1>4. S = Y + J
  <2>1. y + j \in Int /\ Y + J \in Int
    BY <1>1
  <2>2. (Y + J) * per <= y + j /\ y + j < (Y + J) * per + per
    BY <1>1, <1>3 DEF Positive
  <2> QED BY <1>1, <2>1, <2>2, FloorUnique
<1> QED BY <1>1, <1>2, <1>3, <1>4 DEF Y, J, S

Numbered(base, stride, per, x, y, i, j) ==
  dropout_number(base, x, y, i, j, stride, per)
    = <<base + (x + i) * stride + (y + j) \div per, (y + j) % per>>

LEMMA NumberedAlways ==
  ASSUME NEW base \in Nat, NEW stride \in Nat, NEW per \in Positive,
         NEW x \in Nat, NEW y \in Nat, NEW i \in Nat, NEW j \in Nat, y % per = 0
  PROVE  Numbered(base, stride, per, x, y, i, j)
<1>1. y \div per \in Nat /\ j \div per \in Nat
  BY DivFloor
<1>2. (x + i) * stride = x * stride + i * stride
      /\ x * stride \in Nat /\ i * stride \in Nat
  OBVIOUS
<1> QED BY <1>1, <1>2, SumOfBlocks DEF dropout_number, Numbered

(* Numbered, spelled out. *)
THEOREM DropoutNumberOfElement ==
  ASSUME NEW base \in Nat, NEW stride \in Nat, NEW per \in Positive,
         NEW x \in Nat, NEW y \in Nat, NEW i \in Nat, NEW j \in Nat, y % per = 0
  PROVE  dropout_number(base, x, y, i, j, stride, per)
           = <<base + (x + i) * stride + (y + j) \div per, (y + j) % per>>
<1>1. Numbered(base, stride, per, x, y, i, j)
  BY NumberedAlways
<1> QED BY <1>1 DEF Numbered

(* Elements of one head that lie within its columns get different numbers. *)
THEOREM DropoutNumbersDiffer ==
  ASSUME NEW base \in Nat, NEW stride \in Positive, NEW per \in Positive,
         NEW m1 \in Nat, NEW n1 \in Nat, NEW m2 \in Nat, NEW n2 \in Nat,
         n1 \div per < stride, n2 \div per < stride,
         dropout_number(base, m1, 0, 0, n1, stride, per)
           = dropout_number(base, m2, 0, 0, n2, stride, per)
  PROVE  m1 = m2 /\ n1 = n2
<1> DEFINE c1 == n1 \div per
           c2 == n2 \div per
<1>1. /\ c1 \in Nat /\ n1 % per = n1 - c1 * per
      /\ c2 \in Nat /\ n2 % per = n2 - c2 * per
  BY DivFloor DEF Positive
<1>2. /\ base + m1 * stride + c1 = base + m2 * stride + c2
      /\ n1 % per = n2 % per
  <2>1. 0 \div per = 0 /\ 0 * stride = 0 /\ 0 \div per + 0 = 0
    BY DEF Positive
  <2>2. /\ base + m1 * stride + 0 \div per + 0 * stride + c1
              = base + m2 * stride + 0 \div per + 0 * stride + c2
        /\ n1 % per = n2 % per
    BY DEF dropout_number
  <2>3. m1 * stride \in Nat /\ m2 * stride \in Nat
    BY DEF Positive
  <2> QED BY <1>1, <2>1, <2>2, <2>3
<1> HIDE DEF c1, c2
<1>3. m1 * stride \in Nat /\ m2 * stride \in Nat
  BY DEF Positive
<1>4. m1 * stride + c1 = m2 * stride + c2 /\ m1 * stride + c1 \in Nat
  BY <1>1, <1>2, <1>3
<1>5. c1 < stride /\ c2 < stride
  BY DEF c1, c2
<1>6. m1 = m2
  <2>1. /\ m1 * stride <= m1 * stride + c1
        /\ m1 * stride + c1 < m1 * stride + stride
        /\ m2 * stride <= m1 * stride + c1
        /\ m1 * stride + c1 < m2 * stride + stride
    BY <1>1, <1>3, <1>4, <1>5 DEF Positive
  <2> QED BY <1>4, <2>1, FloorUnique
<1>7. c1 = c2
  BY <1>1, <1>3, <1>4, <1>6
<1> QED BY <1>1, <1>2, <1>6, <1>7 DEF Positive

-----------------------------------------------------------------------------
(* remap_xcd permutes the program ids: every head is computed, and no head *)
(* twice, for every number of heads and of XCDs. *)

\* The XCDs below `tall` hold `per` programs, the others per - 1.
Cell(x, l, per, tall) == IF x < tall THEN x * per + l
                         ELSE tall * per + (x - tall) * (per - 1) + l

LEMMA CellUnique ==
  ASSUME NEW per \in Positive, NEW tall \in Nat,
         NEW x \in Nat, NEW l \in Nat, NEW y \in Nat, NEW k \in Nat,
         l < per, x < tall \/ l < per - 1,
         k < per, y < tall \/ k < per - 1,
         Cell(x, l, per, tall) = Cell(y, k, per, tall)
  PROVE  x = y /\ l = k
<1>1. /\ per \in Int /\ per > 0 /\ tall * per \in Nat
      /\ x * per \in Nat /\ y * per \in Nat
  BY DEF Positive
<1>2. ASSUME NEW u \in Nat, NEW h \in Nat, u < tall, h < per
      PROVE  u * per + h < tall * per
  <2>1. (tall - u - 1) * per \in Nat
    BY <1>2, ProductNat DEF Positive
  <2>2. (tall - u - 1) * per = tall * per - u * per - per
    BY DEF Positive
  <2>3. u * per \in Nat
    BY DEF Positive
  <2> QED BY <1>1, <1>2, <2>1, <2>2, <2>3
<1>3. ASSUME NEW u \in Nat, ~(u < tall)
      PROVE  (u - tall) * (per - 1) \in Nat
  BY <1>3, ProductNat DEF Positive
<1>4. CASE x < tall /\ y < tall
  <2>1. x * per + l = y * per + k
    BY <1>4 DEF Cell
  <2>2. x = y
    <3>1. /\ x * per <= x * per + l /\ x * per + l < x * per + per
          /\ y * per <= x * per + l /\ x * per + l < y * per + per
          /\ x * per + l \in Int
      BY <1>1, <1>4, <2>1
    <3> QED BY <3>1, FloorUnique
  <2> QED BY <1>1, <2>1, <2>2
<1>5. CASE ~(x < tall) /\ ~(y < tall)
  <2> DEFINE P == per - 1
             u == x - tall
             w == y - tall
  <2>1. /\ u * P + l = w * P + k
        /\ u * P \in Nat /\ w * P \in Nat
    <3>1. /\ Cell(x, l, per, tall) = tall * per + u * P + l
          /\ Cell(y, k, per, tall) = tall * per + w * P + k
      BY <1>5 DEF Cell
    <3>2. u * P \in Nat /\ w * P \in Nat
      BY <1>3, <1>5
    <3> HIDE DEF u, w, P
    <3>3. ASSUME NEW a \in Nat, NEW c \in Nat, NEW e \in Nat,
                 a + c + l = a + e + k
          PROVE  c + l = e + k
      BY <3>3
    <3>4. tall * per + u * P + l = tall * per + w * P + k
      BY <3>1
    <3> QED BY <1>1, <3>2, <3>3, <3>4
  <2>2. P \in Positive /\ l < P /\ k < P /\ u \in Int /\ w \in Int
    BY <1>5 DEF Positive
  <2> HIDE DEF P, u, w
  <2>3. u = w
    <3>1. /\ u * P <= u * P + l /\ u * P + l < u * P + P
          /\ w * P <= u * P + l /\ u * P + l < w * P + P
          /\ u * P + l \in Int
      BY <2>1, <2>2 DEF Positive
    <3> QED BY <2>2, <3>1, FloorUnique
  <2> QED BY <2>1, <2>3 DEF u, w
<1>6. CASE x < tall /\ ~(y < tall)
  <2>1. x * per + l < tall * per
    BY <1>2, <1>6
  <2>2. (y - tall) * (per - 1) \in Nat
    BY <1>3, <1>6
  <2> QED BY <1>1, <1>6, <2>1, <2>2 DEF Cell
<1>7. CASE ~(x < tall) /\ y < tall
  <2>1. y * per + k < tall * per
    BY <1>2, <1>7
  <2>2. (x - tall) * (per - 1) \in Nat
    BY <1>3, <1>7
  <2> QED BY <1>1, <1>7, <2>1, <2>2 DEF Cell
<1> QED BY <1>4, <1>5, <1>6, <1>7

LEMMA CellBelow ==
  ASSUME NEW per \in Positive, NEW tall \in Nat, NEW xcds \in Nat,
         NEW x \in Nat, NEW l \in Nat, x < xcds, tall <= xcds,
         l < per, x < tall \/ l < per - 1
  PROVE  /\ Cell(x, l, per, tall) \in Nat
         /\ Cell(x, l, per, tall) < tall * per + (xcds - tall) * (per - 1)
<1>1. tall * per \in Nat /\ (xcds - tall) * (per - 1) \in Nat /\ x * per \in Nat
  <2>1. xcds - tall \in Nat /\ per - 1 \in Nat /\ per \in Nat
    BY DEF Positive
  <2> QED BY <2>1, ProductNat
<1>2. CASE x < tall
  <2>1. (tall - x - 1) * per \in Nat
    BY <1>2, ProductNat DEF Positive
  <2>2. (tall - x - 1) * per = tall * per - x * per - per
    BY DEF Positive
  <2> QED BY <1>1, <1>2, <2>1, <2>2 DEF Cell, Positive
<1>3. CASE ~(x < tall)
  <2>1. (x - tall) * (per - 1) \in Nat /\ (xcds - x - 1) * (per - 1) \in Nat
    <3>1. x - tall \in Nat /\ xcds - x - 1 \in Nat /\ per - 1 \in Nat
      BY <1>3 DEF Positive
    <3> QED BY <3>1, ProductNat
  <2>2. (xcds - tall) * (per - 1)
          = (x - tall) * (per - 1) + (xcds - x - 1) * (per - 1) + (per - 1)
    BY DEF Positive
  <2> QED BY <1>1, <1>3, <2>1, <2>2 DEF Cell, Positive
<1> QED BY <1>2, <1>3

THEOREM RemapPermutes ==
  ASSUME NEW total \in Positive, NEW xcds \in Positive
  PROVE  /\ \A p \in 0..(total - 1) : remap_xcd(p, total, xcds) \in 0..(total - 1)
         /\ \A p1, p2 \in 0..(total - 1) :
              remap_xcd(p1, total, xcds) = remap_xcd(p2, total, xcds) => p1 = p2
<1>1. CASE xcds = 1
  BY <1>1 DEF remap_xcd
<1>2. CASE xcds # 1
  <2> DEFINE per == cdiv(total, xcds)
             tall == IF total % xcds = 0 THEN xcds ELSE total % xcds
             X(p) == p % xcds
             D(p) == p \div xcds
  <2>1. /\ per \in Positive /\ tall \in Positive /\ tall <= xcds
        /\ total = xcds * (per - 1) + tall
    <3> DEFINE c == (total + xcds - 1) \div xcds
               g == total \div xcds
    <3>1. c \in Nat /\ c * xcds <= total + xcds - 1 /\ total + xcds - 1 < c * xcds + xcds
      <4>1. total + xcds - 1 \in Nat
        BY DEF Positive
      <4> QED BY <4>1, DivFloor
    <3>2. g \in Nat /\ total = g * xcds + (total % xcds) /\ total % xcds \in 0..(xcds - 1)
      BY DivFloor DEF Positive
    <3>3. per = c
      BY DEF cdiv
    <3> HIDE DEF c, g
    <3>4. g * xcds \in Nat /\ (g + 1) * xcds = g * xcds + xcds /\ g * xcds = xcds * g
      BY <3>2 DEF Positive
    <3>5. CASE total % xcds = 0
      <4>1. c = g
        <5>1. total = g * xcds /\ g * xcds \in Nat
          BY <3>2, <3>4, <3>5
        <5>2. /\ g * xcds <= total + xcds - 1 /\ total + xcds - 1 < g * xcds + xcds
              /\ total + xcds - 1 \in Int
          BY <5>1 DEF Positive
        <5> QED BY <3>1, <3>2, <5>2, FloorUnique
      <4>2. g # 0
        BY <3>2, <3>4, <3>5 DEF Positive
      <4>3. xcds * (g - 1) + xcds = xcds * g
        BY <3>2 DEF Positive
      <4> QED BY <3>2, <3>3, <3>4, <3>5, <4>1, <4>2, <4>3 DEF Positive
    <3>6. CASE total % xcds # 0
      <4>1. c = g + 1
        <5>1. /\ (g + 1) * xcds <= total + xcds - 1
              /\ total + xcds - 1 < (g + 1) * xcds + xcds
              /\ total + xcds - 1 \in Int /\ g + 1 \in Int
          BY <3>2, <3>4, <3>6 DEF Positive
        <5> QED BY <3>1, <5>1, FloorUnique
      <4> QED BY <3>2, <3>3, <3>4, <3>6, <4>1 DEF Positive
    <3> QED BY <3>5, <3>6
  <2>2. ASSUME NEW p \in 0..(total - 1)
        PROVE  /\ X(p) \in Nat /\ D(p) \in Nat /\ X(p) < xcds
               /\ p = D(p) * xcds + X(p)
               /\ D(p) < per /\ (X(p) < tall \/ D(p) < per - 1)
    <3>1. /\ X(p) \in Nat /\ D(p) \in Nat /\ X(p) < xcds
          /\ p = D(p) * xcds + X(p)
      BY DEF Positive
    <3>2. D(p) * xcds + X(p) < xcds * (per - 1) + tall
      BY <2>1, <3>1 DEF Positive
    <3> HIDE DEF X, D, per, tall
    <3>3. xcds * (per - 1) \in Int /\ xcds * (per - 1) = (per - 1) * xcds
          /\ D(p) * xcds \in Int
      BY <2>1, <3>1 DEF Positive
    <3>4. D(p) < per
      <4>1. SUFFICES ASSUME per <= D(p) PROVE FALSE
        BY <2>1, <3>1 DEF Positive
      <4>2. (D(p) - per) * xcds \in Nat
        BY <2>1, <3>1, <4>1, ProductNat DEF Positive
      <4>3. (D(p) - per) * xcds = D(p) * xcds - (per - 1) * xcds - xcds
        BY <2>1, <3>1 DEF Positive
      <4> QED BY <2>1, <3>1, <3>2, <3>3, <4>2, <4>3 DEF Positive
    <3>5. ASSUME ~(X(p) < tall) PROVE D(p) < per - 1
      <4>1. SUFFICES ASSUME per - 1 <= D(p) PROVE FALSE
        BY <2>1, <3>1 DEF Positive
      <4>2. (D(p) - (per - 1)) * xcds \in Nat
        BY <2>1, <3>1, <4>1, ProductNat DEF Positive
      <4>3. (D(p) - (per - 1)) * xcds = D(p) * xcds - (per - 1) * xcds
        BY <2>1, <3>1 DEF Positive
      <4> QED BY <2>1, <3>1, <3>2, <3>3, <3>5, <4>2, <4>3 DEF Positive
    <3> QED BY <3>1, <3>4, <3>5
  <2>3. ASSUME NEW p \in 0..(total - 1)
        PROVE  remap_xcd(p, total, xcds) = Cell(X(p), D(p), per, tall)
    BY <1>2 DEF remap_xcd, Cell
  <2>4. tall * per + (xcds - tall) * (per - 1) = total
    <3> HIDE DEF per, tall
    <3>1. (xcds - tall) * (per - 1) = xcds * (per - 1) - tall * per + tall
      BY <2>1 DEF Positive
    <3>2. xcds * (per - 1) \in Int /\ tall * per \in Int
      BY <2>1 DEF Positive
    <3> QED BY <2>1, <3>1, <3>2 DEF Positive
  <2> HIDE DEF per, tall, X, D
  <2>5. ASSUME NEW p \in 0..(total - 1)
        PROVE  remap_xcd(p, total, xcds) \in 0..(total - 1)
    <3>1. /\ Cell(X(p), D(p), per, tall) \in Nat
          /\ Cell(X(p), D(p), per, tall) < tall * per + (xcds - tall) * (per - 1)
      BY <2>1, <2>2, CellBelow DEF Positive
    <3> QED BY <2>3, <2>4, <3>1 DEF Positive
  <2>6. ASSUME NEW p1 \in 0..(total - 1), NEW p2 \in 0..(total - 1),
               remap_xcd(p1, total, xcds) = remap_xcd(p2, total, xcds)
        PROVE  p1 = p2
    <3>1. Cell(X(p1), D(p1), per, tall) = Cell(X(p2), D(p2), per, tall)
      BY <2>3, <2>6
    <3>2. X(p1) = X(p2) /\ D(p1) = D(p2)
      BY <2>1, <2>2, <3>1, CellUnique DEF Positive
    <3> QED BY <2>2, <3>2
  <2> QED BY <2>5, <2>6
<1> QED BY <1>1, <1>2

-----------------------------------------------------------------------------
(* A launch: what WellFormed says in the words of the operators on it, and *)
(* that no two rows of queries share an address.                           *)

Abs(n) == IF n < 0 THEN -n ELSE n

(* What WellFormed says, in the words of the operators on a launch. *)
LEMMA LaunchFacts ==
  ASSUME WellFormed(launch)
  PROVE  /\ launch.num \in Int
         /\ launch.batch \in Positive /\ launch.max_q \in Positive /\ launch.max_k \in Positive
         /\ launch.Hq \in Positive /\ launch.Hk \in Positive /\ launch.xcds \in Positive
         /\ launch.window.causal \in BOOLEAN
         /\ launch.window.left \in Int /\ launch.window.right \in Int
<1>1. /\ launch.num \in Int
      /\ {launch.batch, launch.max_q, launch.max_k, launch.Hq, launch.Hk, launch.xcds}
           \subseteq Positive
      /\ launch.window \in [causal : BOOLEAN, left : Int, right : Int]
  BY DEF WellFormed
<1> QED BY <1>1

LEMMA LengthFacts ==
  ASSUME WellFormed(launch), launch.num # 0
  PROVE  LET n == Abs(launch.num)
         IN  /\ launch.cu_q \in [0..n -> Nat] /\ launch.cu_k \in [0..n -> Nat]
             /\ \A i, j \in 0..n : i <= j => launch.cu_q[i] <= launch.cu_q[j]
             /\ \A i, j \in 0..n : i <= j => launch.cu_k[i] <= launch.cu_k[j]
             /\ \A z \in 0..(n - 1) : /\ launch.cu_q[z+1] - launch.cu_q[z] <= launch.max_q
                                     /\ launch.cu_k[z+1] - launch.cu_k[z] <= launch.max_k
  BY DEF WellFormed, Abs

LEMMA BatchPositive ==
  ASSUME WellFormed(launch) PROVE Batch \in Positive /\ Batch \in Int
  BY LaunchFacts DEF Batch, Positive

LEMMA Lengths ==
  ASSUME WellFormed(launch), NEW z \in Entries
  PROVE  /\ SeqlenQ(z) \in Nat /\ SeqlenK(z) \in Nat
         /\ SeqlenQ(z) <= launch.max_q /\ SeqlenK(z) <= launch.max_k
<1>0. z \in Int /\ 0 <= z /\ z < Batch /\ Batch \in Int
  BY BatchPositive DEF Entries
<1>1. CASE launch.num = 0
  <2>1. SeqlenQ(z) = launch.max_q /\ SeqlenK(z) = launch.max_k
    BY <1>1 DEF SeqlenQ, SeqlenK
  <2> QED BY <2>1, LaunchFacts DEF Positive
<1>2. CASE launch.num # 0
  <2> DEFINE n == Abs(launch.num)
  <2>1. /\ launch.cu_q \in [0..n -> Nat] /\ launch.cu_k \in [0..n -> Nat]
        /\ \A i, j \in 0..n : i <= j => launch.cu_q[i] <= launch.cu_q[j]
        /\ \A i, j \in 0..n : i <= j => launch.cu_k[i] <= launch.cu_k[j]
        /\ \A y \in 0..(n - 1) : /\ launch.cu_q[y+1] - launch.cu_q[y] <= launch.max_q
                                /\ launch.cu_k[y+1] - launch.cu_k[y] <= launch.max_k
    BY <1>2, LengthFacts
  <2>2. n = Batch
    BY <1>2, LaunchFacts DEF Batch, Abs
  <2> HIDE DEF n
  <2>3. z \in 0..n /\ z + 1 \in 0..n /\ z \in 0..(n - 1) /\ z <= z + 1
    BY <1>0, <2>2
  <2>4. /\ launch.cu_q[z] \in Nat /\ launch.cu_q[z+1] \in Nat
        /\ launch.cu_k[z] \in Nat /\ launch.cu_k[z+1] \in Nat
        /\ launch.cu_q[z] <= launch.cu_q[z+1] /\ launch.cu_k[z] <= launch.cu_k[z+1]
        /\ launch.cu_q[z+1] - launch.cu_q[z] <= launch.max_q
        /\ launch.cu_k[z+1] - launch.cu_k[z] <= launch.max_k
    BY <2>1, <2>3
  <2>5. /\ SeqlenQ(z) = launch.cu_q[z+1] - launch.cu_q[z]
        /\ SeqlenK(z) = launch.cu_k[z+1] - launch.cu_k[z]
    BY <1>2 DEF SeqlenQ, SeqlenK
  <2> QED BY <2>4, <2>5
<1> QED BY <1>1, <1>2

LEMMA Starts ==
  ASSUME WellFormed(launch), NEW z \in Entries
  PROVE  /\ StartQ(z) \in Nat
         /\ launch.num > 0 => /\ lse_stride \in Nat
                              /\ StartQ(z) + SeqlenQ(z) <= lse_stride
         /\ \A y \in Entries : launch.num > 0 /\ z < y => StartQ(z) + SeqlenQ(z) <= StartQ(y)
<1>0. z \in Int /\ 0 <= z /\ z < Batch /\ Batch \in Int
  BY BatchPositive DEF Entries
<1>1. CASE ~(launch.num > 0)
  BY <1>1, LaunchFacts DEF StartQ
<1>2. CASE launch.num > 0
  <2> DEFINE n == launch.num
  <2>0. n \in Int /\ Batch = n /\ launch.num # 0 /\ Abs(launch.num) = n
    BY <1>2, LaunchFacts DEF Batch, Abs
  <2>1. /\ launch.cu_q \in [0..n -> Nat]
        /\ \A i, j \in 0..n : i <= j => launch.cu_q[i] <= launch.cu_q[j]
    BY <2>0, LengthFacts
  <2>2. SeqlenQ(z) = launch.cu_q[z+1] - launch.cu_q[z]
    BY <2>0 DEF SeqlenQ
  <2>3. z \in 0..n /\ z + 1 \in 0..n /\ n \in 0..n /\ z + 1 <= n
    BY <1>0, <2>0
  <2>4. ASSUME NEW y \in Entries, z < y
        PROVE  y \in 0..n /\ z + 1 <= y
    BY <1>0, <2>0, <2>4 DEF Entries
  <2>5. CASE launch.strides_q = None
    <3>1. /\ \A y \in Entries : StartQ(y) = launch.cu_q[y]
          /\ StartQ(z) = launch.cu_q[z]
          /\ lse_stride = launch.cu_q[n]
      BY <1>2, <2>0, <2>5 DEF StartQ, lse_stride
    <3> HIDE DEF n
    <3>2. /\ launch.cu_q[z] \in Nat /\ launch.cu_q[z+1] \in Nat /\ launch.cu_q[n] \in Nat
          /\ launch.cu_q[z+1] <= launch.cu_q[n]
      BY <2>1, <2>3
    <3>3. ASSUME NEW y \in Entries, z < y
          PROVE  launch.cu_q[z+1] <= launch.cu_q[y] /\ launch.cu_q[y] \in Nat
      BY <2>1, <2>3, <2>4, <3>3
    <3> QED BY <2>2, <3>1, <3>2, <3>3
  <2>6. CASE launch.strides_q # None
    <3>1. /\ \A y \in Entries : StartQ(y) = launch.strides_q[y]
          /\ StartQ(z) = launch.strides_q[z]
          /\ lse_stride = launch.strides_q[n]
      BY <1>2, <2>0, <2>6 DEF StartQ, lse_stride
    <3>2. /\ launch.strides_q \in [0..n -> Nat]
          /\ \A x, y \in 0..n :
               x < y => launch.strides_q[x] + launch.cu_q[x+1] - launch.cu_q[x]
                          <= launch.strides_q[y]
      BY <1>2, <2>0, <2>6 DEF WellFormed
    <3> HIDE DEF n
    <3>3. /\ launch.cu_q[z] \in Nat /\ launch.cu_q[z+1] \in Nat
          /\ launch.strides_q[z] \in Nat /\ launch.strides_q[n] \in Nat
      BY <2>1, <2>3, <3>2
    <3>4. launch.strides_q[z] + launch.cu_q[z+1] - launch.cu_q[z] <= launch.strides_q[n]
      <4>1. z < n
        BY <2>3, <2>0, <1>0
      <4> QED BY <2>3, <3>2, <4>1
    <3>5. ASSUME NEW y \in Entries, z < y
          PROVE  /\ launch.strides_q[z] + launch.cu_q[z+1] - launch.cu_q[z]
                      <= launch.strides_q[y]
                 /\ launch.strides_q[y] \in Nat
      BY <2>3, <2>4, <3>2, <3>5
    <3> QED BY <2>2, <3>1, <3>3, <3>4, <3>5
  <2> QED BY <2>5, <2>6
<1> QED BY <1>1, <1>2

(* Rows of different queries do not share an address. *)
LEMMA RowUnique ==
  ASSUME WellFormed(launch), NEW z \in Entries, NEW y \in Entries, NEW h, NEW g,
         NEW m \in Queries(z), NEW k \in Queries(y), RowAddr(z, h, m) = RowAddr(y, g, k)
  PROVE  z = y /\ h = g /\ m = k
<1>1. /\ batch_index(z) = batch_index(y) /\ h = g
      /\ StartQ(z) + m = StartQ(y) + k
  BY DEF RowAddr
<1>2. /\ z \in Int /\ y \in Int /\ StartQ(z) \in Nat /\ StartQ(y) \in Nat
      /\ m \in Nat /\ m < SeqlenQ(z) /\ SeqlenQ(z) \in Nat
      /\ k \in Nat /\ k < SeqlenQ(y) /\ SeqlenQ(y) \in Nat
  BY Starts, Lengths, BatchPositive DEF Entries, Queries
<1>3. CASE launch.num > 0
  <2>1. ~(z < y)
    <3>1. ASSUME z < y PROVE StartQ(z) + SeqlenQ(z) <= StartQ(y)
      BY <1>3, <3>1, Starts
    <3> QED BY <1>1, <1>2, <3>1
  <2>2. ~(y < z)
    <3>1. ASSUME y < z PROVE StartQ(y) + SeqlenQ(y) <= StartQ(z)
      BY <1>3, <3>1, Starts
    <3> QED BY <1>1, <1>2, <3>1
  <2>3. z = y
    BY <1>2, <2>1, <2>2
  <2> QED BY <1>1, <1>2, <2>3
<1>4. CASE ~(launch.num > 0)
  <2>1. StartQ(z) = 0 /\ StartQ(y) = 0 /\ batch_index(z) = z /\ batch_index(y) = y
    <3>1. launch.num \in Int /\ launch.num <= 0
      BY <1>4, LaunchFacts
    <3> QED BY <3>1 DEF StartQ, batch_index
  <2>2. z = y
    BY <1>1, <2>1
  <2>3. 0 + m = 0 + k
    BY <1>1, <2>1
  <2> QED BY <1>1, <1>2, <2>2, <2>3
<1> QED BY <1>3, <1>4

-----------------------------------------------------------------------------
(* The random number of an element, whichever tile it is met in.           *)

Stride == cdiv(launch.max_k, PHILOX_RN_PER_OFFSET)

Number(z, h, m, n) ==
  <<batch_philox_offset(z, h, Stride) + m * Stride + n \div PHILOX_RN_PER_OFFSET,
    n % PHILOX_RN_PER_OFFSET>>

Element(z, h, m, n) ==
  LET o == Operands(z, h, m, n)
  IN  [row |-> o.row, key |-> o.key, bias |-> o.bias, times |-> 1,
       number |-> Number(z, h, m, n)]

(* What row m of head h should be the sum of. *)
Exact(z, h, m) == {Element(z, h, m, n) : n \in Attended(z, m)}

LEMMA Constants ==
  /\ BLOCK_M \in Positive /\ BLOCK_N \in Positive /\ NUM_CU \in Positive
  /\ PHILOX_RN_PER_OFFSET \in Positive
  /\ BLOCK_M % PHILOX_RN_PER_OFFSET = 0 /\ BLOCK_N % PHILOX_RN_PER_OFFSET = 0
  /\ \A l \in Launches : WellFormed(l)
  BY AttnForwardAssumption

LEMMA CdivPositive ==
  ASSUME NEW x \in Positive, NEW y \in Positive PROVE cdiv(x, y) \in Positive
<1>1. x + y - 1 \in Nat
  BY DEF Positive
<1> DEFINE c == (x + y - 1) \div y
<1>2. c \in Nat /\ x + y - 1 < c * y + y
  BY <1>1, DivFloor
<1>3. c # 0
  <2>1. SUFFICES ASSUME c = 0 PROVE FALSE
    OBVIOUS
  <2>2. c * y = 0
    BY <2>1 DEF Positive
  <2> QED BY <1>2, <2>2 DEF Positive
<1> QED BY <1>2, <1>3 DEF cdiv, Positive

LEMMA MultipleMod ==
  ASSUME NEW x \in Nat, NEW per \in Positive PROVE (x * per) % per = 0
<1> DEFINE y == x * per
           q == y \div per
<1>1. y \in Nat
  BY DEF Positive
<1> HIDE DEF y
<1>2. q \in Nat /\ q * per <= y /\ y < q * per + per /\ y % per = y - q * per
  BY <1>1, DivFloor DEF Positive
<1>3. x * per <= y /\ y < x * per + per /\ x \in Int /\ y = x * per
  BY <1>1 DEF y, Positive
<1> HIDE DEF q
<1>4. q = x
  BY <1>1, <1>2, <1>3, FloorUnique
<1>5. y % per = 0
  BY <1>1, <1>2, <1>3, <1>4
<1> QED BY <1>5 DEF y

(* The first element of the block n lies in. *)
LEMMA FirstOfBlock ==
  ASSUME NEW B \in Positive, NEW per \in Positive, B % per = 0, NEW n \in Nat
  PROVE  n - (n % B) \in Nat /\ n - (n % B) <= n /\ (n - (n % B)) % per = 0
<1> DEFINE d == n \div B
           c == B \div per
<1>1. d \in Nat /\ n % B = n - d * B /\ d * B <= n
  BY DivFloor DEF Positive
<1>2. c \in Nat /\ B = c * per
  BY DivFloor DEF Positive
<1> HIDE DEF d, c
<1>3. d * B \in Nat /\ d * B = (d * c) * per /\ d * c \in Nat
  BY <1>1, <1>2 DEF Positive
<1>4. ((d * c) * per) % per = 0
  BY <1>3, MultipleMod
<1> QED BY <1>1, <1>3, <1>4

LEMMA NumberOfElement ==
  ASSUME WellFormed(launch), NEW z \in Entries, NEW h \in Heads,
         NEW x \in Nat, NEW y \in Nat, NEW m \in Nat, NEW n \in Nat,
         x <= m, y <= n, y % PHILOX_RN_PER_OFFSET = 0
  PROVE  DropoutNumber(z, h, x, y, m, n) = Number(z, h, m, n)
<1> DEFINE base == batch_philox_offset(z, h, Stride)
<1>1. Stride \in Nat
  BY CdivPositive, LaunchFacts, Constants DEF Stride, Positive
<1>2. base \in Nat
  <2>1. z \in Nat /\ h \in Nat /\ launch.Hq \in Nat /\ launch.max_q \in Nat
    BY LaunchFacts DEF Entries, Heads, Positive
  <2>2. z * launch.Hq \in Nat
    BY <2>1
  <2>3. (z * launch.Hq + h) * launch.max_q \in Nat
    BY <2>1, <2>2
  <2> QED BY <1>1, <2>3 DEF batch_philox_offset
<1>3. DropoutNumber(z, h, x, y, m, n)
        = dropout_number(base, x, y, m - x, n - y, Stride, PHILOX_RN_PER_OFFSET)
  BY DEF DropoutNumber, Stride
<1> HIDE DEF base
<1> DEFINE i == m - x
           j == n - y
<1>4. i \in Nat /\ j \in Nat /\ x + i = m /\ y + j = n
  OBVIOUS
<1> HIDE DEF i, j
<1>5. Numbered(base, Stride, PHILOX_RN_PER_OFFSET, x, y, i, j)
  BY <1>1, <1>2, <1>4, Constants, NumberedAlways
<1>6. dropout_number(base, x, y, i, j, Stride, PHILOX_RN_PER_OFFSET)
        = <<base + m * Stride + n \div PHILOX_RN_PER_OFFSET, n % PHILOX_RN_PER_OFFSET>>
  BY <1>4, <1>5 DEF Numbered
<1> QED BY <1>3, <1>6 DEF Number, base, i, j

-----------------------------------------------------------------------------
(* The intervals of a tile of the program, and the rows it stores.         *)

Pairs(iv) == iv.lb \in Int \X Int /\ iv.fb \in Int \X Int /\ iv.rb \in Int \X Int

LEMMA IntervalsArePairs ==
  ASSUME NEW BM \in Positive, NEW BN \in Positive,
         NEW sq \in Positive, NEW sk \in Positive, NEW start \in Nat,
         NEW window, window.left \in Int, window.right \in Int
  PROVE  Pairs(calculate_intervals(window, start, sq, sk, BM, BN))
<1> DEFINE v == cdiv(sk, BN)
           q == sk \div BN
           t == TruncDiv(sk - 1, BN)
           end == Smaller(start + BM, sq)
           over == start + BM > sq
<1>1. /\ v \in Int /\ q \in Int /\ t \in Int /\ end \in Int
  <2>1. sk \in Nat /\ sk - 1 \in Nat /\ BN \in Nat
    BY DEF Positive
  <2> QED BY <2>1, CdivPositive, DivFloor, TruncDivNat DEF Positive, Smaller
<1>2. ASSUME NEW iv, NEW lb, NEW fb, NEW rb, iv = Triple(lb, fb, rb),
             lb \in Int \X Int, fb \in Int \X Int, rb \in Int \X Int
      PROVE  Pairs(Trailing(iv, sk, BN))
  <2>1. iv.lb = lb /\ iv.fb = fb /\ iv.rb = rb /\ iv = [lb |-> lb, fb |-> fb, rb |-> rb]
    BY <1>2 DEF Triple
  <2>2. CASE iv.fb[1] * BN < sk /\ sk < iv.fb[2] * BN + BN
    <3>1. Trailing(iv, sk, BN) = [iv EXCEPT !.fb = <<iv.fb[1], q - 1>>, !.rb = <<q, q>>]
      BY <2>2 DEF Trailing
    <3> HIDE DEF q
    <3>2. <<fb[1], q - 1>> \in Int \X Int /\ <<q, q>> \in Int \X Int
      BY <1>1, <1>2
    <3> QED BY <1>2, <2>1, <3>1, <3>2 DEF Pairs
  <2>3. CASE ~(iv.fb[1] * BN < sk /\ sk < iv.fb[2] * BN + BN)
    BY <1>2, <2>1, <2>3 DEF Trailing, Pairs
  <2> QED BY <2>2, <2>3
<1>3. CASE ~window.causal
  <2>1. calculate_intervals(window, start, sq, sk, BM, BN)
          = Trailing(PlainIntervals(sk, over, BN), sk, BN)
    BY <1>3 DEF calculate_intervals
  <2>2. CASE over
    <3>1. PlainIntervals(sk, over, BN) = Triple(<<0, v - 1>>, <<-1, -2>>, <<-1, -2>>)
      BY <2>2 DEF PlainIntervals, Triple
    <3> HIDE DEF v, over
    <3>2. <<0, v - 1>> \in Int \X Int /\ <<-1, -2>> \in Int \X Int
      BY <1>1
    <3> QED BY <1>2, <2>1, <3>1, <3>2
  <2>3. CASE ~over
    <3>1. PlainIntervals(sk, over, BN) = Triple(<<-1, -2>>, <<0, q>>, <<q + 1, v - 1>>)
      BY <2>3 DEF PlainIntervals, Triple
    <3> HIDE DEF v, q, over
    <3>2. /\ <<-1, -2>> \in Int \X Int /\ <<0, q>> \in Int \X Int
          /\ <<q + 1, v - 1>> \in Int \X Int
      BY <1>1
    <3> QED BY <1>2, <2>1, <3>1, <3>2
  <2> QED BY <2>2, <2>3
<1>4. CASE window.causal
  <2> DEFINE lsec == <<div_rd(start - window.left, BN), div_rd(end - window.left - 1, BN)>>
             rsec == <<div_rd(start + window.right, BN), div_rd(end + window.right - 1, BN)>>
             vb == <<0, t>>
             apart == is_closed_interval_empty(closed_interval_isect(lsec, rsec)) /\ ~over
  <2>1. calculate_intervals(window, start, sq, sk, BM, BN)
          = Trailing(CausalIntervals(window, start, sq, sk, over, BM, BN), sk, BN)
    BY <1>4 DEF calculate_intervals
  <2>2. lsec \in Int \X Int /\ rsec \in Int \X Int /\ vb \in Int \X Int
    <3>1. /\ start - window.left \in Int /\ end - window.left - 1 \in Int
          /\ start + window.right \in Int /\ end + window.right - 1 \in Int
      BY <1>1
    <3>2. /\ div_rd(start - window.left, BN) \in Int
          /\ div_rd(end - window.left - 1, BN) \in Int
          /\ div_rd(start + window.right, BN) \in Int
          /\ div_rd(end + window.right - 1, BN) \in Int
      BY <3>1, DivRdFloor
    <3> HIDE DEF end, t
    <3> QED BY <1>1, <3>2
  <2>3. CASE apart
    <3>1. CausalIntervals(window, start, sq, sk, over, BM, BN)
            = Triple(closed_interval_isect(lsec, vb),
                     closed_interval_isect(<<lsec[2] + 1, rsec[1] - 1>>, vb),
                     closed_interval_isect(rsec, vb))
      BY <2>3 DEF CausalIntervals, Triple
    <3> HIDE DEF lsec, rsec, vb, apart, over
    <3>2. <<lsec[2] + 1, rsec[1] - 1>> \in Int \X Int
      BY <2>2
    <3> QED BY <1>2, <2>1, <2>2, <3>1, <3>2, IntersectionPair
  <2>4. CASE ~apart
    <3>1. CausalIntervals(window, start, sq, sk, over, BM, BN)
            = Triple(closed_interval_isect(<<lsec[1], rsec[2]>>, vb), <<-3, -4>>, <<-3, -4>>)
      BY <2>4 DEF CausalIntervals, Triple
    <3> HIDE DEF lsec, rsec, vb, apart, over
    <3>2. <<lsec[1], rsec[2]>> \in Int \X Int /\ <<-3, -4>> \in Int \X Int
      BY <2>2
    <3> QED BY <1>2, <2>1, <2>2, <3>1, <3>2, IntersectionPair
  <2> QED BY <2>3, <2>4
<1> QED BY <1>3, <1>4

LEMMA WindowBounds ==
  ASSUME WellFormed(launch), NEW z \in Entries
  PROVE  Window(z).left \in Int /\ Window(z).right \in Int
<1>1. /\ SeqlenQ(z) \in Int /\ SeqlenK(z) \in Int
      /\ launch.window.left \in Int /\ launch.window.right \in Int
  BY Lengths, LaunchFacts
<1> QED BY <1>1 DEF Window, parse_window, TopLeft, BottomRight

(* The rows a tile stores are queries of its entry, each in reach of it. *)
LEMMA TileFacts ==
  ASSUME WellFormed(launch), NEW t \in Tiles
  PROVE  /\ t.z \in Entries /\ t.h \in Heads /\ t.start \in Nat
         /\ t.start < SeqlenQ(t.z) /\ SeqlenQ(t.z) \in Positive
         /\ t = [z |-> t.z, h |-> t.h, start |-> t.start]
         /\ \A m \in TileRows(t) : /\ m \in Queries(t.z) /\ m \in Nat /\ m < SeqlenQ(t.z)
                                   /\ t.start <= m /\ m < t.start + BLOCK_M
<1>1. /\ t.z \in Entries /\ t.h \in Heads /\ t.start < SeqlenQ(t.z)
      /\ t = [z |-> t.z, h |-> t.h, start |-> t.start]
      /\ t.start \in {i * BLOCK_M : i \in 0..(TilesPerHead - 1)}
  BY DEF Tiles
<1>2. t.start \in Nat /\ BLOCK_M \in Nat
  <2>1. BLOCK_M \in Nat /\ TilesPerHead \in Nat
    BY Constants, CdivPositive, LaunchFacts DEF TilesPerHead, Positive
  <2>2. PICK i \in 0..(TilesPerHead - 1) : t.start = i * BLOCK_M
    BY <1>1
  <2> QED BY <2>1, <2>2
<1>3. SeqlenQ(t.z) \in Nat
  BY <1>1, Lengths
<1> QED BY <1>1, <1>2, <1>3 DEF TileRows, InBounds, Queries, Positive

-----------------------------------------------------------------------------
(* A tile stores, for each of its rows, exactly the elements it attends.   *)

TimesOf(t, m, n) ==
  Times(Intervals(t), Window(t.z), m, n, SeqlenQ(t.z), SeqlenK(t.z), BLOCK_N)

LEMMA TimesOfElement ==
  ASSUME WellFormed(launch), NEW t \in Tiles, NEW m \in TileRows(t), NEW n \in Nat,
         SeqlenK(t.z) > 0
  PROVE  TimesOf(t, m, n) = IF n \in Attended(t.z, m) THEN 1 ELSE 0
<1> DEFINE sq == SeqlenQ(t.z)
           sk == SeqlenK(t.z)
           w == Window(t.z)
<1>1. /\ t.z \in Entries /\ t.start \in Nat /\ sq \in Positive
      /\ m \in Nat /\ m < sq /\ t.start <= m /\ m < t.start + BLOCK_M
  BY TileFacts
<1>2. sk \in Positive
  BY <1>1, Lengths DEF Positive
<1>3. w.left \in Int /\ w.right \in Int
  BY <1>1, WindowBounds
<1>4. BLOCK_M \in Positive /\ BLOCK_N \in Positive
  BY Constants
<1> HIDE DEF sq, sk, w
<1>5. AddedIfAllowed(w, t.start, sq, sk, BLOCK_M, BLOCK_N, m, n)
  BY <1>1, <1>2, <1>3, <1>4, TileAdds
<1>6. TimesOf(t, m, n) = IF n < sk /\ Allowed(w, m, n) THEN 1 ELSE 0
  BY <1>5 DEF AddedIfAllowed, TimesOf, Intervals, sq, sk, w
<1>7. n \in Attended(t.z, m) <=> n < sk /\ Allowed(w, m, n)
  BY <1>2 DEF Attended, Keys, sk, w, Positive
<1> QED BY <1>6, <1>7

LEMMA ColumnsHold ==
  ASSUME NEW iv, Pairs(iv), NEW BN \in Positive, NEW n \in Nat,
         n \div BN \in Blocks(iv.lb) \cup Blocks(iv.fb) \cup Blocks(iv.rb)
  PROVE  n \in Columns(iv, BN)
<1> DEFINE b == n \div BN
           hi == Larger(iv.lb[2], Larger(iv.fb[2], iv.rb[2]))
<1>1. b \in Nat /\ b * BN <= n /\ n < b * BN + BN
  BY DivFloor
<1>2. /\ iv.lb[1] \in Int /\ iv.fb[1] \in Int /\ iv.rb[1] \in Int
      /\ iv.lb[2] \in Int /\ iv.fb[2] \in Int /\ iv.rb[2] \in Int
  BY DEF Pairs
<1>3. hi \in Int /\ b <= hi
  <2> HIDE DEF b
  <2>1. b \in iv.lb[1]..iv.lb[2] \/ b \in iv.fb[1]..iv.fb[2] \/ b \in iv.rb[1]..iv.rb[2]
    BY DEF Blocks, b
  <2> QED BY <1>2, <2>1 DEF Larger
<1>4. Columns(iv, BN)
        = {k \in 0..((hi + 1) * BN - 1) :
             k \div BN \in Blocks(iv.lb) \cup Blocks(iv.fb) \cup Blocks(iv.rb)}
  BY DEF Columns
<1> HIDE DEF b, hi
<1>5. (hi - b) * BN \in Nat /\ (hi - b) * BN = hi * BN - b * BN
      /\ (hi + 1) * BN = hi * BN + BN /\ hi * BN \in Int /\ b * BN \in Int /\ BN \in Int
  <2>1. hi - b \in Nat /\ BN \in Nat
    BY <1>1, <1>3 DEF Positive
  <2>2. (hi - b) * BN \in Nat
    BY <2>1, ProductNat
  <2> QED BY <1>1, <1>3, <2>1, <2>2
<1>6. n <= (hi + 1) * BN - 1
  BY <1>1, <1>5
<1>7. n \in 0..((hi + 1) * BN - 1)
  BY <1>5, <1>6
<1> QED BY <1>4, <1>7

LEMMA TileIntervals ==
  ASSUME WellFormed(launch), NEW t \in Tiles, SeqlenK(t.z) > 0
  PROVE  Pairs(Intervals(t))
<1>1. /\ t.z \in Entries /\ t.start \in Nat /\ SeqlenQ(t.z) \in Positive
  BY TileFacts
<1>2. SeqlenK(t.z) \in Positive
  BY <1>1, Lengths DEF Positive
<1>3. Window(t.z).left \in Int /\ Window(t.z).right \in Int
  BY <1>1, WindowBounds
<1> QED BY <1>1, <1>2, <1>3, Constants, IntervalsArePairs DEF Intervals

LEMMA TimesNone ==
  ASSUME NEW iv, NEW w, NEW m, NEW n, NEW sq, NEW sk, NEW BN,
         n \div BN \notin Blocks(iv.lb) \cup Blocks(iv.fb) \cup Blocks(iv.rb)
  PROVE  Times(iv, w, m, n, sq, sk, BN) = 0
  BY DEF Times

(* A tile of any kernel, of rows or of columns, walks over the keys the    *)
(* window admits, and counts each of them once.                            *)
LEMMA ColumnsExact ==
  ASSUME NEW BM \in Positive, NEW BN \in Positive,
         NEW sq \in Positive, NEW sk \in Positive, NEW start \in Nat,
         NEW w, w.left \in Int, w.right \in Int,
         NEW m \in Nat, start <= m, m < start + BM, m < sq,
         NEW iv, iv = calculate_intervals(w, start, sq, sk, BM, BN)
  PROVE  /\ {n \in Columns(iv, BN) : Times(iv, w, m, n, sq, sk, BN) > 0}
              = {n \in 0..(sk - 1) : Allowed(w, m, n)}
         /\ \A n \in 0..(sk - 1) : Allowed(w, m, n) =>
              n \in Nat /\ Times(iv, w, m, n, sq, sk, BN) = 1
         /\ \A n \in 0..(sk - 1) : Allowed(w, m, n) => n \in Columns(iv, BN)
<1>1. Pairs(iv)
  BY IntervalsArePairs
<1>2. ASSUME NEW n \in Nat
      PROVE  Times(iv, w, m, n, sq, sk, BN) = IF n < sk /\ Allowed(w, m, n) THEN 1 ELSE 0
  <2>1. AddedIfAllowed(w, start, sq, sk, BM, BN, m, n)
    BY TileAdds
  <2> QED BY <2>1 DEF AddedIfAllowed
<1>3. ASSUME NEW n \in Columns(iv, BN) PROVE n \in Nat
  <2> DEFINE hi == Larger(iv.lb[2], Larger(iv.fb[2], iv.rb[2]))
  <2>1. hi \in Int
    BY <1>1 DEF Pairs, Larger
  <2>2. (hi + 1) * BN - 1 \in Int
    <3> HIDE DEF hi
    <3>1. BN \in Int /\ hi + 1 \in Int
      BY <2>1 DEF Positive
    <3> QED BY <3>1
  <2>3. n \in 0..((hi + 1) * BN - 1)
    BY <1>3 DEF Columns
  <2> HIDE DEF hi
  <2> QED BY <2>2, <2>3
<1>4. \A n \in 0..(sk - 1) : n \in Nat /\ n < sk
  BY DEF Positive
<1>5. ASSUME NEW n \in 0..(sk - 1), Allowed(w, m, n) PROVE n \in Columns(iv, BN)
  <2>1. Times(iv, w, m, n, sq, sk, BN) = 1
    BY <1>2, <1>4, <1>5
  <2>2. n \div BN \in Blocks(iv.lb) \cup Blocks(iv.fb) \cup Blocks(iv.rb)
    <3>1. SUFFICES ASSUME n \div BN \notin Blocks(iv.lb) \cup Blocks(iv.fb) \cup Blocks(iv.rb)
                   PROVE  FALSE
      OBVIOUS
    <3>2. Times(iv, w, m, n, sq, sk, BN) = 0
      BY <3>1, TimesNone
    <3> QED BY <2>1, <3>2
  <2> QED BY <1>1, <1>4, <2>2, ColumnsHold
<1>6. ASSUME NEW n \in Columns(iv, BN), Times(iv, w, m, n, sq, sk, BN) > 0
      PROVE  n \in 0..(sk - 1) /\ Allowed(w, m, n)
  <2>1. n \in Nat
    BY <1>3, <1>6
  <2>2. n < sk /\ Allowed(w, m, n)
    <3>1. Times(iv, w, m, n, sq, sk, BN) = IF n < sk /\ Allowed(w, m, n) THEN 1 ELSE 0
      BY <1>2, <2>1
    <3> QED BY <1>6, <3>1
  <2> QED BY <2>1, <2>2 DEF Positive
<1>7. \A n \in 0..(sk - 1) : Allowed(w, m, n) => Times(iv, w, m, n, sq, sk, BN) = 1
  BY <1>2, <1>4
<1> QED BY <1>4, <1>5, <1>6, <1>7

LEMMA ColumnsAreKeys ==
  ASSUME WellFormed(launch), NEW t \in Tiles, NEW m \in TileRows(t), SeqlenK(t.z) > 0
  PROVE  {n \in Columns(Intervals(t), BLOCK_N) : TimesOf(t, m, n) > 0} = Attended(t.z, m)
<1> DEFINE sq == SeqlenQ(t.z)
           sk == SeqlenK(t.z)
           w == Window(t.z)
           iv == Intervals(t)
           start == t.start
<1>1. /\ t.z \in Entries /\ start \in Nat /\ sq \in Positive
      /\ m \in Nat /\ start <= m /\ m < start + BLOCK_M /\ m < sq
  BY TileFacts
<1>2. sk \in Positive /\ w.left \in Int /\ w.right \in Int
  BY <1>1, Lengths, WindowBounds DEF Positive
<1>3. iv = calculate_intervals(w, start, sq, sk, BLOCK_M, BLOCK_N)
  BY DEF Intervals
<1>4. Attended(t.z, m) = {n \in 0..(sk - 1) : Allowed(w, m, n)}
  BY DEF Attended, Keys
<1>5. \A n : TimesOf(t, m, n) = Times(iv, w, m, n, sq, sk, BLOCK_N)
  BY DEF TimesOf
<1> HIDE DEF sq, sk, w, iv, start
<1>6. {n \in Columns(iv, BLOCK_N) : Times(iv, w, m, n, sq, sk, BLOCK_N) > 0}
        = {n \in 0..(sk - 1) : Allowed(w, m, n)}
  <2>1. BLOCK_M \in Positive /\ BLOCK_N \in Positive
    BY Constants
  <2> QED BY <1>1, <1>2, <1>3, <2>1, ColumnsExact
<1> QED BY <1>4, <1>5, <1>6 DEF iv

(* What a tile sums into a row is what the row should be the sum of. *)
LEMMA AttendsExact ==
  ASSUME WellFormed(launch), NEW t \in Tiles, NEW m \in TileRows(t), SeqlenK(t.z) > 0
  PROVE  Attends(t, m) = Exact(t.z, t.h, m)
<1>1. Attends(t, m) = {Summand(t, m, n, TimesOf(t, m, n)) :
                         n \in {n \in Columns(Intervals(t), BLOCK_N) : TimesOf(t, m, n) > 0}}
  BY DEF Attends, TimesOf
<1>2. Attends(t, m) = {Summand(t, m, n, TimesOf(t, m, n)) : n \in Attended(t.z, m)}
  BY <1>1, ColumnsAreKeys
<1>3. ASSUME NEW n \in Attended(t.z, m)
      PROVE  Summand(t, m, n, TimesOf(t, m, n)) = Element(t.z, t.h, m, n)
  <2>1. n \in Nat
    <3>1. SeqlenK(t.z) \in Nat
      BY TileFacts, Lengths
    <3> QED BY <1>3, <3>1 DEF Attended, Keys
  <2>2. TimesOf(t, m, n) = 1
    BY <1>3, <2>1, TimesOfElement
  <2> DEFINE y == n - (n % BLOCK_N)
  <2>3. y \in Nat /\ y <= n /\ y % PHILOX_RN_PER_OFFSET = 0
    BY <2>1, Constants, FirstOfBlock
  <2>4. /\ t.z \in Entries /\ t.h \in Heads /\ t.start \in Nat /\ m \in Nat /\ t.start <= m
    BY TileFacts
  <2>5. DropoutNumber(t.z, t.h, t.start, y, m, n) = Number(t.z, t.h, m, n)
    <3> HIDE DEF y
    <3> QED BY <2>1, <2>3, <2>4, NumberOfElement
  <2> QED BY <2>2, <2>5 DEF Summand, Element
<1> QED BY <1>2, <1>3 DEF Exact

(* The rows of a tile with nothing to do attend to nothing. *)
LEMMA MaskedRows ==
  ASSUME WellFormed(launch), NEW t \in Tiles, NEW m \in TileRows(t), FullyMasked(t)
  PROVE  Attended(t.z, m) = {}
<1>1. t.z \in Entries
  BY TileFacts
<1>2. SeqlenK(t.z) \in Nat
  BY <1>1, Lengths
<1>3. CASE SeqlenK(t.z) = 0
  BY <1>3 DEF Attended, Keys
<1>4. CASE SeqlenK(t.z) > 0
  <2>1. SUFFICES ASSUME NEW n \in Attended(t.z, m) PROVE FALSE
    OBVIOUS
  <2>2. n \in Nat
    BY <1>2, <2>1 DEF Attended, Keys
  <2>3. TimesOf(t, m, n) = 1
    BY <1>4, <2>1, <2>2, TimesOfElement
  <2>4. Pairs(Intervals(t))
    BY <1>4, TileIntervals
  <2>5. /\ Blocks(Intervals(t).lb) = {} /\ Blocks(Intervals(t).fb) = {}
        /\ Blocks(Intervals(t).rb) = {}
    BY <2>4 DEF FullyMasked, NothingToDo, is_closed_interval_empty, Blocks, Pairs
  <2>6. TimesOf(t, m, n) = 0
    BY <2>5, TimesNone DEF TimesOf
  <2> QED BY <2>3, <2>6
<1> QED BY <1>2, <1>3, <1>4

-----------------------------------------------------------------------------
(* An operator on the launch alone does not change in a step, for the      *)
(* launch does not.                                                        *)

LEMMA AddressesStay ==
  ASSUME launch' = launch
  PROVE  /\ Entries' = Entries /\ Heads' = Heads /\ Grid' = Grid /\ NumTiles' = NumTiles
         /\ Persistent' = Persistent /\ TilesPerHead' = TilesPerHead
         /\ \A z : /\ SeqlenQ(z)' = SeqlenQ(z) /\ SeqlenK(z)' = SeqlenK(z)
                   /\ Queries(z)' = Queries(z) /\ Keys(z)' = Keys(z)
                   /\ Window(z)' = Window(z)
         /\ \A z, h, m : RowAddr(z, h, m)' = RowAddr(z, h, m)
         /\ \A z, h, m : LseAddr(z, h, m)' = LseAddr(z, h, m)
<1>1. Batch' = Batch /\ TilesPerHead' = TilesPerHead /\ Persistent' = Persistent
  BY DEF Batch, TilesPerHead, Persistent
<1>2. Entries' = Entries /\ Heads' = Heads
  BY <1>1 DEF Entries, Heads
<1>3. NumTiles' = NumTiles
  BY <1>1 DEF NumTiles
<1>4. Grid' = Grid
  BY <1>1, <1>3 DEF Grid
<1>5. \A z : SeqlenQ(z)' = SeqlenQ(z) /\ SeqlenK(z)' = SeqlenK(z)
  BY DEF SeqlenQ, SeqlenK
<1>6. \A z : Queries(z)' = Queries(z) /\ Keys(z)' = Keys(z) /\ Window(z)' = Window(z)
  BY <1>5 DEF Queries, Keys, Window
<1>7. \A z : /\ batch_index(z)' = batch_index(z) /\ StartQ(z)' = StartQ(z)
             /\ StartK(z)' = StartK(z)
  BY DEF batch_index, StartQ, StartK
<1>8. \A z, h, m : RowAddr(z, h, m)' = RowAddr(z, h, m)
  BY <1>7 DEF RowAddr
<1>9. \A z, h, m : LseAddr(z, h, m)' = LseAddr(z, h, m)
  <2>1. lse_stride' = lse_stride
    BY DEF lse_stride
  <2> QED BY <1>7, <2>1 DEF LseAddr
<1> QED BY <1>1, <1>2, <1>3, <1>4, <1>5, <1>6, <1>8, <1>9

LEMMA TilesStay ==
  ASSUME launch' = launch
  PROVE  /\ \A w : Tile(w)' = Tile(w)
         /\ Tiles' = Tiles
         /\ \A t : FullyMasked(t)' <=> FullyMasked(t)
         /\ Overruns' <=> Overruns
<1>1. \A w : Tile(w)' = Tile(w)
  BY AddressesStay DEF Tile
<1>2. Tiles' = Tiles
  BY AddressesStay DEF Tiles
<1>3. \A t : Intervals(t)' = Intervals(t)
  BY AddressesStay DEF Intervals
<1>4. \A t : FullyMasked(t)' <=> FullyMasked(t)
  BY <1>3 DEF FullyMasked
<1>5. Overruns' <=> Overruns
  BY <1>2, <1>4, AddressesStay DEF Overruns
<1> QED BY <1>1, <1>2, <1>4, <1>5

LEMMA RowsStay ==
  ASSUME launch' = launch
  PROVE  \A z, h, m : Attended(z, m)' = Attended(z, m) /\ Exact(z, h, m)' = Exact(z, h, m)
<1>1. \A z, m : Attended(z, m)' = Attended(z, m)
  BY AddressesStay DEF Attended
<1>2. Stride' = Stride
  BY DEF Stride
<1>3. \A z, h, m, n : Number(z, h, m, n)' = Number(z, h, m, n)
  BY <1>2 DEF Number, batch_philox_offset
<1>4. \A z, h, m, n : Operands(z, h, m, n)' = Operands(z, h, m, n)
  BY AddressesStay DEF Operands, KeyAddr, GroupSize, BiasAddr, batch_index, StartK
<1>5. \A z, h, m, n : Element(z, h, m, n)' = Element(z, h, m, n)
  BY <1>3, <1>4 DEF Element
<1>6. \A z, h, m : Exact(z, h, m)' = Exact(z, h, m)
  BY <1>1, <1>5 DEF Exact
<1> QED BY <1>1, <1>6

-----------------------------------------------------------------------------
(* The tile a program works on is one of the attention's.                  *)

LEMMA DivBelow ==
  ASSUME NEW x \in Nat, NEW y \in Positive, NEW c \in Nat, x < c * y
  PROVE  x \div y \in Nat /\ x \div y < c
<1> DEFINE d == x \div y
<1>1. d \in Nat /\ d * y <= x
  BY DivFloor
<1> HIDE DEF d
<1>2. d < c
  <2>1. SUFFICES ASSUME c <= d PROVE FALSE
    BY <1>1
  <2>2. (d - c) * y \in Nat
    BY <1>1, <2>1, ProductNat DEF Positive
  <2>3. (d - c) * y = d * y - c * y /\ d * y \in Int /\ c * y \in Int
    BY <1>1 DEF Positive
  <2> QED BY <1>1, <2>2, <2>3
<1> QED BY <1>1, <1>2 DEF d

LEMMA ModBelow ==
  ASSUME NEW x \in Nat, NEW y \in Positive PROVE x % y \in Nat /\ x % y < y
  BY DEF Positive

(* Every program takes a tile of the launch; without varlen every tile has *)
(* a row.                                                                  *)
TileFrame ==
  [z : Entries, h : Heads, start : {i * BLOCK_M : i \in 0..(TilesPerHead - 1)}]

LEMMA PersistentTile ==
  ASSUME WellFormed(launch), Persistent, NEW w, w.tile \in Nat, w.tile < NumTiles
  PROVE  Tile(w) \in TileFrame
<1> DEFINE T == TilesPerHead
           P == T * launch.Hq
           x == w.tile % P
<1>1. T \in Positive /\ launch.Hq \in Positive /\ launch.batch \in Positive /\ launch.num = 0
  BY Constants, CdivPositive, LaunchFacts DEF TilesPerHead, Persistent
<1>2. P \in Positive
  BY <1>1 DEF Positive
<1>3. w.tile < launch.batch * P
  <2>1. NumTiles = T * launch.Hq * launch.batch
    BY DEF NumTiles
  <2>2. T * launch.Hq * launch.batch = launch.batch * P
    BY <1>1 DEF Positive
  <2> QED BY <2>1, <2>2
<1> HIDE DEF P, T
<1>4. w.tile \div P \in Nat /\ w.tile \div P < launch.batch
  BY <1>1, <1>2, <1>3, DivBelow DEF Positive
<1>5. x \in Nat /\ x < P
  BY <1>2, ModBelow
<1> HIDE DEF x
<1>6. P = launch.Hq * T
  BY <1>1 DEF P, T, Positive
<1>7. x \div T \in Nat /\ x \div T < launch.Hq
  BY <1>1, <1>5, <1>6, DivBelow DEF Positive
<1>8. x % T \in Nat /\ x % T < T
  BY <1>1, <1>5, ModBelow
<1>9. Tile(w) = [z |-> w.tile \div P, h |-> x \div T, start |-> (x % T) * BLOCK_M]
  BY DEF Tile, P, T, x
<1>10. Entries = 0..(launch.batch - 1) /\ Heads = 0..(launch.Hq - 1)
  BY <1>1 DEF Entries, Heads, Batch
<1>11. x % T \in 0..(T - 1)
  BY <1>1, <1>8 DEF Positive
<1>12. w.tile \div P \in Entries /\ x \div T \in Heads
  BY <1>1, <1>4, <1>7, <1>10 DEF Positive
<1> QED BY <1>9, <1>11, <1>12 DEF TileFrame, T

LEMMA GridTile ==
  ASSUME WellFormed(launch), ~Persistent, NEW w, w.pid \in Grid
  PROVE  Tile(w) \in TileFrame
<1>1. launch.Hq \in Positive /\ launch.xcds \in Positive
  BY LaunchFacts
<1>2. CASE launch.xcds > 1
  <2>1. w.pid \in (0..(launch.Hq - 1)) \X (0..(TilesPerHead - 1)) \X (0..(Batch - 1))
    BY <1>2 DEF Grid
  <2>2. /\ w.pid[1] \in 0..(launch.Hq - 1) /\ w.pid[2] \in 0..(TilesPerHead - 1)
        /\ w.pid[3] \in Entries
    BY <2>1 DEF Entries
  <2>3. remap_xcd(w.pid[1], launch.Hq, launch.xcds) \in Heads
    BY <1>1, <2>2, RemapPermutes DEF Heads
  <2>4. Tile(w) = [z |-> w.pid[3], h |-> remap_xcd(w.pid[1], launch.Hq, launch.xcds),
                   start |-> w.pid[2] * BLOCK_M]
    BY <1>2 DEF Tile
  <2> QED BY <2>2, <2>3, <2>4 DEF TileFrame
<1>3. CASE ~(launch.xcds > 1)
  <2>1. w.pid \in (0..(TilesPerHead - 1)) \X (0..(launch.Hq - 1)) \X (0..(Batch - 1))
    BY <1>3 DEF Grid
  <2>2. /\ w.pid[2] \in Heads /\ w.pid[1] \in 0..(TilesPerHead - 1)
        /\ w.pid[3] \in Entries
    BY <2>1 DEF Entries, Heads
  <2>3. Tile(w) = [z |-> w.pid[3], h |-> w.pid[2], start |-> w.pid[1] * BLOCK_M]
    BY <1>3 DEF Tile
  <2> QED BY <2>2, <2>3 DEF TileFrame
<1> QED BY <1>2, <1>3

LEMMA TileOfProgram ==
  ASSUME WellFormed(launch), NEW w, w.pid \in Grid, w.tile \in Nat, w.tile < NumTiles
  PROVE  Tile(w) \in TileFrame
  BY PersistentTile, GridTile

(* A tile that is not past the end of its sequence has a row. *)
LEMMA TileHasRows ==
  ASSUME WellFormed(launch), NEW t \in TileFrame,
         ~(launch.num # 0 /\ t.start >= SeqlenQ(t.z))
  PROVE  t \in Tiles
<1>1. PICK i \in 0..(TilesPerHead - 1) : t.start = i * BLOCK_M
  BY DEF TileFrame
<1>2. t.start \in Nat /\ BLOCK_M \in Positive /\ launch.max_q \in Positive
  BY <1>1, Constants, LaunchFacts DEF Positive
<1>3. t.z \in Entries
  BY DEF TileFrame
<1>4. t.start < SeqlenQ(t.z)
  <2>1. CASE launch.num # 0
    BY <1>2, <1>3, <2>1, Lengths
  <2>2. CASE launch.num = 0
    <3>1. SeqlenQ(t.z) = launch.max_q
      BY <2>2 DEF SeqlenQ
    <3> DEFINE v == (launch.max_q - 1) \div BLOCK_M
    <3>2. TilesPerHead - 1 = v
      BY <1>2, KeyBlocks, 0 \in Nat DEF TilesPerHead
    <3>3. v \in Nat /\ v * BLOCK_M <= launch.max_q - 1
      <4>1. launch.max_q - 1 \in Nat
        BY <1>2 DEF Positive
      <4> QED BY <1>2, <4>1, DivFloor
    <3> HIDE DEF v
    <3>4. (v - i) * BLOCK_M \in Nat /\ (v - i) * BLOCK_M = v * BLOCK_M - i * BLOCK_M
          /\ v * BLOCK_M \in Int /\ i * BLOCK_M \in Int
      <4>1. v - i \in Nat /\ BLOCK_M \in Nat
        BY <1>2, <3>2, <3>3 DEF Positive
      <4>2. (v - i) * BLOCK_M \in Nat
        BY <4>1, ProductNat
      <4> QED BY <3>3, <4>1, <4>2
    <3>5. launch.max_q \in Int
      BY <1>2 DEF Positive
    <3> QED BY <1>1, <3>1, <3>3, <3>4, <3>5
  <2> QED BY <2>1, <2>2
<1> QED BY <1>4 DEF TileFrame, Tiles

-----------------------------------------------------------------------------
(* The inductive invariant of the launches: the shape of the state, and    *)
(* what an address of Out and one of L may hold.                           *)

Kernels == {"forward", "encode", "preprocess", "dk_dv", "dq", "fuse", "done"}

Programs ==
  [pc : {"loop", "zero", "zero_l", "store_l", "store_out", "next"},
   pid : Grid, continue : BOOLEAN, tile : Nat]

(* A workgroup that has decided what its tile needs has one with rows. *)
Program(w) ==
  /\ w.pc \in {"zero", "zero_l", "store_l", "store_out"} => Tile(w) \in Tiles
  /\ w.pc \in {"zero", "zero_l"} => FullyMasked(Tile(w))

Shape ==
  /\ launch \in Launches
  /\ kernel \in Kernels /\ counter \in Nat
  /\ kernel = "forward" => grid \subseteq Grid
  /\ wg \in [Slots -> {Idle} \cup Programs]
  /\ \A c \in Slots : wg[c] # Idle => Program(wg[c])

(* What an address of Out, and one of L, may hold. *)
RightRow(a, row) ==
  \E z \in Entries, h \in Heads : \E m \in Queries(z) :
    a = RowAddr(z, h, m) /\ (SeqlenK(z) > 0 => row = Exact(z, h, m))

LRows(z) == IF launch.num > 0 THEN Queries(z) ELSE 0..(launch.max_q - 1)

RightL(a, entry) ==
  \E z \in Entries, h \in Heads : \E m \in LRows(z) :
    /\ a = LseAddr(z, h, m) /\ entry.row = <<z, h, m>>
    /\ entry.inf /\ m \in Queries(z) => Attended(z, m) = {}

RowsRight == \A a \in DOMAIN Out : RightRow(a, Out[a])
LRight == ~Overruns => \A a \in DOMAIN L : RightL(a, L[a])

LEMMA ShapeStays ==
  ASSUME launch' = launch
  PROVE  /\ Programs' = Programs
         /\ \A w : Program(w)' <=> Program(w)
         /\ \A a, row : RightRow(a, row)' <=> RightRow(a, row)
         /\ \A a, entry : RightL(a, entry)' <=> RightL(a, entry)
<1>1. Programs' = Programs
  BY AddressesStay DEF Programs
<1>2. \A w : Program(w)' <=> Program(w)
  BY <1>1, TilesStay DEF Program
<1>3. \A a, row : RightRow(a, row)' <=> RightRow(a, row)
  BY AddressesStay, RowsStay DEF RightRow
<1>4. \A z : LRows(z)' = LRows(z)
  BY AddressesStay DEF LRows
<1>5. \A a, entry : RightL(a, entry)' <=> RightL(a, entry)
  BY <1>4, AddressesStay, RowsStay DEF RightL
<1> QED BY <1>1, <1>2, <1>3, <1>5

(* A step of one workgroup keeps the shape if it keeps that of its own. *)
LEMMA ShapeKept ==
  ASSUME Shape, launch' = launch, kernel' = kernel, counter' \in Nat, grid' \subseteq grid,
         NEW c \in Slots, NEW w, wg' = [wg EXCEPT ![c] = w],
         w \in {Idle} \cup Programs, w # Idle => Program(w)
  PROVE  Shape'
<1>1. launch' \in Launches /\ kernel' \in Kernels
  BY DEF Shape
<1>2. kernel' = "forward" => grid' \subseteq Grid'
  BY AddressesStay DEF Shape
<1>3. wg \in [Slots -> {Idle} \cup Programs]
  BY DEF Shape
<1>4. /\ wg' \in [Slots -> {Idle} \cup Programs]
      /\ \A d \in Slots : wg'[d] = IF d = c THEN w ELSE wg[d]
  BY <1>3
<1>5. (wg \in [Slots -> {Idle} \cup Programs])'
  BY <1>4, ShapeStays DEF Idle
<1>6. \A d \in Slots : wg[d] # Idle => Program(wg[d])
  BY DEF Shape
<1>7. \A d \in Slots : wg'[d] # Idle => Program(wg'[d])
  BY <1>4, <1>6
<1>8. ASSUME NEW d \in Slots, NEW v, v = wg'[d], (wg[d] # Idle)'
      PROVE  Program(wg[d])'
  <2>1. Program(v)
    BY <1>7, <1>8 DEF Idle
  <2>2. Program(v)'
    BY <2>1, ShapeStays
  <2> QED BY <1>8, <2>2
<1>9. (\A d \in Slots : wg[d] # Idle => Program(wg[d]))'
  BY <1>8 DEF Idle
<1> QED BY <1>1, <1>2, <1>5, <1>9 DEF Shape

-----------------------------------------------------------------------------
(* The shape is kept by the steps of the forward programs.                 *)

At(p, place, go, tile) == [pc |-> place, pid |-> p.pid, continue |-> go, tile |-> tile]

LEMMA MovedOn ==
  ASSUME NEW p, p \in Programs, NEW go, NEW place
  PROVE  [[p EXCEPT !.continue = go] EXCEPT !.pc = place] = At(p, place, go, p.tile)
<1>1. p = [pc |-> p.pc, pid |-> p.pid, continue |-> p.continue, tile |-> p.tile]
  BY DEF Programs
<1>2. [p EXCEPT !.continue = go]
        = [pc |-> p.pc, pid |-> p.pid, continue |-> go, tile |-> p.tile]
  BY <1>1
<1> DEFINE q == [pc |-> p.pc, pid |-> p.pid, continue |-> go, tile |-> p.tile]
<1>3. [q EXCEPT !.pc = place]
        = [pc |-> place, pid |-> p.pid, continue |-> go, tile |-> p.tile]
  OBVIOUS
<1> QED BY <1>2, <1>3 DEF At

LEMMA SameTile ==
  ASSUME NEW p, NEW place, NEW go PROVE Tile(At(p, place, go, p.tile)) = Tile(p)
  BY DEF At, Tile

LEMMA AtPrograms ==
  ASSUME NEW p \in Programs, NEW go, go \in BOOLEAN, NEW tile, tile \in Nat,
         NEW place, place \in {"loop", "zero", "zero_l", "store_l", "store_out", "next"}
  PROVE  At(p, place, go, tile) \in Programs /\ At(p, place, go, tile).pc = place
  BY DEF At, Programs

LEMMA WorkingSlot ==
  ASSUME Shape, NEW c \in Slots, wg[c].pc # "idle"
  PROVE  wg[c] \in Programs /\ Program(wg[c]) /\ WellFormed(launch)
<1>1. wg[c] # Idle
  BY DEF Idle
<1>2. wg[c] \in {Idle} \cup Programs
  BY DEF Shape
<1> QED BY <1>1, <1>2, Constants DEF Shape

(* What is left in a workgroup's slot by the steps that only move it on. *)
LEMMA GotoAt ==
  ASSUME Shape, NEW c \in Slots, wg[c].pc # "idle", NEW place, Goto(c, place)
  PROVE  wg' = [wg EXCEPT ![c] = At(wg[c], place, wg[c].continue, wg[c].tile)]
<1>1. wg[c] \in [pc : {"loop", "zero", "zero_l", "store_l", "store_out", "next"},
                 pid : Grid, continue : BOOLEAN, tile : Nat]
  BY WorkingSlot DEF Programs
<1>2. [wg[c] EXCEPT !.pc = place] = At(wg[c], place, wg[c].continue, wg[c].tile)
  BY <1>1 DEF At
<1>3. wg' = [wg EXCEPT ![c] = [wg[c] EXCEPT !.pc = place]]
  BY DEF Goto
<1> QED BY <1>2, <1>3

LEMMA ShapeStart ==
  ASSUME Shape, NEW c \in Slots, Start(c), kernel = "forward", kernel' = kernel PROVE Shape'
<1>1. PICK p \in grid :
        /\ grid' = grid \ {p}
        /\ wg' = [wg EXCEPT ![c] = [pc |-> "loop", pid |-> p, continue |-> TRUE,
                                    tile |-> IF Persistent THEN counter ELSE 0]]
  BY DEF Start
<1> DEFINE w == [pc |-> "loop", pid |-> p, continue |-> TRUE,
                 tile |-> IF Persistent THEN counter ELSE 0]
<1>2. counter \in Nat /\ p \in Grid
  BY DEF Shape
<1>3. w \in {Idle} \cup Programs /\ Program(w)
  BY <1>2 DEF Programs, Program
<1>4. counter' \in Nat /\ grid' \subseteq grid /\ launch' = launch
  BY <1>1, <1>2 DEF Start
<1> HIDE DEF w
<1>5. wg' = [wg EXCEPT ![c] = w]
  BY <1>1 DEF w
<1> QED BY <1>3, <1>4, <1>5, ShapeKept

LEMMA ShapeLoop ==
  ASSUME Shape, NEW c \in Slots, Loop(c), kernel' = kernel PROVE Shape'
<1> DEFINE p == wg[c]
           t == Tile(p)
           past == launch.num # 0 /\ t.start >= SeqlenQ(t.z)
           place == IF ~p.continue \/ past THEN "next"
                    ELSE IF launch.window.causal /\ NothingToDo(Intervals(t))
                    THEN "zero" ELSE "store_l"
           go == p.continue /\ ~past
           w == At(p, place, go, p.tile)
<1>1. /\ p \in Programs /\ WellFormed(launch) /\ p.tile < NumTiles
  BY WorkingSlot DEF Loop
<1>2. p \in [pc : {"loop", "zero", "zero_l", "store_l", "store_out", "next"},
             pid : Grid, continue : BOOLEAN, tile : Nat]
  BY <1>1 DEF Programs
<1>3. wg' = [wg EXCEPT ![c].continue = go, ![c].pc = place]
  BY DEF Loop
<1>4. wg' = [wg EXCEPT ![c] = [[p EXCEPT !.continue = go] EXCEPT !.pc = place]]
  <2>1. wg \in [Slots -> {Idle} \cup Programs]
    BY DEF Shape
  <2> HIDE DEF go, place
  <2> QED BY <1>3, <2>1
<1>5. [[p EXCEPT !.continue = go] EXCEPT !.pc = place] = w
  <2> HIDE DEF go, place, p
  <2> QED BY <1>1, MovedOn
<1>6. t \in TileFrame
  <2>1. p.pid \in Grid /\ p.tile \in Nat
    BY <1>2
  <2> QED BY <1>1, <2>1, TileOfProgram
<1>7. ASSUME place # "next" PROVE t \in Tiles
  <2>1. ~past
    BY <1>7
  <2> HIDE DEF t
  <2> QED BY <1>1, <1>6, <2>1, TileHasRows
<1>8. ASSUME place \in {"zero", "zero_l"} PROVE FullyMasked(t)
  BY <1>8 DEF FullyMasked
<1>9. place \in {"next", "zero", "store_l"}
  OBVIOUS
<1>10. Tile(w) = t
  BY SameTile
<1>11. w \in Programs /\ w.pc = place
  <2>1. go \in BOOLEAN /\ p.tile \in Nat
    BY <1>2
  <2>2. place \in {"loop", "zero", "zero_l", "store_l", "store_out", "next"}
    BY <1>9
  <2> HIDE DEF place, go, p
  <2> QED BY <1>1, <2>1, <2>2, AtPrograms
<1>12. Program(w)
  <2> HIDE DEF place, w, t
  <2> QED BY <1>7, <1>8, <1>9, <1>10, <1>11 DEF Program
<1>13. counter' \in Nat /\ grid' \subseteq grid /\ launch' = launch
  BY DEF Loop, Shape
<1> HIDE DEF w
<1>14. wg' = [wg EXCEPT ![c] = w]
  BY <1>4, <1>5
<1> QED BY <1>11, <1>12, <1>13, <1>14, ShapeKept

(* The stores move a workgroup on with its tile. *)
LEMMA ShapeGoto ==
  ASSUME Shape, NEW c \in Slots, wg[c].pc \in {"zero", "store_l", "store_out"},
         NEW place \in {"zero_l", "store_out", "next"},
         place = "zero_l" => wg[c].pc = "zero", Goto(c, place),
         UNCHANGED <<launch, grid, counter, kernel>>
  PROVE  Shape'
<1> DEFINE w == At(wg[c], place, wg[c].continue, wg[c].tile)
<1>1. wg[c] \in Programs /\ Program(wg[c])
  BY WorkingSlot
<1>2. wg' = [wg EXCEPT ![c] = w]
  BY GotoAt
<1>3. Tile(w) = Tile(wg[c])
  BY SameTile
<1>4. w \in Programs /\ w.pc = place
  <2>1. wg[c].continue \in BOOLEAN /\ wg[c].tile \in Nat
    BY <1>1 DEF Programs
  <2> QED BY <1>1, <2>1, AtPrograms
<1>5. counter' \in Nat /\ grid' \subseteq grid /\ launch' = launch
  BY DEF Shape
<1> HIDE DEF w
<1>6. Program(w)
  BY <1>1, <1>3, <1>4 DEF Program
<1> QED BY <1>2, <1>4, <1>5, <1>6, ShapeKept

-----------------------------------------------------------------------------
(* The shape is kept by every step.                                        *)

LEMMA NumTilesNat == ASSUME WellFormed(launch) PROVE NumTiles \in Nat
<1>1. TilesPerHead \in Nat /\ launch.Hq \in Nat /\ launch.batch \in Nat
  BY Constants, CdivPositive, LaunchFacts DEF TilesPerHead, Positive
<1>2. TilesPerHead * launch.Hq \in Nat
  BY <1>1
<1>3. TilesPerHead * launch.Hq * launch.batch \in Nat
  BY <1>1, <1>2
<1> QED BY <1>3 DEF NumTiles

LEMMA ShapeNextTile ==
  ASSUME Shape, NEW c \in Slots, NextTile(c), kernel' = kernel PROVE Shape'
<1> DEFINE p == wg[c]
           tile == IF Persistent THEN counter ELSE NumTiles
           w == At(p, "loop", p.continue, tile)
<1>1. p \in Programs /\ WellFormed(launch)
  BY WorkingSlot DEF NextTile
<1>2. wg' = [wg EXCEPT ![c].pc = "loop", ![c].tile = tile]
  BY DEF NextTile
<1>3. wg' = [wg EXCEPT ![c] = [[p EXCEPT !.pc = "loop"] EXCEPT !.tile = tile]]
  <2>1. wg \in [Slots -> {Idle} \cup Programs]
    BY DEF Shape
  <2> HIDE DEF tile
  <2> QED BY <1>2, <2>1
<1>4. [[p EXCEPT !.pc = "loop"] EXCEPT !.tile = tile] = w
  <2> HIDE DEF tile, p
  <2>1. p = [pc |-> p.pc, pid |-> p.pid, continue |-> p.continue, tile |-> p.tile]
    BY <1>1 DEF Programs
  <2>2. [p EXCEPT !.pc = "loop"]
          = [pc |-> "loop", pid |-> p.pid, continue |-> p.continue, tile |-> p.tile]
    BY <2>1
  <2> DEFINE q == [pc |-> "loop", pid |-> p.pid, continue |-> p.continue, tile |-> p.tile]
  <2>3. [q EXCEPT !.tile = tile]
          = [pc |-> "loop", pid |-> p.pid, continue |-> p.continue, tile |-> tile]
    OBVIOUS
  <2> QED BY <2>2, <2>3 DEF At
<1>5. counter \in Nat /\ tile \in Nat
  BY <1>1, NumTilesNat DEF Shape
<1>6. w \in Programs /\ w.pc = "loop"
  <2>1. p.continue \in BOOLEAN
    BY <1>1 DEF Programs
  <2> HIDE DEF p, tile
  <2> QED BY <1>1, <1>5, <2>1, AtPrograms
<1>7. Program(w)
  <2> HIDE DEF w
  <2> QED BY <1>6 DEF Program
<1>8. counter' \in Nat /\ grid' \subseteq grid /\ launch' = launch
  BY <1>5 DEF NextTile
<1> HIDE DEF w
<1>9. wg' = [wg EXCEPT ![c] = w]
  BY <1>3, <1>4
<1> QED BY <1>6, <1>7, <1>8, <1>9, ShapeKept

LEMMA ShapeExit ==
  ASSUME Shape, NEW c \in Slots, Exit(c), kernel' = kernel PROVE Shape'
<1>1. counter' \in Nat /\ grid' \subseteq grid /\ launch' = launch
      /\ wg' = [wg EXCEPT ![c] = Idle]
  BY DEF Exit, Shape
<1> QED BY <1>1, ShapeKept

LEMMA ShapeForward ==
  ASSUME Shape, NEW c \in Slots, Forward(c) PROVE Shape'
<1>1. kernel = "forward" /\ kernel' = kernel
  BY DEF Forward, backward
<1>2. CASE Start(c)
  BY <1>1, <1>2, ShapeStart
<1>3. CASE Loop(c)
  BY <1>1, <1>3, ShapeLoop
<1>4. CASE ZeroOut(c)
  <2>1. /\ wg[c].pc = "zero" /\ Goto(c, "zero_l")
        /\ UNCHANGED <<launch, grid, counter, kernel>>
    BY <1>1, <1>4 DEF ZeroOut
  <2> QED BY <2>1, ShapeGoto
<1>5. CASE ZeroL(c)
  <2> DEFINE w == At(wg[c], "next", FALSE, wg[c].tile)
  <2>1. /\ wg[c].pc = "zero_l"
        /\ wg' = [wg EXCEPT ![c].pc = "next", ![c].continue = FALSE]
        /\ UNCHANGED <<launch, grid, counter, kernel>>
    BY <1>1, <1>5 DEF ZeroL
  <2>2. wg[c] \in Programs
    BY <2>1, WorkingSlot
  <2>3. wg \in [Slots -> {Idle} \cup Programs]
    BY DEF Shape
  <2>4. wg' = [wg EXCEPT ![c] = [[wg[c] EXCEPT !.pc = "next"] EXCEPT !.continue = FALSE]]
    BY <2>1, <2>3
  <2>5. [[wg[c] EXCEPT !.pc = "next"] EXCEPT !.continue = FALSE] = w
    <3> DEFINE p == wg[c]
    <3> HIDE DEF p
    <3>1. p = [pc |-> p.pc, pid |-> p.pid, continue |-> p.continue, tile |-> p.tile]
      BY <2>2 DEF Programs, p
    <3>2. [p EXCEPT !.pc = "next"]
            = [pc |-> "next", pid |-> p.pid, continue |-> p.continue, tile |-> p.tile]
      BY <3>1
    <3> DEFINE q == [pc |-> "next", pid |-> p.pid, continue |-> p.continue, tile |-> p.tile]
    <3>3. \A go : [q EXCEPT !.continue = go]
                    = [pc |-> "next", pid |-> p.pid, continue |-> go, tile |-> p.tile]
      OBVIOUS
    <3>4. [q EXCEPT !.continue = FALSE]
            = [pc |-> "next", pid |-> p.pid, continue |-> FALSE, tile |-> p.tile]
      <4> HIDE DEF q
      <4> QED BY <3>3
    <3> QED BY <3>2, <3>4 DEF At, p
  <2>6. w \in Programs /\ w.pc = "next"
    <3>1. wg[c].tile \in Nat
      BY <2>2 DEF Programs
    <3> QED BY <2>2, <3>1, AtPrograms
  <2>7. counter' \in Nat /\ grid' \subseteq grid /\ launch' = launch
    BY <2>1 DEF Shape
  <2> HIDE DEF w
  <2>8. Program(w)
    BY <2>6 DEF Program
  <2>9. wg' = [wg EXCEPT ![c] = w]
    BY <2>4, <2>5
  <2> QED BY <1>1, <2>6, <2>7, <2>8, <2>9, ShapeKept
<1>6. CASE WriteL(c)
  <2>1. /\ wg[c].pc = "store_l" /\ Goto(c, "store_out")
        /\ UNCHANGED <<launch, grid, counter, kernel>>
    BY <1>1, <1>6 DEF WriteL
  <2> QED BY <2>1, ShapeGoto
<1>7. CASE WriteOut(c)
  <2>1. /\ wg[c].pc = "store_out" /\ Goto(c, "next")
        /\ UNCHANGED <<launch, grid, counter, kernel>>
    BY <1>1, <1>7 DEF WriteOut
  <2> QED BY <2>1, ShapeGoto
<1>8. CASE NextTile(c)
  BY <1>1, <1>8, ShapeNextTile
<1>9. CASE Exit(c)
  BY <1>1, <1>9, ShapeExit
<1>10. ForwardStep(c)
  BY DEF Forward
<1> QED BY <1>2, <1>3, <1>4, <1>5, <1>6, <1>7, <1>8, <1>9, <1>10 DEF ForwardStep

LEMMA ShapeWaits ==
  ASSUME Shape, launch' = launch, wg' = wg, counter' = counter, kernel' \in Kernels,
         kernel' = "forward" => grid' \subseteq Grid
  PROVE  Shape'
<1>1. launch' \in Launches /\ counter' \in Nat
  BY DEF Shape
<1>2. kernel' = "forward" => grid' \subseteq Grid'
  BY AddressesStay
<1>3. (wg \in [Slots -> {Idle} \cup Programs])'
  BY ShapeStays DEF Shape, Idle
<1>4. ASSUME NEW d \in Slots, NEW v, v = wg'[d], (wg[d] # Idle)'
      PROVE  Program(wg[d])'
  <2>1. Program(v)
    BY <1>4 DEF Shape, Idle
  <2>2. Program(v)'
    BY <2>1, ShapeStays
  <2> QED BY <1>4, <2>2
<1>5. (\A d \in Slots : wg[d] # Idle => Program(wg[d]))'
  BY <1>4 DEF Idle
<1> QED BY <1>1, <1>2, <1>3, <1>5 DEF Shape

(* What the kernels behind the forward kernel leave alone. *)
LEMMA BackwardLeaves ==
  ASSUME NEW p \in grid, Backward(p)
  PROVE  /\ UNCHANGED <<launch, wg, counter, Out, L, kernel>>
         /\ kernel # "forward" /\ grid' = grid \ {p}
<1>1. CASE debug_simulate_encoded_softmax(p)
  BY <1>1 DEF debug_simulate_encoded_softmax, Run, Others
<1>2. CASE bwd_preprocess(p)
  BY <1>2 DEF bwd_preprocess, Run, Others
<1>3. CASE bwd_preprocess_varlen(p)
  BY <1>3 DEF bwd_preprocess_varlen, Run, Others
<1>4. CASE bwd_kernel_dk_dv(p)
  BY <1>4 DEF bwd_kernel_dk_dv, Run, Others
<1>5. CASE bwd_kernel_dq(p)
  BY <1>5 DEF bwd_kernel_dq, Run, Others
<1>6. CASE FuseDkDv(p)
  BY <1>6 DEF FuseDkDv, Run, Others
<1>7. CASE FuseDq(p)
  BY <1>7 DEF FuseDq, Run, Others
<1> QED BY <1>1, <1>2, <1>3, <1>4, <1>5, <1>6, <1>7 DEF Backward

LEMMA ShapeNext ==
  ASSUME Shape, [Next]_vars PROVE Shape'
<1>1. ASSUME NEW c \in Slots, Forward(c) PROVE Shape'
  BY <1>1, ShapeForward
<1>2. ASSUME NEW p \in grid, Backward(p) PROVE Shape'
  <2>1. kernel' \in Kernels
    BY <1>2, BackwardLeaves DEF Shape
  <2> QED BY <1>2, <2>1, BackwardLeaves, ShapeWaits
<1>3. CASE NextKernel
  <2>1. kernel' \in Kernels /\ kernel' # "forward"
    BY <1>3 DEF NextKernel, Following, Kernels, Shape
  <2> QED BY <1>3, <2>1, ShapeWaits DEF NextKernel
<1>4. CASE UNCHANGED vars
  <2>1. /\ launch' = launch /\ wg' = wg /\ counter' = counter /\ kernel' = kernel
        /\ grid' = grid
    BY <1>4 DEF vars, forward, backward
  <2> QED BY <2>1, ShapeWaits DEF Shape
<1> QED BY <1>1, <1>2, <1>3, <1>4 DEF Next, Idling

-----------------------------------------------------------------------------
(* The rows of the output are right.                                       *)

(* A step that stores right rows, or none, keeps the output right. *)
LEMMA RowsKept ==
  ASSUME RowsRight, launch' = launch,
         \A a \in DOMAIN Out' : \/ RightRow(a, Out'[a])
                                \/ a \in DOMAIN Out /\ Out'[a] = Out[a]
  PROVE  RowsRight'
<1>1. ASSUME NEW a \in DOMAIN Out', NEW row, row = Out'[a] PROVE RightRow(a, Out[a])'
  <2>1. RightRow(a, row)
    BY <1>1 DEF RowsRight
  <2>2. RightRow(a, row)'
    BY <2>1, ShapeStays
  <2> QED BY <1>1, <2>2
<1> QED BY <1>1 DEF RowsRight

LEMMA ExactRow ==
  ASSUME WellFormed(launch), NEW t \in Tiles, NEW m \in TileRows(t), NEW row,
         SeqlenK(t.z) > 0 => row = Exact(t.z, t.h, m)
  PROVE  RightRow(RowAddr(t.z, t.h, m), row)
<1>1. t.z \in Entries /\ t.h \in Heads /\ m \in Queries(t.z)
  BY TileFacts
<1> QED BY <1>1 DEF RightRow

LEMMA ZeroOutRight ==
  ASSUME Shape, RowsRight, NEW c \in Slots, ZeroOut(c) PROVE RowsRight'
<1> DEFINE t == Tile(wg[c])
           stored == {RowAddr(t.z, t.h, m) : m \in TileRows(t)}
<1>1. /\ WellFormed(launch) /\ t \in Tiles /\ FullyMasked(t)
  BY WorkingSlot DEF ZeroOut, Program
<1>2. /\ launch' = launch
      /\ Out' = [a \in stored \cup DOMAIN Out |-> IF a \in stored THEN {} ELSE Out[a]]
  BY DEF ZeroOut, Store
<1>3. ASSUME NEW a \in stored PROVE RightRow(a, {})
  <2>1. PICK m \in TileRows(t) : a = RowAddr(t.z, t.h, m)
    BY <1>3
  <2> HIDE DEF t
  <2>2. Exact(t.z, t.h, m) = {}
    BY <1>1, MaskedRows DEF Exact
  <2>3. RightRow(RowAddr(t.z, t.h, m), {})
    BY <1>1, <2>2, ExactRow
  <2> QED BY <2>1, <2>3
<1> HIDE DEF stored
<1>4. \A a \in DOMAIN Out' : \/ RightRow(a, Out'[a])
                             \/ a \in DOMAIN Out /\ Out'[a] = Out[a]
  BY <1>2, <1>3
<1> QED BY <1>2, <1>4, RowsKept

LEMMA WriteOutRight ==
  ASSUME Shape, RowsRight, NEW c \in Slots, WriteOut(c) PROVE RowsRight'
<1> DEFINE t == Tile(wg[c])
           stored == {RowAddr(t.z, t.h, m) : m \in TileRows(t)}
           by(a) == CHOOSE m \in TileRows(t) : RowAddr(t.z, t.h, m) = a
<1>1. WellFormed(launch) /\ t \in Tiles
  BY WorkingSlot DEF WriteOut, Program
<1>2. /\ launch' = launch
      /\ Out' = [a \in stored \cup DOMAIN Out |->
                   IF a \in stored THEN Attends(t, by(a)) ELSE Out[a]]
  BY DEF WriteOut, Store
<1>3. ASSUME NEW a \in stored PROVE RightRow(a, Attends(t, by(a)))
  <2>1. by(a) \in TileRows(t) /\ RowAddr(t.z, t.h, by(a)) = a
    BY <1>3
  <2> HIDE DEF t, by
  <2>2. SeqlenK(t.z) > 0 => Attends(t, by(a)) = Exact(t.z, t.h, by(a))
    BY <1>1, <2>1, AttendsExact
  <2>3. RightRow(RowAddr(t.z, t.h, by(a)), Attends(t, by(a)))
    BY <1>1, <2>1, <2>2, ExactRow
  <2> QED BY <2>1, <2>3
<1> HIDE DEF stored, by
<1>4. \A a \in DOMAIN Out' : \/ RightRow(a, Out'[a])
                             \/ a \in DOMAIN Out /\ Out'[a] = Out[a]
  BY <1>2, <1>3
<1> QED BY <1>2, <1>4, RowsKept

LEMMA RowsNext ==
  ASSUME Shape, RowsRight, [Next]_vars PROVE RowsRight'
<1>1. ASSUME NEW c \in Slots, Forward(c) PROVE RowsRight'
  <2>1. CASE ZeroOut(c)
    BY <2>1, ZeroOutRight
  <2>2. CASE WriteOut(c)
    BY <2>2, WriteOutRight
  <2>3. CASE UNCHANGED <<launch, Out>>
    BY <2>3, RowsKept
  <2>4. CASE Start(c) \/ Loop(c) \/ ZeroL(c) \/ WriteL(c) \/ NextTile(c) \/ Exit(c)
    BY <2>3, <2>4 DEF Start, Loop, ZeroL, WriteL, NextTile, Exit
  <2>5. ForwardStep(c)
    BY <1>1 DEF Forward
  <2> QED BY <2>1, <2>2, <2>4, <2>5 DEF ForwardStep
<1>2. CASE UNCHANGED <<launch, Out>>
  BY <1>2, RowsKept
<1>3. ASSUME NEW p \in grid, Backward(p) PROVE RowsRight'
  BY <1>2, <1>3, BackwardLeaves
<1>4. CASE NextKernel
  BY <1>2, <1>4 DEF NextKernel
<1>5. CASE UNCHANGED vars
  BY <1>2, <1>5 DEF vars, forward
<1> QED BY <1>1, <1>3, <1>4, <1>5 DEF Next, Idling

LEMMA RowsInit == ASSUME Init PROVE Shape /\ RowsRight
<1>1. Out = <<>> /\ kernel = "forward" /\ counter = 0 /\ grid = Grid /\ launch \in Launches
      /\ wg = [c \in Slots |-> Idle]
  BY DEF Init, ForwardInit
<1>2. DOMAIN Out = {}
  BY <1>1
<1>3. RowsRight
  BY <1>2 DEF RowsRight
<1> QED BY <1>1, <1>3 DEF Shape, Kernels

LEMMA RowsOutput == ASSUME Shape, RowsRight PROVE OutputRight
<1>1. SUFFICES ASSUME NEW z \in Entries, NEW h \in Heads, NEW m \in Queries(z),
                      SeqlenK(z) > 0, RowAddr(z, h, m) \in DOMAIN Out
               PROVE  {<<t.row, t.key, t.bias, t.times>> : t \in Out[RowAddr(z, h, m)]}
                        = {LET o == Operands(z, h, m, n) IN <<o.row, o.key, o.bias, 1>> :
                             n \in Attended(z, m)}
  BY DEF OutputRight, RowsSatisfy
<1> DEFINE a == RowAddr(z, h, m)
<1>2. WellFormed(launch)
  BY Constants DEF Shape
<1>3. PICK y \in Entries, g \in Heads : \E k \in Queries(y) :
        a = RowAddr(y, g, k) /\ (SeqlenK(y) > 0 => Out[a] = Exact(y, g, k))
  BY <1>1 DEF RowsRight, RightRow
<1>4. PICK k \in Queries(y) :
        a = RowAddr(y, g, k) /\ (SeqlenK(y) > 0 => Out[a] = Exact(y, g, k))
  BY <1>3
<1>5. z = y /\ h = g /\ m = k
  BY <1>2, <1>4, RowUnique
<1>6. Out[a] = {Element(z, h, m, n) : n \in Attended(z, m)}
  BY <1>1, <1>4, <1>5 DEF Exact
<1> HIDE DEF a
<1>7. {<<t.row, t.key, t.bias, t.times>> : t \in Out[a]}
        = {<<Element(z, h, m, n).row, Element(z, h, m, n).key,
             Element(z, h, m, n).bias, Element(z, h, m, n).times>> : n \in Attended(z, m)}
  BY <1>6
<1>8. ASSUME NEW n
      PROVE  <<Element(z, h, m, n).row, Element(z, h, m, n).key,
               Element(z, h, m, n).bias, Element(z, h, m, n).times>>
               = LET o == Operands(z, h, m, n) IN <<o.row, o.key, o.bias, 1>>
  BY DEF Element
<1>9. {<<t.row, t.key, t.bias, t.times>> : t \in Out[a]}
        = {LET o == Operands(z, h, m, n) IN <<o.row, o.key, o.bias, 1>> :
             n \in Attended(z, m)}
  BY <1>7, <1>8
<1> QED BY <1>9 DEF a

(* Whatever the sizes of the tiles, the tensors and the grid, and however  *)
(* the programs interleave, a row of the output that the forward kernel    *)
(* stored is the sum of exactly the elements its query attends, each once, *)
(* from the addresses of its operands.                                     *)
THEOREM OutputIsRight == Spec => []OutputRight
<1>1. Init => Shape /\ RowsRight
  BY RowsInit
<1>2. Shape /\ RowsRight /\ [Next]_vars => (Shape /\ RowsRight)'
  BY ShapeNext, RowsNext
<1>3. Shape /\ RowsRight => OutputRight
  BY RowsOutput
<1> QED BY <1>1, <1>2, <1>3, PTL DEF Spec

-----------------------------------------------------------------------------
(* The rows of the logsumexp are stored by the tile that owns them.        *)

LEMMA QueriesInLRows ==
  ASSUME WellFormed(launch), NEW z \in Entries PROVE Queries(z) \subseteq LRows(z)
<1>1. SeqlenQ(z) \in Nat /\ SeqlenQ(z) <= launch.max_q /\ launch.max_q \in Nat
  BY Lengths, LaunchFacts DEF Positive
<1> QED BY <1>1 DEF Queries, LRows

(* The place of a row of L: its head, counted over all entries, and its    *)
(* offset, which is below the stride of a head.                            *)
LEMMA LPlace ==
  ASSUME WellFormed(launch), NEW z \in Entries, NEW h \in Heads, NEW m \in LRows(z)
  PROVE  /\ lse_stride \in Positive
         /\ batch_index(z) * launch.Hq + h \in Nat
         /\ StartQ(z) + m \in Nat /\ StartQ(z) + m < lse_stride
         /\ LseAddr(z, h, m) = (batch_index(z) * launch.Hq + h) * lse_stride + (StartQ(z) + m)
         /\ m \in Nat /\ h \in Nat /\ h < launch.Hq /\ batch_index(z) \in Nat
<1>1. /\ launch.Hq \in Positive /\ launch.max_q \in Positive /\ launch.num \in Int
      /\ StartQ(z) \in Nat /\ z \in Nat /\ SeqlenQ(z) \in Nat
  BY LaunchFacts, Starts, Lengths, BatchPositive DEF Entries
<1>2. h \in Nat /\ h < launch.Hq /\ batch_index(z) \in Nat
  BY <1>1 DEF Heads, batch_index, Positive
<1>3. m \in Nat /\ StartQ(z) + m < lse_stride /\ lse_stride \in Nat
  <2>1. CASE launch.num > 0
    <3>1. m \in Nat /\ m < SeqlenQ(z)
      BY <1>1, <2>1 DEF LRows, Queries
    <3>2. lse_stride \in Nat /\ StartQ(z) + SeqlenQ(z) <= lse_stride
      BY <2>1, Starts
    <3> QED BY <1>1, <3>1, <3>2
  <2>2. CASE ~(launch.num > 0)
    <3>1. launch.num <= 0
      BY <1>1, <2>2
    <3>2. StartQ(z) = 0 /\ lse_stride = launch.max_q
      BY <3>1 DEF StartQ, lse_stride
    <3>3. m \in 0..(launch.max_q - 1)
      BY <2>2 DEF LRows
    <3> QED BY <1>1, <3>2, <3>3 DEF Positive
  <2> QED BY <2>1, <2>2
<1>4. lse_stride \in Positive /\ StartQ(z) + m \in Nat
  BY <1>1, <1>3 DEF Positive
<1>5. batch_index(z) * launch.Hq + h \in Nat
  BY <1>1, <1>2 DEF Positive
<1>6. LseAddr(z, h, m) = ((batch_index(z) * launch.Hq + h) * lse_stride + StartQ(z)) + m
  BY DEF LseAddr, lse_offset
<1>7. (batch_index(z) * launch.Hq + h) * lse_stride \in Nat
  BY <1>3, <1>5, ProductNat
<1>8. LseAddr(z, h, m) = (batch_index(z) * launch.Hq + h) * lse_stride + (StartQ(z) + m)
  BY <1>1, <1>3, <1>6, <1>7
<1> QED BY <1>2, <1>3, <1>4, <1>5, <1>8

LEMMA RadixUnique ==
  ASSUME NEW S \in Positive, NEW d \in Nat, NEW e \in Nat, NEW x \in Nat, NEW y \in Nat,
         x < S, y < S, d * S + x = e * S + y
  PROVE  d = e /\ x = y
<1>1. d * S \in Nat /\ e * S \in Nat
  BY ProductNat DEF Positive
<1> DEFINE v == d * S + x
<1>2. /\ d * S <= v /\ v < d * S + S /\ e * S <= v /\ v < e * S + S /\ v \in Int
  BY <1>1 DEF Positive
<1> HIDE DEF v
<1>3. d = e
  BY <1>2, FloorUnique
<1> QED BY <1>1, <1>3

LEMMA LseUnique ==
  ASSUME WellFormed(launch), NEW z \in Entries, NEW y \in Entries, NEW h \in Heads,
         NEW g \in Heads, NEW m \in LRows(z), NEW k \in LRows(y),
         LseAddr(z, h, m) = LseAddr(y, g, k)
  PROVE  z = y /\ h = g /\ m = k
<1> DEFINE H == launch.Hq
           d == batch_index(z) * H + h
           e == batch_index(y) * H + g
           i == StartQ(z) + m
           j == StartQ(y) + k
<1>1. /\ lse_stride \in Positive /\ d \in Nat /\ e \in Nat /\ i \in Nat /\ j \in Nat
      /\ i < lse_stride /\ j < lse_stride
      /\ LseAddr(z, h, m) = d * lse_stride + i /\ LseAddr(y, g, k) = e * lse_stride + j
      /\ h \in Nat /\ g \in Nat /\ h < H /\ g < H
      /\ batch_index(z) \in Nat /\ batch_index(y) \in Nat /\ m \in Nat /\ k \in Nat
  BY LPlace
<1> HIDE DEF d, e, i, j
<1>2. d = e /\ i = j
  <2>1. d * lse_stride + i = e * lse_stride + j
    BY <1>1
  <2> QED BY <1>1, <2>1, RadixUnique
<1>3. batch_index(z) = batch_index(y) /\ h = g
  <2>1. batch_index(z) * H + h = batch_index(y) * H + g
    BY <1>2 DEF d, e
  <2>2. H \in Positive
    BY LaunchFacts
  <2> HIDE DEF H
  <2> QED BY <1>1, <2>1, <2>2, RadixUnique
<1>4. CASE launch.num > 0
  <2>1. m \in Queries(z) /\ k \in Queries(y)
    BY <1>4 DEF LRows
  <2>2. RowAddr(z, h, m) = RowAddr(y, h, k)
    BY <1>2, <1>3 DEF RowAddr, i, j
  <2> QED BY <1>3, <2>1, <2>2, RowUnique
<1>5. CASE ~(launch.num > 0)
  <2>1. launch.num <= 0
    BY <1>5, LaunchFacts
  <2>2. z = y
    BY <1>3, <1>5 DEF batch_index
  <2>3. 0 + m = 0 + k
    BY <1>2, <2>1 DEF i, j, StartQ
  <2> QED BY <1>1, <1>3, <2>2, <2>3
<1> QED BY <1>4, <1>5

LEMMA LKept ==
  ASSUME LRight, launch' = launch,
         ~Overruns => \A a \in DOMAIN L' : \/ RightL(a, L'[a])
                                           \/ a \in DOMAIN L /\ L'[a] = L[a]
  PROVE  LRight'
<1>1. ASSUME ~Overruns, NEW a \in DOMAIN L', NEW entry, entry = L'[a] PROVE RightL(a, L[a])'
  <2>1. RightL(a, entry)
    BY <1>1 DEF LRight
  <2>2. RightL(a, entry)'
    BY <2>1, ShapeStays
  <2> QED BY <1>1, <2>2
<1> QED BY <1>1, TilesStay DEF LRight

LEMMA OwnedL ==
  ASSUME WellFormed(launch), NEW t \in Tiles, NEW m \in LRows(t.z), NEW early \in BOOLEAN,
         early /\ m \in Queries(t.z) => Attended(t.z, m) = {}
  PROVE  RightL(LseAddr(t.z, t.h, m), [row |-> <<t.z, t.h, m>>, inf |-> early])
<1>1. t.z \in Entries /\ t.h \in Heads
  BY TileFacts
<1> QED BY <1>1 DEF RightL

(* A store of rows the tile owns; the infinities of a masked tile are      *)
(* stored up to Max_seqlen_q, which no other sequence begins before unless *)
(* the launch Overruns.                                                    *)
LEMMA StoreLRight ==
  ASSUME WellFormed(launch), LRight, launch' = launch, NEW t \in Tiles, NEW ms,
         NEW early \in BOOLEAN, StoreL(t, ms, early),
         ~Overruns => \A m \in ms : /\ m \in LRows(t.z)
                                    /\ early /\ m \in Queries(t.z) => Attended(t.z, m) = {}
  PROVE  LRight'
<1> DEFINE stored == {LseAddr(t.z, t.h, m) : m \in ms}
           by(a) == CHOOSE m \in ms : LseAddr(t.z, t.h, m) = a
           entry(a) == [row |-> <<t.z, t.h, by(a)>>, inf |-> early]
<1>1. L' = [a \in stored \cup DOMAIN L |-> IF a \in stored THEN entry(a) ELSE L[a]]
  BY DEF StoreL, Store
<1>2. ASSUME ~Overruns, NEW a \in stored PROVE RightL(a, entry(a))
  <2>1. by(a) \in ms /\ LseAddr(t.z, t.h, by(a)) = a
    BY <1>2
  <2> HIDE DEF by
  <2>2. RightL(LseAddr(t.z, t.h, by(a)), entry(a))
    BY <1>2, <2>1, OwnedL
  <2> QED BY <2>1, <2>2
<1> HIDE DEF stored, entry
<1>3. ~Overruns => \A a \in DOMAIN L' : \/ RightL(a, L'[a])
                                        \/ a \in DOMAIN L /\ L'[a] = L[a]
  BY <1>1, <1>2
<1> QED BY <1>3, LKept

LEMMA ZeroLRight ==
  ASSUME Shape, LRight, NEW c \in Slots, ZeroL(c) PROVE LRight'
<1> DEFINE t == Tile(wg[c])
           ms == InBounds(t.start, BLOCK_M, launch.max_q)
<1>1. /\ WellFormed(launch) /\ t \in Tiles /\ FullyMasked(t)
  BY WorkingSlot DEF ZeroL, Program
<1>2. launch' = launch /\ StoreL(t, ms, TRUE)
  BY DEF ZeroL
<1> HIDE DEF t
<1>3. /\ t.z \in Entries /\ t.start \in Nat
      /\ SeqlenQ(t.z) \in Nat /\ BLOCK_M \in Nat /\ launch.max_q \in Nat
  BY <1>1, TileFacts, Lengths, Constants, LaunchFacts DEF Positive
<1>4. ASSUME NEW m \in ms PROVE m \in t.start..(t.start + BLOCK_M - 1) /\ m < launch.max_q
  BY DEF InBounds
<1>5. ASSUME ~Overruns, NEW m \in ms PROVE m \in LRows(t.z)
  <2>1. CASE launch.num > 0
    <3>1. t.start + BLOCK_M <= SeqlenQ(t.z)
      BY <1>1, <1>3, <1>5, <2>1 DEF Overruns
    <3>2. m \in Queries(t.z)
      BY <1>3, <1>4, <1>5, <3>1 DEF Queries
    <3> QED BY <2>1, <3>2 DEF LRows
  <2>2. CASE ~(launch.num > 0)
    BY <1>3, <1>4, <1>5, <2>2 DEF LRows
  <2> QED BY <2>1, <2>2
<1>6. ASSUME NEW m \in ms, m \in Queries(t.z) PROVE Attended(t.z, m) = {}
  <2>1. m \in TileRows(t)
    BY <1>3, <1>4, <1>6 DEF TileRows, InBounds, Queries
  <2> QED BY <1>1, <2>1, MaskedRows
<1> HIDE DEF ms
<1> QED BY <1>1, <1>2, <1>5, <1>6, StoreLRight

LEMMA WriteLRight ==
  ASSUME Shape, LRight, NEW c \in Slots, WriteL(c) PROVE LRight'
<1> DEFINE t == Tile(wg[c])
<1>1. WellFormed(launch) /\ t \in Tiles
  BY WorkingSlot DEF WriteL, Program
<1>2. launch' = launch /\ StoreL(t, TileRows(t), FALSE)
  BY DEF WriteL
<1> HIDE DEF t
<1>3. \A m \in TileRows(t) : m \in LRows(t.z)
  BY <1>1, TileFacts, QueriesInLRows
<1> QED BY <1>1, <1>2, <1>3, StoreLRight

LEMMA LNext ==
  ASSUME Shape, LRight, [Next]_vars PROVE LRight'
<1>1. CASE UNCHANGED <<launch, L>>
  BY <1>1, LKept
<1>2. ASSUME NEW c \in Slots, Forward(c) PROVE LRight'
  <2>1. CASE ZeroL(c)
    BY <2>1, ZeroLRight
  <2>2. CASE WriteL(c)
    BY <2>2, WriteLRight
  <2>3. CASE Start(c) \/ Loop(c) \/ ZeroOut(c) \/ WriteOut(c) \/ NextTile(c) \/ Exit(c)
    BY <1>1, <2>3 DEF Start, Loop, ZeroOut, WriteOut, NextTile, Exit
  <2>4. ForwardStep(c)
    BY <1>2 DEF Forward
  <2> QED BY <2>1, <2>2, <2>3, <2>4 DEF ForwardStep
<1>3. ASSUME NEW p \in grid, Backward(p) PROVE LRight'
  BY <1>1, <1>3, BackwardLeaves
<1>4. CASE NextKernel
  BY <1>1, <1>4 DEF NextKernel
<1>5. CASE UNCHANGED vars
  BY <1>1, <1>5 DEF vars, forward
<1> QED BY <1>2, <1>3, <1>4, <1>5 DEF Next, Idling

LEMMA LInit == ASSUME Init PROVE LRight
<1>1. L = <<>>
  BY DEF Init, ForwardInit
<1> QED BY <1>1 DEF LRight

LEMMA LIsOwned == ASSUME Shape, LRight PROVE LOwned
<1>1. SUFFICES ASSUME ~Overruns, NEW z \in Entries, NEW h \in Heads, NEW m \in Queries(z),
                      LseAddr(z, h, m) \in DOMAIN L
               PROVE  /\ L[LseAddr(z, h, m)].row = <<z, h, m>>
                      /\ L[LseAddr(z, h, m)].inf => Attended(z, m) = {}
  BY DEF LOwned, RowsSatisfy
<1> DEFINE a == LseAddr(z, h, m)
<1>2. WellFormed(launch)
  BY Constants DEF Shape
<1>3. PICK y \in Entries, g \in Heads : \E k \in LRows(y) :
        /\ a = LseAddr(y, g, k) /\ L[a].row = <<y, g, k>>
        /\ L[a].inf /\ k \in Queries(y) => Attended(y, k) = {}
  BY <1>1 DEF LRight, RightL
<1>4. PICK k \in LRows(y) :
        /\ a = LseAddr(y, g, k) /\ L[a].row = <<y, g, k>>
        /\ L[a].inf /\ k \in Queries(y) => Attended(y, k) = {}
  BY <1>3
<1>5. m \in LRows(z)
  BY <1>2, QueriesInLRows
<1>6. z = y /\ h = g /\ m = k
  BY <1>2, <1>4, <1>5, LseUnique
<1> QED BY <1>4, <1>6

(* A row of the logsumexp holds what the tile of that row stored, and an   *)
(* infinity only where the row attends to no key, unless the launch is one *)
(* of those whose masked tiles overrun the rows of their sequence.         *)
THEOREM LIsOwnedAlways == Spec => []LOwned
<1>1. Init => Shape /\ LRight
  BY RowsInit, LInit
<1>2. Shape /\ LRight /\ [Next]_vars => (Shape /\ LRight)'
  BY ShapeNext, LNext
<1>3. Shape /\ LRight => LOwned
  BY LIsOwned
<1> QED BY <1>1, <1>2, <1>3, PTL DEF Spec

-----------------------------------------------------------------------------
(* No two elements of the output are dropped by one random number.         *)

LEMMA CdivCovers ==
  ASSUME NEW x \in Positive, NEW y \in Positive PROVE x <= cdiv(x, y) * y
<1> DEFINE c == (x + y - 1) \div y
<1>1. x + y - 1 \in Nat
  BY DEF Positive
<1>2. c \in Nat /\ x + y - 1 < c * y + y
  BY <1>1, DivFloor
<1> HIDE DEF c
<1>3. c * y \in Int
  BY <1>2 DEF Positive
<1>4. x <= c * y
  BY <1>2, <1>3 DEF Positive
<1> QED BY <1>4 DEF cdiv, c

LEMMA QuotientRest ==
  ASSUME NEW n \in Nat, NEW per \in Positive PROVE n = (n \div per) * per + (n % per)
<1> DEFINE q == n \div per
<1>1. q \in Nat /\ n % per = n - q * per
  BY DivFloor DEF Positive
<1> HIDE DEF q
<1>2. q * per \in Int
  BY <1>1 DEF Positive
<1>3. n = q * per + (n % per)
  BY <1>1, <1>2
<1> QED BY <1>3 DEF q

(* No two elements, of one head or of two, share a random number. *)
LEMMA NumberUnique ==
  ASSUME WellFormed(launch), NEW z \in Entries, NEW y \in Entries, NEW h \in Heads,
         NEW g \in Heads, NEW m \in Nat, NEW k \in Nat, NEW n \in Nat, NEW l \in Nat,
         m < launch.max_q, k < launch.max_q, n < launch.max_k, l < launch.max_k,
         Number(z, h, m, n) = Number(y, g, k, l)
  PROVE  z = y /\ h = g /\ m = k /\ n = l
<1> DEFINE H == launch.Hq
           Q == launch.max_q
           per == PHILOX_RN_PER_OFFSET
           hz == z * H + h
           hy == y * H + g
           rz == hz * Q + m
           ry == hy * Q + k
           c == n \div per
           d == l \div per
<1>1. /\ H \in Positive /\ Q \in Positive /\ Stride \in Positive /\ per \in Positive
      /\ launch.max_k \in Positive
  BY LaunchFacts, Constants, CdivPositive DEF Stride
<1>2. /\ z \in Nat /\ y \in Nat /\ h \in Nat /\ g \in Nat /\ h < H /\ g < H
  BY <1>1, BatchPositive DEF Entries, Heads, Positive
<1>3. /\ Number(z, h, m, n)[1] = hz * Q * Stride + m * Stride + c
      /\ Number(y, g, k, l)[1] = hy * Q * Stride + k * Stride + d
      /\ Number(z, h, m, n)[2] = n % per /\ Number(y, g, k, l)[2] = l % per
  BY DEF Number, batch_philox_offset
<1> HIDE DEF H, Q, per, hz, hy, rz, ry, c, d
<1>4. hz \in Nat /\ hy \in Nat
  BY <1>1, <1>2 DEF hz, hy, Positive
<1>5. rz \in Nat /\ ry \in Nat
  BY <1>1, <1>4 DEF rz, ry, Positive
<1>6. /\ c \in Nat /\ n = c * per + (n % per) /\ c < Stride
      /\ d \in Nat /\ l = d * per + (l % per) /\ d < Stride
  <2>1. launch.max_k <= Stride * per
    BY <1>1, CdivCovers DEF Stride, per
  <2>2. Stride * per \in Nat
    BY <1>1 DEF Positive
  <2>3. n < Stride * per /\ l < Stride * per
    BY <1>1, <2>1, <2>2 DEF Positive
  <2>4. c < Stride /\ d < Stride /\ c \in Nat /\ d \in Nat
    BY <1>1, <2>3, DivBelow DEF c, d, Positive
  <2>5. n = c * per + (n % per)
    BY <1>1, QuotientRest DEF c
  <2>6. l = d * per + (l % per)
    BY <1>1, QuotientRest DEF d
  <2> QED BY <2>4, <2>5, <2>6
<1>7. rz * Stride + c = ry * Stride + d
  <2>1. hz * Q * Stride + m * Stride = rz * Stride
    BY <1>1, <1>4 DEF rz, Positive
  <2>2. hy * Q * Stride + k * Stride = ry * Stride
    BY <1>1, <1>4 DEF ry, Positive
  <2> QED BY <1>3, <2>1, <2>2
<1>8. rz = ry /\ c = d
  BY <1>1, <1>5, <1>6, <1>7, RadixUnique
<1>9. hz = hy /\ m = k
  <2>1. hz * Q + m = hy * Q + k /\ m < Q /\ k < Q
    BY <1>8 DEF rz, ry, Q
  <2> QED BY <1>1, <1>4, <2>1, RadixUnique
<1>10. z = y /\ h = g
  <2>1. z * H + h = y * H + g
    BY <1>9 DEF hz, hy
  <2> QED BY <1>1, <1>2, <2>1, RadixUnique
<1>11. n = l
  <2>1. n % per = l % per
    BY <1>3
  <2> QED BY <1>6, <1>8, <2>1
<1> QED BY <1>9, <1>10, <1>11

LEMMA FiniteImage ==
  ASSUME NEW S, IsFiniteSet(S), NEW f, f = [x \in S |-> f[x]]
  PROVE  IsFiniteSet({f[x] : x \in S})
<1>1. f \in Surjection(S, {f[x] : x \in S})
  BY DEF Surjection
<1> QED BY <1>1, FS_Surjection

(* Picking a component that tells the elements of a finite set apart does  *)
(* not lose any of them.                                                   *)
LEMMA SameNumber ==
  ASSUME NEW S, IsFiniteSet(S), \A x, y \in S : x[3] = y[3] => x = y
  PROVE  Cardinality(S) = Cardinality({x[3] : x \in S})
<1> DEFINE T == {x[3] : x \in S}
           f == [x \in S |-> x[3]]
<1>1. f \in [S -> T] /\ \A x, y \in S : f[x] = f[y] => x = y
  OBVIOUS
<1>2. \A t \in T : \E x \in S : f[x] = t
  OBVIOUS
<1> HIDE DEF f
<1>3. f \in Bijection(S, T)
  <2>1. f \in Injection(S, T)
    BY <1>1 DEF Injection, IsInjective
  <2>2. f \in Surjection(S, T)
    BY <1>1, <1>2 DEF Surjection
  <2> QED BY <2>1, <2>2 DEF Bijection
<1>4. ExistsBijection(S, T)
  BY <1>3 DEF ExistsBijection
<1> HIDE DEF T
<1>5. Cardinality(T) = Cardinality(S)
  BY <1>4, FS_Bijection
<1> QED BY <1>5 DEF T

(* The elements of which the output sums up are the terms of its queries,  *)
(* by address of the row, address of the key and random number.            *)
SummedCell(z, h, m, n) ==
  <<RowAddr(z, h, m), KeyAddr(z, h \div GroupSize, n), Number(z, h, m, n)>>

Summed == UNION {{<<a, t.key, t.number>> : t \in Out[a]} : a \in DOMAIN Out}

LEMMA SummedCells ==
  ASSUME Shape, RowsRight, NoneEmpty, NEW e \in Summed
  PROVE  \E z \in Entries, h \in Heads, m \in Nat, n \in Nat :
           m < launch.max_q /\ n < launch.max_k /\ e = SummedCell(z, h, m, n)
<1>1. PICK a \in DOMAIN Out : e \in {<<a, t.key, t.number>> : t \in Out[a]}
  BY DEF Summed
<1>2. PICK t \in Out[a] : e = <<a, t.key, t.number>>
  BY <1>1
<1>3. PICK z \in Entries, h \in Heads : \E m \in Queries(z) :
        a = RowAddr(z, h, m) /\ (SeqlenK(z) > 0 => Out[a] = Exact(z, h, m))
  BY DEF RowsRight, RightRow
<1>4. PICK m \in Queries(z) :
        a = RowAddr(z, h, m) /\ (SeqlenK(z) > 0 => Out[a] = Exact(z, h, m))
  BY <1>3
<1>5. SeqlenK(z) > 0
  BY DEF NoneEmpty
<1>6. PICK n \in Attended(z, m) : t = Element(z, h, m, n)
  BY <1>2, <1>4, <1>5 DEF Exact
<1>7. /\ SeqlenQ(z) \in Nat /\ SeqlenQ(z) <= launch.max_q /\ launch.max_q \in Nat
      /\ SeqlenK(z) \in Nat /\ SeqlenK(z) <= launch.max_k /\ launch.max_k \in Nat
  <2>1. WellFormed(launch)
    BY Constants DEF Shape
  <2> QED BY <2>1, Lengths, LaunchFacts DEF Positive
<1>8. m \in Nat /\ m < launch.max_q /\ n \in Nat /\ n < launch.max_k
  BY <1>7 DEF Queries, Attended, Keys
<1>9. e = SummedCell(z, h, m, n)
  BY <1>2, <1>4, <1>6 DEF SummedCell, Element, Operands
<1> QED BY <1>8, <1>9

LEMMA NumbersIndependent ==
  ASSUME Shape, RowsRight PROVE DropoutIndependent
<1>1. SUFFICES ASSUME NoneEmpty PROVE Cardinality(Summed) = Cardinality({e[3] : e \in Summed})
  BY DEF DropoutIndependent, Summed
<1>2. WellFormed(launch)
  BY Constants DEF Shape
<1>3. \A e, f \in Summed : e[3] = f[3] => e = f
  <2>1. SUFFICES ASSUME NEW e \in Summed, NEW f \in Summed, e[3] = f[3] PROVE e = f
    OBVIOUS
  <2>2. PICK z \in Entries, h \in Heads, m \in Nat, n \in Nat :
          m < launch.max_q /\ n < launch.max_k /\ e = SummedCell(z, h, m, n)
    BY <1>1, SummedCells
  <2>3. PICK y \in Entries, g \in Heads, k \in Nat, l \in Nat :
          k < launch.max_q /\ l < launch.max_k /\ f = SummedCell(y, g, k, l)
    BY <1>1, SummedCells
  <2>4. Number(z, h, m, n) = Number(y, g, k, l)
    BY <2>1, <2>2, <2>3 DEF SummedCell
  <2>5. z = y /\ h = g /\ m = k /\ n = l
    BY <1>2, <2>2, <2>3, <2>4, NumberUnique
  <2> QED BY <2>2, <2>3, <2>5
<1>4. IsFiniteSet(Summed)
  <2> DEFINE I == ((Entries \X Heads) \X (0..(launch.max_q - 1))) \X (0..(launch.max_k - 1))
             f == [i \in I |-> SummedCell(i[1][1][1], i[1][1][2], i[1][2], i[2])]
  <2>1. IsFiniteSet(I)
    <3>1. /\ Batch - 1 \in Int /\ launch.Hq - 1 \in Int
          /\ launch.max_q - 1 \in Int /\ launch.max_k - 1 \in Int
      BY <1>2, BatchPositive, LaunchFacts DEF Positive
    <3>2. /\ IsFiniteSet(Entries) /\ IsFiniteSet(Heads)
          /\ IsFiniteSet(0..(launch.max_q - 1)) /\ IsFiniteSet(0..(launch.max_k - 1))
      BY <3>1, 0 \in Int, FS_Interval DEF Entries, Heads
    <3>3. IsFiniteSet(Entries \X Heads)
      BY <3>2, FS_Product
    <3>4. IsFiniteSet((Entries \X Heads) \X (0..(launch.max_q - 1)))
      BY <3>2, <3>3, FS_Product
    <3> QED BY <3>2, <3>4, FS_Product
  <2>2. IsFiniteSet({f[i] : i \in I})
    <3>1. f = [i \in I |-> f[i]]
      OBVIOUS
    <3> HIDE DEF I, f
    <3> QED BY <2>1, <3>1, FiniteImage
  <2>3. Summed \subseteq {f[i] : i \in I}
    <3>1. SUFFICES ASSUME NEW e \in Summed PROVE e \in {f[i] : i \in I}
      OBVIOUS
    <3>2. PICK z \in Entries, h \in Heads, m \in Nat, n \in Nat :
            m < launch.max_q /\ n < launch.max_k /\ e = SummedCell(z, h, m, n)
      BY <1>1, SummedCells
    <3>3. m \in 0..(launch.max_q - 1) /\ n \in 0..(launch.max_k - 1)
      BY <1>2, <3>2, LaunchFacts DEF Positive
    <3> DEFINE i == <<<<<<z, h>>, m>>, n>>
    <3>4. i \in I
      BY <3>3
    <3>5. f[i] = SummedCell(z, h, m, n)
      BY <3>4
    <3> HIDE DEF i, I, f
    <3> QED BY <3>2, <3>4, <3>5
  <2> HIDE DEF I, f
  <2> QED BY <2>2, <2>3, FS_Subset
<1> QED BY <1>3, <1>4, SameNumber

(* The dropout of two elements of the output is decided by two different   *)
(* random numbers, also across rows, heads and entries of the batch.       *)
THEOREM NumbersIndependentAlways == Spec => []DropoutIndependent
<1>1. Init => Shape /\ RowsRight
  BY RowsInit
<1>2. Shape /\ RowsRight /\ [Next]_vars => (Shape /\ RowsRight)'
  BY ShapeNext, RowsNext
<1>3. Shape /\ RowsRight => DropoutIndependent
  BY NumbersIndependent
<1> QED BY <1>1, <1>2, <1>3, PTL DEF Spec

-----------------------------------------------------------------------------
(* Between them the programs of the forward kernel take and store every    *)
(* tile, also those that draw their tiles from the shared counter.         *)

(* The work of the forward kernel: what a program takes of it, and how far *)
(* a program has come that took it, with the rows of Out and of L that are *)
(* stored and the counter the programs draw from.                          *)
Jobs == IF Persistent THEN 0..(NumTiles - 1) ELSE Grid
JobOf(w) == IF Persistent THEN w.tile ELSE w.pid
JobTile(j) == Tile([pid |-> j, tile |-> j])
Untaken(j, left, n) == IF Persistent THEN j >= n ELSE j \in left

OutStored(t, rows) == \A m \in TileRows(t) : RowAddr(t.z, t.h, m) \in rows
LStored(t, sums) == \A m \in TileRows(t) : LseAddr(t.z, t.h, m) \in sums
Written(t, rows, sums) == OutStored(t, rows) /\ LStored(t, sums)

Progress(w, rows, sums, n) ==
  /\ w.pc = "zero_l" => OutStored(Tile(w), rows)
  /\ w.pc = "store_out" => LStored(Tile(w), sums)
  /\ w.pc = "next" => Written(Tile(w), rows, sums)
  /\ ~Persistent /\ w.tile >= NumTiles => Written(Tile(w), rows, sums)
  /\ Persistent => w.continue /\ w.tile < n
  /\ w.pc = "loop" /\ w.tile < NumTiles => w.continue

Working ==
  /\ \A c \in Slots : wg[c] # Idle => Progress(wg[c], DOMAIN Out, DOMAIN L, counter)
  /\ \A j \in Jobs : \/ Untaken(j, grid, counter)
                     \/ Written(JobTile(j), DOMAIN Out, DOMAIN L)
                     \/ \E c \in Slots : wg[c] # Idle /\ JobOf(wg[c]) = j
  /\ Persistent => grid = Grid \/ counter >= NumTiles \/ \E c \in Slots : wg[c] # Idle

Coverage == ~StopsEarly => IF kernel = "forward" THEN Working ELSE AllWritten

LEMMA JobsStay ==
  ASSUME launch' = launch
  PROVE  /\ Jobs' = Jobs /\ (StopsEarly' <=> StopsEarly)
         /\ \A w : JobOf(w)' = JobOf(w)
         /\ \A j : JobTile(j)' = JobTile(j)
         /\ \A j, left, n : Untaken(j, left, n)' <=> Untaken(j, left, n)
         /\ \A t, rows, sums : Written(t, rows, sums)' <=> Written(t, rows, sums)
         /\ \A w, rows, sums, n : Progress(w, rows, sums, n)' <=> Progress(w, rows, sums, n)
<1>1. Persistent' = Persistent /\ NumTiles' = NumTiles /\ Grid' = Grid
  BY AddressesStay
<1>2. \A t : TileRows(t)' = TileRows(t)
  BY AddressesStay DEF TileRows, InBounds
<1>3. /\ \A t, rows : OutStored(t, rows)' <=> OutStored(t, rows)
      /\ \A t, sums : LStored(t, sums)' <=> LStored(t, sums)
  BY <1>2, AddressesStay DEF OutStored, LStored
<1>4. \A t, rows, sums : Written(t, rows, sums)' <=> Written(t, rows, sums)
  BY <1>3 DEF Written
<1>5. \A w, rows, sums, n : Progress(w, rows, sums, n)' <=> Progress(w, rows, sums, n)
  BY <1>1, <1>3, <1>4, TilesStay DEF Progress
<1>6. Jobs' = Jobs
  BY <1>1 DEF Jobs
<1>7. StopsEarly' <=> StopsEarly
  BY <1>1, TilesStay DEF StopsEarly
<1>8. /\ \A w : JobOf(w)' = JobOf(w)
      /\ \A j, left, n : Untaken(j, left, n)' <=> Untaken(j, left, n)
  BY <1>1 DEF JobOf, Untaken
<1>9. \A j : JobTile(j)' = JobTile(j)
  BY TilesStay DEF JobTile
<1> QED BY <1>4, <1>5, <1>6, <1>7, <1>8, <1>9

(* What is stored stays stored. *)
LEMMA StoredStays ==
  ASSUME NEW rows, NEW more, rows \subseteq more, NEW sums, NEW extra, sums \subseteq extra
  PROVE  /\ \A t : OutStored(t, rows) => OutStored(t, more)
         /\ \A t : LStored(t, sums) => LStored(t, extra)
         /\ \A t : Written(t, rows, sums) => Written(t, more, extra)
  BY DEF OutStored, LStored, Written

LEMMA ProgressStays ==
  ASSUME NEW rows, NEW more, rows \subseteq more, NEW sums, NEW extra, sums \subseteq extra,
         NEW n, n \in Nat, NEW k, k \in Nat, n <= k,
         NEW w, w \in Programs, Progress(w, rows, sums, n)
  PROVE  Progress(w, more, extra, k)
<1>1. w.tile \in Nat
  BY DEF Programs
<1> QED BY <1>1, StoredStays DEF Progress

(* The jobs not yet taken are left after a step, or are w's.               *)
LeavesJobs(w, left, n) ==
  \A j \in Jobs : Untaken(j, grid, counter) =>
                    Untaken(j, left, n) \/ (w # Idle /\ JobOf(w) = j)

(* A step of one workgroup keeps the work together if it goes on with its  *)
(* job, or has done it, and takes the job that is not left.                *)
LEMMA WorkingKept ==
  ASSUME Shape, Working, launch' = launch,
         NEW c \in Slots, NEW w, wg' = [wg EXCEPT ![c] = w],
         NEW rows, rows = DOMAIN Out', DOMAIN Out \subseteq rows,
         NEW sums, sums = DOMAIN L', DOMAIN L \subseteq sums,
         NEW n, n = counter', n \in Nat, counter <= n,
         NEW left, left = grid',
         w # Idle => Progress(w, rows, sums, n),
         LeavesJobs(w, left, n),
         wg[c] # Idle => \/ w # Idle /\ JobOf(w) = JobOf(wg[c])
                         \/ JobOf(wg[c]) \notin Jobs
                         \/ Written(JobTile(JobOf(wg[c])), rows, sums),
         w = Idle /\ Persistent => n >= NumTiles
  PROVE  Working'
<1>1. wg \in [Slots -> {Idle} \cup Programs] /\ counter \in Nat
  BY DEF Shape
<1>2. \A d \in Slots : wg'[d] = IF d = c THEN w ELSE wg[d]
  BY <1>1
<1>3. ASSUME NEW d \in Slots, NEW v, v = wg'[d], v # Idle PROVE Progress(v, rows, sums, n)
  <2>1. CASE d = c
    BY <1>2, <1>3, <2>1
  <2>2. CASE d # c
    <3>1. v = wg[d] /\ v \in Programs /\ Progress(v, DOMAIN Out, DOMAIN L, counter)
      BY <1>1, <1>2, <1>3, <2>2 DEF Working
    <3> QED BY <1>1, <3>1, ProgressStays
  <2> QED BY <2>1, <2>2
<1>4. ASSUME NEW j \in Jobs
      PROVE  \/ Untaken(j, left, n) \/ Written(JobTile(j), rows, sums)
             \/ \E d \in Slots : wg'[d] # Idle /\ JobOf(wg'[d]) = j
  <2>1. CASE Untaken(j, grid, counter)
    BY <1>2, <2>1 DEF LeavesJobs
  <2>2. CASE Written(JobTile(j), DOMAIN Out, DOMAIN L)
    BY <2>2, StoredStays
  <2>3. ASSUME NEW d \in Slots, wg[d] # Idle, JobOf(wg[d]) = j
        PROVE  \/ Written(JobTile(j), rows, sums)
               \/ \E e \in Slots : wg'[e] # Idle /\ JobOf(wg'[e]) = j
    BY <1>2, <2>3
  <2> QED BY <2>1, <2>2, <2>3 DEF Working
<1>5. Persistent => \/ left = Grid \/ n >= NumTiles
                    \/ \E d \in Slots : wg'[d] # Idle
  BY <1>2
<1>6. ASSUME NEW d \in Slots, NEW v, v = wg'[d], (wg[d] # Idle)'
      PROVE  Progress(wg[d], DOMAIN Out, DOMAIN L, counter)'
  <2>1. Progress(v, rows, sums, n)
    BY <1>3, <1>6 DEF Idle
  <2>2. Progress(v, rows, sums, n)'
    BY <2>1, JobsStay
  <2> QED BY <1>6, <2>2
<1> QED
  BY <1>4, <1>5, <1>6, JobsStay, AddressesStay DEF Working, Idle

(* The job of a working slot is one of the launch unless it is past them.  *)
LEMMA JobIsTile ==
  ASSUME NEW w, w \in Programs
  PROVE  JobTile(JobOf(w)) = Tile(w)
  BY DEF JobTile, JobOf, Tile

LEMMA AtJob ==
  ASSUME NEW p, NEW place, NEW go
  PROVE  JobOf(At(p, place, go, p.tile)) = JobOf(p) /\ Tile(At(p, place, go, p.tile)) = Tile(p)
  BY SameTile DEF At, JobOf

(* A step by which a workgroup moves on in its tile.                       *)
LEMMA MovesOn ==
  ASSUME Shape, Working, UNCHANGED <<launch, grid, counter>>,
         NEW c \in Slots, wg[c].pc # "idle", NEW place, NEW go, go \in BOOLEAN,
         place \in {"loop", "zero", "zero_l", "store_l", "store_out", "next"},
         wg' = [wg EXCEPT ![c] = At(wg[c], place, go, wg[c].tile)],
         DOMAIN Out \subseteq DOMAIN Out', DOMAIN L \subseteq DOMAIN L',
         place = "zero_l" => OutStored(Tile(wg[c]), DOMAIN Out'),
         place = "store_out" => LStored(Tile(wg[c]), DOMAIN L'),
         place = "next" => Written(Tile(wg[c]), DOMAIN Out', DOMAIN L'),
         Persistent => go,
         place # "loop"
  PROVE  Working'
<1> DEFINE p == wg[c]
           w == At(p, place, go, p.tile)
           rows == DOMAIN Out'
           sums == DOMAIN L'
<1>1. p \in Programs /\ p # Idle
  BY WorkingSlot DEF Idle
<1>2. Progress(p, DOMAIN Out, DOMAIN L, counter) /\ counter \in Nat
  BY <1>1 DEF Working, Shape
<1>3. Progress(p, rows, sums, counter)
  <2> HIDE DEF p
  <2> QED BY <1>1, <1>2, ProgressStays
<1>4. /\ w # Idle /\ w.pc = place /\ w.tile = p.tile /\ w.continue = go
      /\ JobOf(w) = JobOf(p) /\ Tile(w) = Tile(p)
  <2> HIDE DEF p
  <2>1. w # Idle /\ w.pc = place /\ w.tile = p.tile
    BY DEF At, Idle
  <2>2. w.continue = go
    BY DEF At
  <2>3. JobOf(w) = JobOf(p) /\ Tile(w) = Tile(p)
    BY AtJob
  <2> QED BY <2>1, <2>2, <2>3
<1>5. /\ place = "zero_l" => OutStored(Tile(p), rows)
      /\ place = "store_out" => LStored(Tile(p), sums)
      /\ place = "next" => Written(Tile(p), rows, sums)
  OBVIOUS
<1>6. wg' = [wg EXCEPT ![c] = w]
  OBVIOUS
<1> HIDE DEF w, p, rows, sums
<1>7. Progress(w, rows, sums, counter)
  BY <1>3, <1>4, <1>5 DEF Progress
<1> DEFINE n == counter'
           left == grid'
<1>8. /\ n = counter' /\ n \in Nat /\ counter <= n /\ left = grid' /\ n = counter /\ left = grid
  BY <1>2
<1> HIDE DEF n, left
<1>9. rows = DOMAIN Out' /\ DOMAIN Out \subseteq rows /\ sums = DOMAIN L' /\ DOMAIN L \subseteq sums
  BY DEF rows, sums
<1>10. wg[c] # Idle => w # Idle /\ JobOf(w) = JobOf(wg[c])
  BY <1>4 DEF p
<1>11. Progress(w, rows, sums, n)
  BY <1>7, <1>8
<1>12. LeavesJobs(w, left, n)
  BY <1>8 DEF LeavesJobs
<1> QED BY <1>4, <1>6, <1>8, <1>9, <1>10, <1>11, <1>12, WorkingKept

LEMMA WorkingLoop ==
  ASSUME Shape, Working, ~StopsEarly, NEW c \in Slots, Loop(c) PROVE Working'
<1> DEFINE p == wg[c]
           t == Tile(p)
           past == launch.num # 0 /\ t.start >= SeqlenQ(t.z)
           place == IF ~p.continue \/ past THEN "next"
                    ELSE IF launch.window.causal /\ NothingToDo(Intervals(t))
                    THEN "zero" ELSE "store_l"
           go == p.continue /\ ~past
<1>1. /\ p \in Programs /\ WellFormed(launch) /\ p.tile < NumTiles /\ p.pc = "loop"
      /\ UNCHANGED <<launch, grid, counter, Out, L>>
  BY WorkingSlot DEF Loop
<1>2. p \in [pc : {"loop", "zero", "zero_l", "store_l", "store_out", "next"},
             pid : Grid, continue : BOOLEAN, tile : Nat]
  BY <1>1 DEF Programs
<1>3. p.continue
  <2>1. p # Idle
    BY <1>1 DEF Idle
  <2>2. Progress(p, DOMAIN Out, DOMAIN L, counter)
    BY <2>1 DEF Working
  <2> HIDE DEF p
  <2> QED BY <1>1, <2>2 DEF Progress
<1>4. wg' = [wg EXCEPT ![c] = At(p, place, go, p.tile)]
  <2>1. wg' = [wg EXCEPT ![c].continue = go, ![c].pc = place]
    BY DEF Loop
  <2>2. wg \in [Slots -> {Idle} \cup Programs]
    BY DEF Shape
  <2>3. wg' = [wg EXCEPT ![c] = [[p EXCEPT !.continue = go] EXCEPT !.pc = place]]
    <3> HIDE DEF go, place
    <3> QED BY <2>1, <2>2
  <2>4. [[p EXCEPT !.continue = go] EXCEPT !.pc = place] = At(p, place, go, p.tile)
    <3> HIDE DEF go, place, p
    <3> QED BY <1>1, MovedOn
  <2> QED BY <2>3, <2>4
<1>5. place \in {"next", "zero", "store_l"} /\ go \in BOOLEAN
  BY <1>2
<1>6. ASSUME place = "next" PROVE Written(t, DOMAIN Out, DOMAIN L)
  <2>1. past
    BY <1>3, <1>6
  <2>2. t \in TileFrame
    <3>1. p.pid \in Grid /\ p.tile \in Nat
      BY <1>2
    <3> QED BY <1>1, <3>1, TileOfProgram
  <2> HIDE DEF t
  <2>3. t.z \in Entries /\ t.start \in {i * BLOCK_M : i \in 0..(TilesPerHead - 1)}
    BY <2>2 DEF TileFrame
  <2>4. t.start \in Nat /\ SeqlenQ(t.z) \in Nat /\ BLOCK_M \in Nat
    <3>1. BLOCK_M \in Nat /\ SeqlenQ(t.z) \in Nat
      BY <1>1, <2>3, Constants, Lengths DEF Positive
    <3>2. PICK i \in 0..(TilesPerHead - 1) : t.start = i * BLOCK_M
      BY <2>3
    <3>3. i \in Nat
      OBVIOUS
    <3> QED BY <3>1, <3>2, <3>3, ProductNat
  <2>5. TileRows(t) = {}
    BY <2>1, <2>4 DEF TileRows, InBounds
  <2> QED BY <2>5 DEF Written, OutStored, LStored
<1>7. Persistent => go
  <2>1. Persistent => ~past
    BY DEF Persistent
  <2> QED BY <1>3, <2>1
<1> HIDE DEF place, go
<1> QED BY <1>1, <1>4, <1>5, <1>6, <1>7, MovesOn

LEMMA GotoMovesOn ==
  ASSUME Shape, Working, UNCHANGED <<launch, grid, counter>>,
         NEW c \in Slots, wg[c].pc \notin {"idle", "loop"}, NEW place, Goto(c, place),
         place \in {"zero_l", "store_out", "next"},
         DOMAIN Out \subseteq DOMAIN Out', DOMAIN L \subseteq DOMAIN L',
         place = "zero_l" => OutStored(Tile(wg[c]), DOMAIN Out'),
         place = "store_out" => LStored(Tile(wg[c]), DOMAIN L'),
         place = "next" => Written(Tile(wg[c]), DOMAIN Out', DOMAIN L')
  PROVE  Working'
<1> DEFINE go == wg[c].continue
<1>1. wg' = [wg EXCEPT ![c] = At(wg[c], place, go, wg[c].tile)]
  BY GotoAt
<1>2. wg[c] \in Programs /\ wg[c] # Idle
  BY WorkingSlot DEF Idle
<1>3. go \in BOOLEAN
  BY <1>2 DEF Programs
<1>4. Persistent => go
  BY <1>2 DEF Working, Progress
<1> HIDE DEF go
<1> QED BY <1>1, <1>3, <1>4, MovesOn

LEMMA LStores ==
  ASSUME NEW t, NEW ms, NEW early, StoreL(t, ms, early), TileRows(t) \subseteq ms
  PROVE  DOMAIN L \subseteq DOMAIN L' /\ LStored(t, DOMAIN L')
<1>1. DOMAIN L' = {LseAddr(t.z, t.h, m) : m \in ms} \cup DOMAIN L
  BY DEF StoreL, Store
<1> QED BY <1>1 DEF LStored

LEMMA WorkingZeroOut ==
  ASSUME Shape, Working, NEW c \in Slots, ZeroOut(c) PROVE Working'
<1> DEFINE t == Tile(wg[c])
<1>1. /\ wg[c].pc = "zero" /\ Goto(c, "zero_l") /\ UNCHANGED <<launch, grid, counter, L>>
      /\ Out' = Store(Out, LAMBDA m : RowAddr(t.z, t.h, m), LAMBDA m : {}, TileRows(t))
  BY DEF ZeroOut
<1>2. DOMAIN Out \subseteq DOMAIN Out' /\ OutStored(t, DOMAIN Out')
  <2>1. DOMAIN Out' = {RowAddr(t.z, t.h, m) : m \in TileRows(t)} \cup DOMAIN Out
    BY <1>1 DEF Store
  <2> QED BY <2>1 DEF OutStored
<1> QED BY <1>1, <1>2, GotoMovesOn

LEMMA WorkingWriteOut ==
  ASSUME Shape, Working, NEW c \in Slots, WriteOut(c) PROVE Working'
<1> DEFINE t == Tile(wg[c])
<1>1. /\ wg[c].pc = "store_out" /\ Goto(c, "next") /\ UNCHANGED <<launch, grid, counter, L>>
      /\ Out' = Store(Out, LAMBDA m : RowAddr(t.z, t.h, m), LAMBDA m : Attends(t, m),
                      TileRows(t))
  BY DEF WriteOut
<1>2. DOMAIN Out \subseteq DOMAIN Out' /\ OutStored(t, DOMAIN Out')
  <2>1. DOMAIN Out' = {RowAddr(t.z, t.h, m) : m \in TileRows(t)} \cup DOMAIN Out
    BY <1>1 DEF Store
  <2> QED BY <2>1 DEF OutStored
<1>3. wg[c] # Idle
  BY <1>1 DEF Idle
<1>4. LStored(t, DOMAIN L)
  BY <1>1, <1>3 DEF Working, Progress
<1>5. Written(t, DOMAIN Out', DOMAIN L')
  BY <1>1, <1>2, <1>4 DEF Written
<1> QED BY <1>1, <1>2, <1>5, GotoMovesOn

LEMMA WorkingWriteL ==
  ASSUME Shape, Working, NEW c \in Slots, WriteL(c) PROVE Working'
<1> DEFINE t == Tile(wg[c])
<1>1. /\ wg[c].pc = "store_l" /\ Goto(c, "store_out") /\ UNCHANGED <<launch, grid, counter, Out>>
      /\ StoreL(t, TileRows(t), FALSE)
  BY DEF WriteL
<1>2. DOMAIN L \subseteq DOMAIN L' /\ LStored(t, DOMAIN L')
  <2> HIDE DEF t
  <2>1. TileRows(t) \subseteq TileRows(t)
    OBVIOUS
  <2> QED BY <1>1, <2>1, LStores
<1> QED BY <1>1, <1>2, GotoMovesOn

LEMMA WorkingZeroL ==
  ASSUME Shape, Working, ~StopsEarly, NEW c \in Slots, ZeroL(c) PROVE Working'
<1> DEFINE p == wg[c]
           t == Tile(p)
           ms == InBounds(t.start, BLOCK_M, launch.max_q)
<1>1. /\ p.pc = "zero_l" /\ UNCHANGED <<launch, grid, counter, Out>>
      /\ StoreL(t, ms, TRUE)
      /\ wg' = [wg EXCEPT ![c].pc = "next", ![c].continue = FALSE]
  BY DEF ZeroL
<1>2. p \in Programs /\ Program(p) /\ WellFormed(launch) /\ p # Idle
  BY <1>1, WorkingSlot DEF Idle
<1>3. t \in Tiles /\ FullyMasked(t)
  BY <1>1, <1>2 DEF Program
<1>4. ~Persistent
  BY <1>3 DEF StopsEarly
<1>5. TileRows(t) \subseteq ms
  <2> HIDE DEF t
  <2>1. t.z \in Entries /\ t.start \in Nat
    BY <1>2, <1>3, TileFacts
  <2>2. SeqlenQ(t.z) \in Nat /\ SeqlenQ(t.z) <= launch.max_q /\ launch.max_q \in Nat
        /\ BLOCK_M \in Nat
    BY <1>2, <2>1, Lengths, LaunchFacts, Constants DEF Positive
  <2> QED BY <2>1, <2>2 DEF TileRows, InBounds
<1>6. DOMAIN L \subseteq DOMAIN L' /\ LStored(t, DOMAIN L')
  <2> HIDE DEF t, ms
  <2> QED BY <1>1, <1>5, LStores
<1>7. OutStored(t, DOMAIN Out')
  BY <1>1, <1>2 DEF Working, Progress
<1>8. Written(t, DOMAIN Out', DOMAIN L')
  BY <1>6, <1>7 DEF Written
<1>9. wg' = [wg EXCEPT ![c] = At(p, "next", FALSE, p.tile)]
  <2>1. wg \in [Slots -> {Idle} \cup Programs]
    BY DEF Shape
  <2>2. wg' = [wg EXCEPT ![c] = [[p EXCEPT !.pc = "next"] EXCEPT !.continue = FALSE]]
    BY <1>1, <2>1
  <2>3. [[p EXCEPT !.pc = "next"] EXCEPT !.continue = FALSE] = At(p, "next", FALSE, p.tile)
    <3> HIDE DEF p
    <3>1. p = [pc |-> p.pc, pid |-> p.pid, continue |-> p.continue, tile |-> p.tile]
      BY <1>2 DEF Programs
    <3>2. [p EXCEPT !.pc = "next"]
            = [pc |-> "next", pid |-> p.pid, continue |-> p.continue, tile |-> p.tile]
      BY <3>1
    <3> DEFINE q == [pc |-> "next", pid |-> p.pid, continue |-> p.continue, tile |-> p.tile]
    <3>3. \A go : [q EXCEPT !.continue = go]
                    = [pc |-> "next", pid |-> p.pid, continue |-> go, tile |-> p.tile]
      OBVIOUS
    <3>4. [q EXCEPT !.continue = FALSE]
            = [pc |-> "next", pid |-> p.pid, continue |-> FALSE, tile |-> p.tile]
      <4> HIDE DEF q
      <4> QED BY <3>3
    <3> QED BY <3>2, <3>4 DEF At
  <2> QED BY <2>2, <2>3
<1> DEFINE go == FALSE
           place == "next"
<1>10. /\ go \in BOOLEAN /\ (Persistent => go)
       /\ place \in {"loop", "zero", "zero_l", "store_l", "store_out", "next"}
       /\ place # "loop" /\ place # "zero_l" /\ place # "store_out"
       /\ wg' = [wg EXCEPT ![c] = At(wg[c], place, go, wg[c].tile)]
  BY <1>4, <1>9
<1>11. /\ UNCHANGED <<launch, grid, counter>> /\ wg[c].pc # "idle"
       /\ DOMAIN Out \subseteq DOMAIN Out'
  BY <1>1
<1> HIDE DEF ms, go, place
<1> QED BY <1>6, <1>8, <1>10, <1>11, MovesOn

LEMMA WorkingNextTile ==
  ASSUME Shape, Working, NEW c \in Slots, NextTile(c) PROVE Working'
<1> DEFINE p == wg[c]
           tile == IF Persistent THEN counter ELSE NumTiles
           w == At(p, "loop", p.continue, tile)
           n == counter'
           left == grid'
<1>1. /\ p.pc = "next" /\ UNCHANGED <<launch, grid, Out, L>>
      /\ wg' = [wg EXCEPT ![c].pc = "loop", ![c].tile = tile]
      /\ counter' = IF Persistent THEN counter + 1 ELSE counter
  BY DEF NextTile
<1>2. p \in Programs /\ WellFormed(launch) /\ p # Idle
  BY <1>1, WorkingSlot DEF Idle
<1>3. wg' = [wg EXCEPT ![c] = w]
  <2>1. wg \in [Slots -> {Idle} \cup Programs]
    BY DEF Shape
  <2>2. wg' = [wg EXCEPT ![c] = [[p EXCEPT !.pc = "loop"] EXCEPT !.tile = tile]]
    <3> HIDE DEF tile
    <3> QED BY <1>1, <2>1
  <2>3. [[p EXCEPT !.pc = "loop"] EXCEPT !.tile = tile] = w
    <3> HIDE DEF tile, p
    <3>1. p = [pc |-> p.pc, pid |-> p.pid, continue |-> p.continue, tile |-> p.tile]
      BY <1>2 DEF Programs
    <3>2. [p EXCEPT !.pc = "loop"]
            = [pc |-> "loop", pid |-> p.pid, continue |-> p.continue, tile |-> p.tile]
      BY <3>1
    <3> DEFINE q == [pc |-> "loop", pid |-> p.pid, continue |-> p.continue, tile |-> p.tile]
    <3>3. [q EXCEPT !.tile = tile]
            = [pc |-> "loop", pid |-> p.pid, continue |-> p.continue, tile |-> tile]
      OBVIOUS
    <3> QED BY <3>2, <3>3 DEF At
  <2> QED BY <2>2, <2>3
<1>4. counter \in Nat /\ NumTiles \in Nat
  BY <1>2, NumTilesNat DEF Shape
<1>5. Progress(p, DOMAIN Out, DOMAIN L, counter)
  BY <1>2 DEF Working
<1>6. Written(Tile(p), DOMAIN Out, DOMAIN L)
  BY <1>1, <1>5 DEF Progress
<1>7. w # Idle /\ w.pc = "loop" /\ w.tile = tile /\ w.pid = p.pid
  <2> HIDE DEF p, tile
  <2> QED BY DEF At, Idle
<1>8. Persistent => w.continue
  <2>1. Persistent => p.continue
    BY <1>5 DEF Progress
  <2>2. \A go : At(p, "loop", go, tile).continue = go
    BY DEF At
  <2>3. w.continue = p.continue
    <3> HIDE DEF p, tile
    <3> QED BY <2>2
  <2> QED BY <2>1, <2>3
<1> HIDE DEF w, p
<1>9. ~Persistent => Tile(w) = Tile(p) /\ JobOf(w) = JobOf(p)
  BY <1>7 DEF Tile, JobOf
<1>10. /\ Persistent => tile = counter /\ n = counter + 1
       /\ ~Persistent => tile = NumTiles /\ n = counter
  BY <1>1
<1> HIDE DEF tile, n
<1>11. n \in Nat /\ counter <= n
  BY <1>4, <1>10
<1>12. Progress(w, DOMAIN Out, DOMAIN L, n)
  BY <1>4, <1>6, <1>7, <1>8, <1>9, <1>10 DEF Progress
<1>13. \A j \in Jobs : Untaken(j, grid, counter) =>
                         Untaken(j, left, n) \/ (w # Idle /\ JobOf(w) = j)
  <2>1. CASE Persistent
    <3>1. Jobs = 0..(NumTiles - 1) /\ JobOf(w) = counter
      BY <1>7, <1>10, <2>1 DEF Jobs, JobOf
    <3> QED BY <1>4, <1>7, <1>10, <2>1, <3>1 DEF Untaken
  <2>2. CASE ~Persistent
    BY <1>1, <2>2 DEF Untaken
  <2> QED BY <2>1, <2>2
<1>14. Written(JobTile(JobOf(p)), DOMAIN Out', DOMAIN L')
  BY <1>1, <1>2, <1>6, JobIsTile
<1>15. n = counter' /\ left = grid'
  BY DEF n
<1> HIDE DEF left
<1> DEFINE rows == DOMAIN Out'
           sums == DOMAIN L'
<1>16. /\ rows = DOMAIN Out' /\ DOMAIN Out \subseteq rows /\ sums = DOMAIN L'
       /\ DOMAIN L \subseteq sums /\ Progress(w, rows, sums, n)
       /\ Written(JobTile(JobOf(wg[c])), rows, sums)
  BY <1>1, <1>12, <1>14 DEF p
<1> HIDE DEF rows, sums
<1>17. launch' = launch /\ w # Idle
  BY <1>1, <1>7
<1>18. LeavesJobs(w, left, n)
  BY <1>13 DEF LeavesJobs
<1> QED BY <1>3, <1>11, <1>15, <1>16, <1>17, <1>18, WorkingKept

LEMMA WorkingExit ==
  ASSUME Shape, Working, NEW c \in Slots, Exit(c) PROVE Working'
<1> DEFINE p == wg[c]
           w == Idle
           n == counter'
           left == grid'
           rows == DOMAIN Out'
           sums == DOMAIN L'
<1>1. /\ p.pc = "loop" /\ p.tile >= NumTiles /\ UNCHANGED <<launch, grid, counter, Out, L>>
      /\ wg' = [wg EXCEPT ![c] = w]
  BY DEF Exit
<1>2. p \in Programs /\ WellFormed(launch) /\ p # Idle
  BY <1>1, WorkingSlot DEF Idle
<1>3. counter \in Nat /\ NumTiles \in Nat /\ p.tile \in Nat
  BY <1>2, NumTilesNat DEF Shape, Programs
<1>4. Progress(p, DOMAIN Out, DOMAIN L, counter)
  BY <1>2 DEF Working
<1> HIDE DEF p
<1>5. Persistent => counter >= NumTiles /\ JobOf(p) \notin Jobs
  BY <1>1, <1>3, <1>4 DEF Progress, Jobs, JobOf
<1>6. ~Persistent => Written(JobTile(JobOf(p)), DOMAIN Out, DOMAIN L)
  BY <1>1, <1>2, <1>4, JobIsTile DEF Progress
<1>7. LeavesJobs(w, left, n)
  BY <1>1 DEF LeavesJobs
<1>8. /\ rows = DOMAIN Out' /\ DOMAIN Out \subseteq rows /\ sums = DOMAIN L'
      /\ DOMAIN L \subseteq sums /\ n = counter' /\ left = grid' /\ n \in Nat /\ counter <= n
      /\ launch' = launch /\ w = Idle
      /\ (Persistent => n >= NumTiles /\ JobOf(wg[c]) \notin Jobs)
      /\ (~Persistent => Written(JobTile(JobOf(wg[c])), rows, sums))
  BY <1>1, <1>3, <1>5, <1>6 DEF p
<1>9. wg' = [wg EXCEPT ![c] = w]
  BY <1>1
<1> HIDE DEF w, n, left, rows, sums
<1> QED BY <1>7, <1>8, <1>9, WorkingKept

LEMMA WorkingStart ==
  ASSUME Shape, Working, NEW c \in Slots, Start(c) PROVE Working'
<1> DEFINE n == counter'
           left == grid'
           rows == DOMAIN Out'
           sums == DOMAIN L'
           tile == IF Persistent THEN counter ELSE 0
<1>1. PICK i \in grid :
        /\ grid' = grid \ {i}
        /\ wg' = [wg EXCEPT ![c] = [pc |-> "loop", pid |-> i, continue |-> TRUE,
                                    tile |-> IF Persistent THEN counter ELSE 0]]
  BY DEF Start
<1> DEFINE w == [pc |-> "loop", pid |-> i, continue |-> TRUE, tile |-> tile]
<1>2. /\ counter' = IF Persistent THEN counter + 1 ELSE counter
      /\ launch' = launch /\ Out' = Out /\ L' = L /\ wg[c].pc = "idle"
  BY DEF Start
<1>3. wg[c] = Idle
  <2>1. wg[c] \in {Idle} \cup Programs
    BY DEF Shape
  <2> QED BY <1>2, <2>1 DEF Programs
<1>4. counter \in Nat
  BY DEF Shape
<1>5. w # Idle /\ w.pc = "loop" /\ w.pid = i /\ w.continue /\ w.tile = tile
  BY DEF Idle
<1>6. wg' = [wg EXCEPT ![c] = w]
  BY <1>1
<1>7. /\ Persistent => tile = counter /\ n = counter + 1
      /\ ~Persistent => tile = 0 /\ n = counter /\ NumTiles = 1
  BY <1>2 DEF NumTiles
<1> HIDE DEF w, n, tile
<1>8. Progress(w, rows, sums, n)
  BY <1>4, <1>5, <1>7 DEF Progress
<1>9. LeavesJobs(w, left, n)
  <2>1. CASE Persistent
    <3>1. JobOf(w) = counter
      BY <1>5, <1>7, <2>1 DEF JobOf
    <3>2. \A j \in Jobs : j \in Int
      BY <2>1 DEF Jobs
    <3> QED BY <1>4, <1>5, <1>7, <2>1, <3>1, <3>2 DEF Untaken, LeavesJobs
  <2>2. CASE ~Persistent
    <3>1. JobOf(w) = i
      BY <1>5, <2>2 DEF JobOf
    <3> QED BY <1>1, <1>5, <2>2, <3>1 DEF Untaken, LeavesJobs
  <2> QED BY <2>1, <2>2
<1>10. n \in Nat /\ counter <= n
  BY <1>4, <1>7
<1>11. /\ rows = DOMAIN Out' /\ DOMAIN Out \subseteq rows /\ sums = DOMAIN L'
       /\ DOMAIN L \subseteq sums /\ n = counter' /\ left = grid'
  BY <1>2 DEF n
<1> HIDE DEF left, rows, sums
<1>12. launch' = launch
  BY <1>2
<1> QED BY <1>3, <1>5, <1>6, <1>8, <1>9, <1>10, <1>11, <1>12, WorkingKept

LEMMA WorkingForward ==
  ASSUME Shape, Working, ~StopsEarly, NEW c \in Slots, ForwardStep(c) PROVE Working'
  BY WorkingStart, WorkingLoop, WorkingZeroOut, WorkingZeroL, WorkingWriteL, WorkingWriteOut,
     WorkingNextTile, WorkingExit DEF ForwardStep

(* Every tile is the work of a program. *)
LEMMA RadixParts ==
  ASSUME NEW S \in Positive, NEW d \in Nat, NEW x \in Nat, x < S
  PROVE  (d * S + x) \div S = d /\ (d * S + x) % S = x /\ d * S + x \in Nat
<1> DEFINE v == d * S + x
           q == v \div S
<1>1. d * S \in Nat /\ v \in Nat
  BY ProductNat DEF Positive
<1>2. /\ q \in Nat /\ q * S <= v /\ v < q * S + S /\ v % S = v - q * S
  <2> HIDE DEF v
  <2> QED BY <1>1, DivFloor DEF Positive
<1>3. d * S <= v /\ v < d * S + S
  BY <1>1 DEF Positive
<1> HIDE DEF v, q
<1>4. q = d
  <2>1. v \in Int /\ q \in Int /\ d \in Int
    BY <1>1, <1>2
  <2> QED BY <1>2, <1>3, <2>1, FloorUnique
<1>5. v % S = x
  BY <1>1, <1>2, <1>4 DEF v
<1> QED BY <1>1, <1>4, <1>5 DEF v, q

LEMMA RemapReaches ==
  ASSUME NEW total \in Positive, NEW xcds \in Positive, NEW h \in 0..(total - 1)
  PROVE  \E x \in 0..(total - 1) : remap_xcd(x, total, xcds) = h
<1> DEFINE S == 0..(total - 1)
           f == [x \in S |-> remap_xcd(x, total, xcds)]
<1>1. f \in [S -> S] /\ \A x, y \in S : f[x] = f[y] => x = y
  BY RemapPermutes
<1>2. IsFiniteSet(S)
  BY FS_Interval, 0 \in Int, total - 1 \in Int DEF Positive
<1> HIDE DEF S, f
<1>3. f \in Injection(S, S)
  BY <1>1 DEF Injection, IsInjective
<1>4. f \in Surjection(S, S)
  BY <1>2, <1>3, FS_Injection
<1>5. \E x \in S : f[x] = h
  BY <1>4 DEF Surjection, S
<1> QED BY <1>5 DEF f, S

LEMMA GridJob ==
  ASSUME WellFormed(launch), ~Persistent, NEW z \in Entries, NEW h \in Heads,
         NEW i \in 0..(TilesPerHead - 1)
  PROVE  \E j \in Jobs : JobTile(j) = [z |-> z, h |-> h, start |-> i * BLOCK_M]
<1>1. /\ launch.Hq \in Positive /\ launch.xcds \in Positive
      /\ Entries = 0..(Batch - 1) /\ Heads = 0..(launch.Hq - 1)
  BY LaunchFacts DEF Entries, Heads
<1>2. CASE launch.xcds > 1
  <2>1. PICK x \in 0..(launch.Hq - 1) : remap_xcd(x, launch.Hq, launch.xcds) = h
    BY <1>1, RemapReaches
  <2> DEFINE j == <<x, i, z>>
  <2>2. j \in Jobs
    BY <1>1, <1>2 DEF Jobs, Grid
  <2>3. JobTile(j) = [z |-> z, h |-> remap_xcd(x, launch.Hq, launch.xcds), start |-> i * BLOCK_M]
    BY <1>2 DEF JobTile, Tile
  <2> QED BY <2>1, <2>2, <2>3
<1>3. CASE ~(launch.xcds > 1)
  <2> DEFINE j == <<i, h, z>>
  <2>1. j \in Jobs
    BY <1>1, <1>3 DEF Jobs, Grid
  <2>2. JobTile(j) = [z |-> z, h |-> h, start |-> i * BLOCK_M]
    BY <1>3 DEF JobTile, Tile
  <2> QED BY <2>1, <2>2
<1> QED BY <1>2, <1>3

LEMMA RadixBelow ==
  ASSUME NEW S \in Positive, NEW c \in Nat, NEW d \in Nat, NEW x \in Nat, x < S, d < c
  PROVE  d * S + x < c * S
<1>1. (c - d - 1) * S \in Nat
  BY ProductNat DEF Positive
<1>2. (c - d - 1) * S = c * S - d * S - S /\ c * S \in Int /\ d * S \in Int
  BY DEF Positive
<1> QED BY <1>1, <1>2 DEF Positive

LEMMA PersistentJob ==
  ASSUME WellFormed(launch), Persistent, NEW z \in Entries, NEW h \in Heads,
         NEW i \in 0..(TilesPerHead - 1)
  PROVE  \E j \in Jobs : JobTile(j) = [z |-> z, h |-> h, start |-> i * BLOCK_M]
<1> DEFINE T == TilesPerHead
           P == T * launch.Hq
           x == h * T + i
           j == z * P + x
<1>1. /\ T \in Positive /\ launch.Hq \in Positive /\ launch.batch \in Positive
      /\ launch.num = 0
  BY Constants, CdivPositive, LaunchFacts DEF TilesPerHead, Persistent
<1>2. /\ z \in Nat /\ z < launch.batch /\ h \in Nat /\ h < launch.Hq /\ i \in Nat /\ i < T
  BY <1>1 DEF Entries, Heads, Batch, Positive
<1>3. NumTiles = launch.batch * P
  <2>1. NumTiles = T * launch.Hq * launch.batch
    BY DEF NumTiles
  <2> QED BY <1>1, <2>1 DEF Positive
<1>4. P = launch.Hq * T /\ P \in Positive
  BY <1>1 DEF Positive
<1> HIDE DEF T, P
<1>5. x \div T = h /\ x % T = i /\ x \in Nat
  BY <1>1, <1>2, RadixParts
<1>6. x < P
  <2>1. launch.Hq \in Nat
    BY <1>1 DEF Positive
  <2> QED BY <1>1, <1>2, <1>4, <2>1, RadixBelow
<1> HIDE DEF x
<1>7. j \div P = z /\ j % P = x /\ j \in Nat
  BY <1>2, <1>4, <1>5, <1>6, RadixParts
<1>8. j < launch.batch * P
  <2>1. launch.batch \in Nat
    BY <1>1 DEF Positive
  <2> QED BY <1>2, <1>4, <1>5, <1>6, <2>1, RadixBelow
<1> HIDE DEF j
<1>9. launch.batch * P \in Int
  BY <1>1, <1>4 DEF Positive
<1>10. j \in Jobs
  BY <1>3, <1>7, <1>8, <1>9 DEF Jobs
<1>11. JobTile(j) = [z |-> j \div P, h |-> (j % P) \div T, start |-> ((j % P) % T) * BLOCK_M]
  BY DEF JobTile, Tile, P, T
<1> QED BY <1>5, <1>7, <1>10, <1>11

(* A query lies in a tile of the grid of its head. *)
LEMMA QueryTile ==
  ASSUME WellFormed(launch), NEW z \in Entries, NEW m \in Queries(z), NEW B \in Positive
  PROVE  /\ m \in Nat /\ m \div B \in 0..(cdiv(launch.max_q, B) - 1)
         /\ m \in InBounds((m \div B) * B, B, SeqlenQ(z))
<1>1. /\ SeqlenQ(z) \in Nat /\ SeqlenQ(z) <= launch.max_q /\ launch.max_q \in Positive
  BY Lengths, LaunchFacts
<1>2. m \in Nat /\ m < SeqlenQ(z) /\ m < launch.max_q
  BY <1>1 DEF Queries, Positive
<1>3. /\ m \div B \in Nat /\ m \div B <= (launch.max_q - 1) \div B
      /\ (launch.max_q - 1) \div B \in Nat
      /\ cdiv(launch.max_q, B) - 1 = (launch.max_q - 1) \div B
  BY <1>1, <1>2, KeyBlocks
<1> DEFINE i == m \div B
<1>4. i \in Nat /\ i * B <= m /\ m < i * B + B
  BY <1>2, DivFloor
<1>5. i \in 0..(cdiv(launch.max_q, B) - 1)
  <2> DEFINE v == (launch.max_q - 1) \div B
             u == cdiv(launch.max_q, B) - 1
  <2>1. i <= v /\ v \in Nat /\ u = v
    BY <1>3
  <2> HIDE DEF i, v, u
  <2>2. i \in 0..u
    BY <1>4, <2>1
  <2> QED BY <2>2 DEF u
<1> HIDE DEF i
<1>6. i * B \in Nat
  BY <1>4, ProductNat DEF Positive
<1>7. m \in InBounds(i * B, B, SeqlenQ(z))
  BY <1>1, <1>2, <1>4, <1>6 DEF InBounds, Positive
<1> QED BY <1>2, <1>5, <1>7 DEF i

LEMMA WorkDone ==
  ASSUME Shape, Working, ForwardDone PROVE AllWritten
<1>1. WellFormed(launch) /\ counter \in Nat
  BY Constants DEF Shape
<1>2. ASSUME NEW j \in Jobs PROVE Written(JobTile(j), DOMAIN Out, DOMAIN L)
  <2>1. grid = {} /\ \A c \in Slots : wg[c] = Idle
    BY DEF ForwardDone
  <2>2. ~Untaken(j, grid, counter)
    <3>1. CASE Persistent
      <4>1. Grid # {}
        <5>1. /\ NumTiles \in Positive /\ NUM_CU \in Positive
          <6>1. TilesPerHead \in Positive /\ launch.Hq \in Positive /\ launch.batch \in Positive
            BY <1>1, Constants, CdivPositive, LaunchFacts DEF TilesPerHead
          <6>2. TilesPerHead * launch.Hq \in Positive
            BY <6>1 DEF Positive
          <6>3. TilesPerHead * launch.Hq * launch.batch \in Positive
            BY <6>1, <6>2 DEF Positive
          <6> QED BY <3>1, <6>3, Constants DEF NumTiles
        <5>2. Smaller(NUM_CU, NumTiles) \in Positive
          BY <5>1 DEF Smaller
        <5>3. 0 \in 0..(Smaller(NUM_CU, NumTiles) - 1)
          BY <5>2 DEF Positive
        <5>4. <<0, 0, 0>> \in Grid
          BY <3>1, <5>3 DEF Grid
        <5> QED BY <5>4
      <4>2. counter >= NumTiles
        BY <2>1, <3>1, <4>1 DEF Working
      <4>3. NumTiles \in Nat
        BY <1>1, NumTilesNat
      <4>4. j \in 0..(NumTiles - 1)
        BY <3>1 DEF Jobs
      <4> QED BY <1>1, <3>1, <4>2, <4>3, <4>4 DEF Untaken
    <3>2. CASE ~Persistent
      BY <2>1, <3>2 DEF Untaken
    <3> QED BY <3>1, <3>2
  <2> QED BY <2>1, <2>2 DEF Working
<1>3. SUFFICES ASSUME NEW z \in Entries, NEW h \in Heads, NEW m \in Queries(z)
               PROVE  RowAddr(z, h, m) \in DOMAIN Out /\ LseAddr(z, h, m) \in DOMAIN L
  BY DEF AllWritten, RowsSatisfy
<1> DEFINE i == m \div BLOCK_M
           t == [z |-> z, h |-> h, start |-> i * BLOCK_M]
<1>4. i \in 0..(TilesPerHead - 1) /\ m \in TileRows(t)
  <2>1. /\ i \in 0..(TilesPerHead - 1)
        /\ m \in InBounds(i * BLOCK_M, BLOCK_M, SeqlenQ(z))
    BY <1>1, Constants, QueryTile DEF TilesPerHead
  <2> HIDE DEF i
  <2> QED BY <2>1 DEF TileRows
<1> HIDE DEF i
<1>5. PICK j \in Jobs : JobTile(j) = t
  BY <1>1, <1>4, GridJob, PersistentJob
<1>6. Written(t, DOMAIN Out, DOMAIN L) /\ t.z = z /\ t.h = h
  BY <1>2, <1>5
<1> QED BY <1>4, <1>6 DEF Written, OutStored, LStored

LEMMA AllWrittenStays ==
  ASSUME AllWritten, UNCHANGED <<launch, Out, L>> PROVE AllWritten'
  BY AddressesStay DEF AllWritten, RowsSatisfy

LEMMA CoverageInit == ASSUME Init PROVE Coverage
<1>1. /\ kernel = "forward" /\ counter = 0 /\ grid = Grid /\ launch \in Launches
      /\ wg = [c \in Slots |-> Idle]
  BY DEF Init, ForwardInit
<1>2. \A j \in Jobs : Untaken(j, grid, counter)
  <2>1. CASE Persistent
    BY <1>1, <2>1 DEF Jobs, Untaken
  <2>2. CASE ~Persistent
    BY <1>1, <2>2 DEF Jobs, Untaken
  <2> QED BY <2>1, <2>2
<1> QED BY <1>1, <1>2 DEF Coverage, Working

LEMMA WorkingWaits ==
  ASSUME Working, UNCHANGED <<launch, wg, grid, counter, Out, L>> PROVE Working'
<1>1. \A c \in Slots : wg[c] # Idle => Progress(wg[c], DOMAIN Out, DOMAIN L, counter)
  BY DEF Working
<1>2. ASSUME NEW d \in Slots, NEW v, v = wg'[d], (wg[d] # Idle)'
      PROVE  Progress(wg[d], DOMAIN Out, DOMAIN L, counter)'
  <2> DEFINE rows == DOMAIN Out
             sums == DOMAIN L
             n == counter
  <2>1. Progress(v, rows, sums, n) /\ rows = DOMAIN Out' /\ sums = DOMAIN L' /\ n = counter'
    BY <1>1, <1>2 DEF Idle
  <2> HIDE DEF rows, sums, n
  <2>2. \A w, r, s, k : Progress(w, r, s, k)' <=> Progress(w, r, s, k)
    BY JobsStay
  <2> QED BY <1>2, <2>1, <2>2
<1> QED BY <1>2, JobsStay, AddressesStay DEF Working, Idle

LEMMA CoverageNext ==
  ASSUME Shape, Coverage, [Next]_vars PROVE Coverage'
<1>1. launch' = launch
  <2>1. ASSUME NEW c \in Slots, Forward(c) PROVE launch' = launch
    BY <2>1 DEF Forward, ForwardStep, Start, Loop, ZeroOut, ZeroL, WriteL, WriteOut, NextTile, Exit
  <2>2. ASSUME NEW p \in grid, Backward(p) PROVE launch' = launch
    BY <2>2, BackwardLeaves
  <2> QED BY <2>1, <2>2 DEF Next, NextKernel, Idling, vars, forward
<1>2. SUFFICES ASSUME ~StopsEarly
               PROVE  (IF kernel = "forward" THEN Working ELSE AllWritten)'
  BY <1>1, JobsStay DEF Coverage
<1>3. ASSUME NEW c \in Slots, Forward(c)
      PROVE  (IF kernel = "forward" THEN Working ELSE AllWritten)'
  <2>1. kernel = "forward" /\ kernel' = kernel /\ ForwardStep(c)
    BY <1>3 DEF Forward, backward
  <2>2. Working'
    BY <1>2, <2>1, WorkingForward DEF Coverage
  <2> QED BY <2>1, <2>2
<1>4. ASSUME NEW p \in grid, Backward(p)
      PROVE  (IF kernel = "forward" THEN Working ELSE AllWritten)'
  <2>1. AllWritten' /\ kernel' # "forward"
    BY <1>2, <1>4, BackwardLeaves, AllWrittenStays DEF Coverage
  <2> QED BY <2>1
<1>5. CASE NextKernel
  <2>1. UNCHANGED <<launch, Out, L>> /\ ForwardDone /\ kernel' # "forward"
    BY <1>5 DEF NextKernel, Following, Shape, Kernels
  <2>2. AllWritten
    BY <1>2, <2>1, WorkDone DEF Coverage
  <2>3. AllWritten'
    BY <2>1, <2>2, AllWrittenStays
  <2> QED BY <2>1, <2>3
<1>6. CASE UNCHANGED vars
  <2>1. UNCHANGED <<launch, wg, grid, counter, Out, L, kernel>>
    BY <1>6 DEF vars, forward, backward
  <2> QED BY <1>2, <2>1, WorkingWaits, AllWrittenStays DEF Coverage
<1> QED BY <1>3, <1>4, <1>5, <1>6 DEF Next, Idling

-----------------------------------------------------------------------------
(* The tiles of the backward kernels, of queries and of keys: each adds    *)
(* the elements of its rows, or columns, once.                             *)

(* A term of a gradient, whichever tile it is met in. *)
Entry(h, m, n, number) == [h |-> h, m |-> m, n |-> n, times |-> 1, number |-> number]

LEMMA DqExact ==
  ASSUME WellFormed(launch), NEW z \in Entries, NEW h \in Heads, NEW start \in Nat,
         NEW BQ \in Positive, NEW BK \in Positive, BK % PHILOX_RN_PER_OFFSET = 0,
         NEW m \in QueryRows(z, start, BQ), SeqlenK(z) > 0
  PROVE  DqElements(z, h, start, m, BQ, BK)
           = {Entry(h, m, n, Number(z, h, m, n)) : n \in Attended(z, m)}
<1> DEFINE sq == SeqlenQ(z)
           sk == SeqlenK(z)
           w == Window(z)
           iv == DqIntervals(z, start, BQ, BK)
           times(n) == Times(iv, w, m, n, sq, sk, BK)
<1>1. /\ sq \in Nat /\ sk \in Positive
  BY Lengths DEF Positive
<1>2. /\ m \in Nat /\ start <= m /\ m < start + BQ /\ m < sq /\ sq \in Positive
  BY <1>1 DEF QueryRows, InBounds, Positive
<1>3. w.left \in Int /\ w.right \in Int
  BY WindowBounds
<1>4. iv = calculate_intervals(w, start, sq, sk, BQ, BK)
  BY DEF DqIntervals
<1>5. Attended(z, m) = {n \in 0..(sk - 1) : Allowed(w, m, n)}
  BY DEF Attended, Keys
<1>6. DqElements(z, h, start, m, BQ, BK)
        = {[h |-> h, m |-> m, n |-> n, times |-> times(n),
            number |-> DropoutNumber(z, h, start, n - (n % BK), m, n)] :
             n \in {n \in Columns(iv, BK) : times(n) > 0}}
  BY DEF DqElements
<1> HIDE DEF sq, sk, w, iv
<1>7. /\ {n \in Columns(iv, BK) : times(n) > 0} = Attended(z, m)
      /\ \A n \in Attended(z, m) : n \in Nat /\ times(n) = 1
  <2>1. {n \in Columns(iv, BK) : times(n) > 0} = {n \in 0..(sk - 1) : Allowed(w, m, n)}
    BY <1>1, <1>2, <1>3, <1>4, ColumnsExact
  <2>2. ASSUME NEW n \in 0..(sk - 1), Allowed(w, m, n) PROVE n \in Nat /\ times(n) = 1
    <3>1. Times(iv, w, m, n, sq, sk, BK) = 1
      BY <1>1, <1>2, <1>3, <1>4, <2>2, ColumnsExact, SMTT(40)
    <3> QED BY <1>1, <3>1 DEF Positive
  <2> HIDE DEF times
  <2> QED BY <1>5, <2>1, <2>2
<1> HIDE DEF times
<1>8. ASSUME NEW n \in Attended(z, m)
      PROVE  DropoutNumber(z, h, start, n - (n % BK), m, n) = Number(z, h, m, n)
  <2> DEFINE y == n - (n % BK)
  <2>1. n \in Nat /\ y \in Nat /\ y <= n /\ y % PHILOX_RN_PER_OFFSET = 0
    BY <1>7, Constants, FirstOfBlock
  <2> HIDE DEF y
  <2>2. DropoutNumber(z, h, start, y, m, n) = Number(z, h, m, n)
    BY <1>2, <2>1, NumberOfElement
  <2> QED BY <2>2 DEF y
<1>9. \A n \in Attended(z, m) :
        [h |-> h, m |-> m, n |-> n, times |-> times(n),
         number |-> DropoutNumber(z, h, start, n - (n % BK), m, n)]
          = Entry(h, m, n, Number(z, h, m, n))
  BY <1>7, <1>8 DEF Entry
<1> QED BY <1>6, <1>7, <1>9

LEMMA AllowedTransposed ==
  ASSUME NEW w, NEW m, NEW n, m \in Int, n \in Int, w.left \in Int, w.right \in Int
  PROVE  Allowed(Transposed(w), n, m) <=> Allowed(w, m, n)
  BY DEF Allowed, Transposed

(* The query heads of a group. *)
LEMMA GroupHeads ==
  ASSUME WellFormed(launch)
  PROVE  /\ GroupSize \in Positive /\ launch.Hq = launch.Hk * GroupSize
         /\ \A h \in Heads : h \in Nat /\ h \div GroupSize \in 0..(launch.Hk - 1)
         /\ \A hk \in 0..(launch.Hk - 1) :
              GroupOf(hk) = (hk * GroupSize)..(hk * GroupSize + GroupSize - 1)
<1> DEFINE G == GroupSize
<1>1. /\ launch.Hq \in Positive /\ launch.Hk \in Positive /\ launch.Hq % launch.Hk = 0
  BY LaunchFacts DEF WellFormed
<1>2. G \in Nat /\ launch.Hq = G * launch.Hk
  <2> DEFINE H == launch.Hq
             K == launch.Hk
  <2>1. H \in Positive /\ K \in Positive /\ H % K = 0
    BY <1>1
  <2> HIDE DEF H, K
  <2>2. H \div K \in Nat /\ H = (H \div K) * K
    BY <2>1, DivFloor DEF Positive
  <2> QED BY <2>2 DEF H, K, GroupSize
<1> HIDE DEF G
<1>3. G \in Positive /\ launch.Hq = launch.Hk * G
  <2>1. G # 0
    <3>1. SUFFICES ASSUME G = 0 PROVE FALSE
      OBVIOUS
    <3>2. launch.Hq = 0
      BY <1>1, <1>2, <3>1 DEF Positive
    <3> QED BY <1>1, <3>2 DEF Positive
  <2> QED BY <1>1, <1>2, <2>1 DEF Positive
<1>4. ASSUME NEW h \in Heads
      PROVE  /\ h \in Nat /\ h \div G \in Nat /\ h \div G < launch.Hk
             /\ (h \div G) * G <= h /\ h < (h \div G) * G + G
  <2>1. h \in Nat /\ h < launch.Hq
    BY <1>1 DEF Heads, Positive
  <2> DEFINE d == h \div G
  <2>2. d \in Nat /\ d * G <= h /\ h < d * G + G
    BY <1>3, <2>1, DivFloor
  <2> HIDE DEF d
  <2>3. d < launch.Hk
    <3>1. SUFFICES ASSUME d >= launch.Hk PROVE FALSE
      BY <1>1, <2>2 DEF Positive
    <3>2. (d - launch.Hk) * G \in Nat
      BY <1>1, <1>3, <2>2, <3>1, ProductNat DEF Positive
    <3>3. (d - launch.Hk) * G = d * G - launch.Hk * G /\ d * G \in Int /\ launch.Hk * G \in Int
      BY <1>1, <1>3, <2>2 DEF Positive
    <3> QED BY <1>3, <2>1, <2>2, <3>2, <3>3
  <2> QED BY <2>1, <2>2, <2>3 DEF d
<1>5. ASSUME NEW hk \in 0..(launch.Hk - 1)
      PROVE  GroupOf(hk) = (hk * G)..(hk * G + G - 1)
  <2>1. hk \in Nat /\ hk < launch.Hk /\ hk * G \in Nat
    <3>1. hk \in Nat /\ hk < launch.Hk
      BY <1>1 DEF Positive
    <3> QED BY <1>3, <3>1, ProductNat DEF Positive
  <2>2. ASSUME NEW h \in GroupOf(hk) PROVE h \in (hk * G)..(hk * G + G - 1)
    <3>1. h \in Heads /\ h \div G = hk
      BY <2>2 DEF GroupOf, G
    <3>2. h \in Nat /\ hk * G <= h /\ h < hk * G + G
      BY <1>4, <3>1
    <3> QED BY <1>3, <2>1, <3>2 DEF Positive
  <2>3. ASSUME NEW h \in (hk * G)..(hk * G + G - 1) PROVE h \in GroupOf(hk)
    <3>1. h \in Nat /\ hk * G <= h /\ h < hk * G + G
      BY <1>3, <2>1 DEF Positive
    <3>2. (launch.Hk - hk - 1) * G \in Nat
      BY <1>1, <1>3, <2>1, ProductNat DEF Positive
    <3>3. /\ (launch.Hk - hk - 1) * G = launch.Hk * G - hk * G - G
          /\ launch.Hk * G \in Int /\ G \in Int
      BY <1>1, <1>3, <2>1 DEF Positive
    <3>4. h \in Heads
      BY <1>3, <2>1, <3>1, <3>2, <3>3 DEF Heads
    <3>5. h \div G = hk
      <4> DEFINE d == h \div G
      <4>1. d \in Nat /\ d * G <= h /\ h < d * G + G
        BY <1>3, <3>1, DivFloor
      <4> HIDE DEF d
      <4>2. d = hk
        <5>1. h \in Int /\ d \in Int /\ hk \in Int
          BY <2>1, <3>1, <4>1
        <5> QED BY <1>3, <3>1, <4>1, <5>1, FloorUnique
      <4> QED BY <4>2 DEF d
    <3> QED BY <3>4, <3>5 DEF GroupOf, G
  <2> QED BY <2>2, <2>3
<1>6. \A h \in Heads : h \in Nat /\ h \div G \in 0..(launch.Hk - 1)
  BY <1>1, <1>4 DEF Positive
<1> QED BY <1>3, <1>5, <1>6 DEF G

(* The queries, of all heads of a group, that attend to key n. *)
AttendedBy(z, hk, n) == {x \in GroupOf(hk) \X Queries(z) : n \in Attended(z, x[2])}

CountsRows(iv, w, n, sk, sq) ==
  /\ {m \in Columns(iv, BLOCK_M) : Times(iv, w, n, m, sk, sq, BLOCK_M) > 0}
       = {m \in 0..(sq - 1) : Allowed(w, n, m)}
  /\ \A m \in 0..(sq - 1) : Allowed(w, n, m) => Times(iv, w, n, m, sk, sq, BLOCK_M) = 1

LEMMA ColumnTile ==
  ASSUME NEW sk \in Positive, NEW sq \in Positive, NEW start \in Nat,
         NEW w, w.left \in Int, w.right \in Int,
         NEW n \in Nat, start <= n, n < start + BLOCK_N, n < sk,
         NEW iv, iv = calculate_intervals(w, start, sk, sq, BLOCK_N, BLOCK_M)
  PROVE  CountsRows(iv, w, n, sk, sq)
<1>1. BLOCK_M \in Positive /\ BLOCK_N \in Positive
  BY Constants
<1> QED BY <1>1, ColumnsExact DEF CountsRows

LEMMA DkDvExact ==
  ASSUME WellFormed(launch), NEW z \in Entries, NEW hk \in 0..(launch.Hk - 1),
         NEW start \in Nat, start % PHILOX_RN_PER_OFFSET = 0,
         NEW n \in InBounds(start, BLOCK_N, SeqlenK(z)), SeqlenQ(z) > 0
  PROVE  DkDvElements(z, hk, start, n)
           = {Entry(x[1], x[2], n, Number(z, x[1], x[2], n)) : x \in AttendedBy(z, hk, n)}
<1> DEFINE sq == SeqlenQ(z)
           sk == SeqlenK(z)
           v == Window(z)
           w == Transposed(v)
           iv == calculate_intervals(w, start, sk, sq, BLOCK_N, BLOCK_M)
           times(m) == Times(iv, w, n, m, sk, sq, BLOCK_M)
           heads == (hk * GroupSize)..(hk * GroupSize + GroupSize - 1)
           rows == {m \in Columns(iv, BLOCK_M) : times(m) > 0}
           number(h, m) == DropoutNumber(z, h, m - (m % BLOCK_M), start, m, n)
<1>1. sq \in Positive /\ sk \in Nat
  BY Lengths DEF Positive
<1>2. BLOCK_M \in Positive /\ BLOCK_N \in Positive
  BY Constants
<1>3. n \in Nat /\ start <= n /\ n < start + BLOCK_N /\ n < sk /\ sk \in Positive
  BY <1>1, <1>2 DEF InBounds, Positive
<1>4. /\ v.left \in Int /\ v.right \in Int
      /\ w.left \in Int /\ w.right \in Int
  BY WindowBounds DEF Transposed
<1>5. /\ Queries(z) = 0..(sq - 1)
      /\ \A m \in Queries(z) : n \in Attended(z, m) <=> Allowed(v, m, n)
  BY <1>1, <1>3 DEF Queries, Attended, Keys, Positive
<1>6. DkDvElements(z, hk, start, n)
        = {[h |-> h, m |-> m, n |-> n, times |-> times(m), number |-> number(h, m)] :
             h \in heads, m \in rows}
  BY DEF DkDvElements
<1>7. heads = GroupOf(hk) /\ heads \subseteq Heads
  <2>1. heads = GroupOf(hk)
    <3>1. \A k \in 0..(launch.Hk - 1) :
            GroupOf(k) = (k * GroupSize)..(k * GroupSize + GroupSize - 1)
      BY GroupHeads
    <3> QED BY <3>1, Zenon
  <2>2. GroupOf(hk) \subseteq Heads
    BY DEF GroupOf
  <2> QED BY <2>1, <2>2
<1>8. /\ rows = {m \in 0..(sq - 1) : Allowed(w, n, m)}
      /\ \A m \in rows : times(m) = 1
  <2>1. iv = calculate_intervals(w, start, sk, sq, BLOCK_N, BLOCK_M)
    OBVIOUS
  <2> HIDE DEF iv, sq, sk, w
  <2>2. CountsRows(iv, w, n, sk, sq)
    BY <1>1, <1>3, <1>4, <2>1, ColumnTile
  <2> QED BY <2>2 DEF CountsRows
<1>9. rows = {m \in Queries(z) : n \in Attended(z, m)}
  <2>1. \A m \in 0..(sq - 1) : Allowed(w, n, m) <=> Allowed(v, m, n)
    <3> HIDE DEF sq, v
    <3>1. \A m \in 0..(sq - 1) : m \in Int
      BY <1>1 DEF Positive
    <3> QED BY <1>3, <1>4, <3>1, AllowedTransposed
  <2> HIDE DEF rows, w, v, sq
  <2> QED BY <1>5, <1>8, <2>1
<1>10. ASSUME NEW h \in heads, NEW m \in rows PROVE number(h, m) = Number(z, h, m, n)
  <2>1. m \in Nat
    <3> HIDE DEF rows, sq
    <3> QED BY <1>1, <1>5, <1>9 DEF Positive
  <2> DEFINE x == m - (m % BLOCK_M)
  <2>2. x \in Nat /\ x <= m
    BY <1>2, <2>1, Constants, FirstOfBlock
  <2>3. h \in Heads
    BY <1>7
  <2> HIDE DEF x
  <2>4. DropoutNumber(z, h, x, start, m, n) = Number(z, h, m, n)
    BY <1>3, <2>1, <2>2, <2>3, NumberOfElement
  <2> QED BY <2>4 DEF x
<1> HIDE DEF times, number, rows, heads, sq, sk, v, w, iv
<1>11. \A h \in heads, m \in rows :
         [h |-> h, m |-> m, n |-> n, times |-> times(m), number |-> number(h, m)]
           = Entry(h, m, n, Number(z, h, m, n))
  BY <1>8, <1>10 DEF Entry
<1>12. DkDvElements(z, hk, start, n)
         = {Entry(h, m, n, Number(z, h, m, n)) : h \in heads, m \in rows}
  BY <1>6, <1>11
<1> DEFINE elt(h, m) == Entry(h, m, n, Number(z, h, m, n))
<1>13. {elt(h, m) : h \in heads, m \in rows} = {elt(x[1], x[2]) : x \in heads \X rows}
  <2> HIDE DEF elt
  <2> DEFINE A == {elt(h, m) : h \in heads, m \in rows}
             B == {elt(x[1], x[2]) : x \in heads \X rows}
  <2>1. ASSUME NEW h \in heads, NEW m \in rows PROVE elt(h, m) \in B
    <3> DEFINE x == <<h, m>>
    <3>1. x \in heads \X rows /\ x[1] = h /\ x[2] = m
      OBVIOUS
    <3> HIDE DEF x
    <3> QED BY <3>1
  <2>2. ASSUME NEW x \in heads \X rows PROVE elt(x[1], x[2]) \in A
    <3>1. x[1] \in heads /\ x[2] \in rows
      OBVIOUS
    <3> QED BY <3>1
  <2>3. A \subseteq B
    <3> HIDE DEF B
    <3> QED BY <2>1
  <2>4. B \subseteq A
    <3> HIDE DEF A
    <3> QED BY <2>2
  <2> QED BY <2>3, <2>4
<1>14. heads \X rows = AttendedBy(z, hk, n)
  BY <1>7, <1>9 DEF AttendedBy
<1> QED BY <1>12, <1>13, <1>14

(* Keys do not share an address either. *)
LEMMA KeyStarts ==
  ASSUME WellFormed(launch), NEW z \in Entries
  PROVE  /\ StartK(z) \in Nat
         /\ \A y \in Entries : launch.num > 0 /\ z < y => StartK(z) + SeqlenK(z) <= StartK(y)
<1>0. z \in Int /\ 0 <= z /\ z < Batch /\ Batch \in Int
  BY BatchPositive DEF Entries
<1>1. CASE ~(launch.num > 0)
  BY <1>1, LaunchFacts DEF StartK
<1>2. CASE launch.num > 0
  <2> DEFINE n == launch.num
  <2>0. n \in Int /\ Batch = n /\ launch.num # 0 /\ Abs(launch.num) = n
    BY <1>2, LaunchFacts DEF Batch, Abs
  <2>1. /\ launch.cu_k \in [0..n -> Nat]
        /\ \A i, j \in 0..n : i <= j => launch.cu_k[i] <= launch.cu_k[j]
    BY <2>0, LengthFacts
  <2>2. SeqlenK(z) = launch.cu_k[z+1] - launch.cu_k[z]
    BY <2>0 DEF SeqlenK
  <2>3. z \in 0..n /\ z + 1 \in 0..n
    BY <1>0, <2>0
  <2>4. ASSUME NEW y \in Entries, z < y
        PROVE  y \in 0..n /\ z + 1 <= y
    BY <1>0, <2>0, <2>4 DEF Entries
  <2>5. CASE launch.strides_q = None
    <3>1. /\ \A y \in Entries : StartK(y) = launch.cu_k[y]
          /\ StartK(z) = launch.cu_k[z]
      BY <1>2, <2>0, <2>5 DEF StartK
    <3> HIDE DEF n
    <3>2. launch.cu_k[z] \in Nat /\ launch.cu_k[z+1] \in Nat
      BY <2>1, <2>3
    <3>3. ASSUME NEW y \in Entries, z < y
          PROVE  launch.cu_k[z+1] <= launch.cu_k[y] /\ launch.cu_k[y] \in Nat
      BY <2>1, <2>3, <2>4, <3>3
    <3> QED BY <2>2, <3>1, <3>2, <3>3
  <2>6. CASE launch.strides_q # None
    <3>1. /\ \A y \in Entries : StartK(y) = launch.strides_k[y]
          /\ StartK(z) = launch.strides_k[z]
      BY <1>2, <2>0, <2>6 DEF StartK
    <3>2. /\ launch.strides_k \in [0..n -> Nat]
          /\ \A x, y \in 0..n :
               x < y => launch.strides_k[x] + launch.cu_k[x+1] - launch.cu_k[x]
                          <= launch.strides_k[y]
      BY <1>2, <2>0, <2>6 DEF WellFormed
    <3> HIDE DEF n
    <3>3. /\ launch.cu_k[z] \in Nat /\ launch.cu_k[z+1] \in Nat
          /\ launch.strides_k[z] \in Nat
      BY <2>1, <2>3, <3>2
    <3>4. ASSUME NEW y \in Entries, z < y
          PROVE  /\ launch.strides_k[z] + launch.cu_k[z+1] - launch.cu_k[z]
                      <= launch.strides_k[y]
                 /\ launch.strides_k[y] \in Nat
      BY <2>3, <2>4, <3>2, <3>4
    <3> QED BY <2>2, <3>1, <3>3, <3>4
  <2> QED BY <2>5, <2>6
<1> QED BY <1>1, <1>2

LEMMA KeyUnique ==
  ASSUME WellFormed(launch), NEW z \in Entries, NEW y \in Entries, NEW h, NEW g,
         NEW m \in Keys(z), NEW k \in Keys(y), KeyAddr(z, h, m) = KeyAddr(y, g, k)
  PROVE  z = y /\ h = g /\ m = k
<1>1. /\ batch_index(z) = batch_index(y) /\ h = g
      /\ StartK(z) + m = StartK(y) + k
  BY DEF KeyAddr
<1>2. /\ z \in Int /\ y \in Int /\ StartK(z) \in Nat /\ StartK(y) \in Nat
      /\ m \in Nat /\ m < SeqlenK(z) /\ SeqlenK(z) \in Nat
      /\ k \in Nat /\ k < SeqlenK(y) /\ SeqlenK(y) \in Nat
  BY KeyStarts, Lengths, BatchPositive DEF Entries, Keys
<1>3. CASE launch.num > 0
  <2>1. ~(z < y)
    <3>1. ASSUME z < y PROVE StartK(z) + SeqlenK(z) <= StartK(y)
      BY <1>3, <3>1, KeyStarts
    <3> QED BY <1>1, <1>2, <3>1
  <2>2. ~(y < z)
    <3>1. ASSUME y < z PROVE StartK(y) + SeqlenK(y) <= StartK(z)
      BY <1>3, <3>1, KeyStarts
    <3> QED BY <1>1, <1>2, <3>1
  <2>3. z = y
    BY <1>2, <2>1, <2>2
  <2> QED BY <1>1, <1>2, <2>3
<1>4. CASE ~(launch.num > 0)
  <2>1. StartK(z) = 0 /\ StartK(y) = 0 /\ batch_index(z) = z /\ batch_index(y) = y
    <3>1. launch.num \in Int /\ launch.num <= 0
      BY <1>4, LaunchFacts
    <3> QED BY <3>1 DEF StartK, batch_index
  <2>2. z = y
    BY <1>1, <2>1
  <2>3. 0 + m = 0 + k
    BY <1>1, <2>1
  <2> QED BY <1>1, <1>2, <2>2, <2>3
<1> QED BY <1>3, <1>4

-----------------------------------------------------------------------------

(* The programs of the kernels behind the forward kernel by the tile each  *)
(* computes: an entry, a head of queries or of keys, and a block of rows   *)
(* of the one or of the other.                                             *)
QSize(k) == IF k = "fuse" THEN BLOCK_N ELSE BLOCK_M
QCount(k) == cdiv(launch.max_q, QSize(k))

ForQueries(k, p) == k = "dq" \/ (k = "fuse" /\ p[1] >= KvBlocks)
ForKeys(k, p) == k = "dk_dv" \/ (k = "fuse" /\ p[1] < KvBlocks)

QTile(k, p) ==
  IF k = "fuse"
    THEN [z |-> p[3], h |-> (p[1] - KvBlocks) \div QBlocks + p[2] * GroupSize,
          i |-> (p[1] - KvBlocks) % QBlocks]
    ELSE [z |-> p[3], h |-> Head(p, launch.Hq), i |-> Block(p)]

KTile(k, p) ==
  IF k = "fuse" THEN [z |-> p[3], h |-> p[2], i |-> p[1]]
                ELSE [z |-> p[3], h |-> Head(p, launch.Hk), i |-> Block(p)]

QFrame(k) == [z : Entries, h : Heads, i : 0..(QCount(k) - 1)]
KFrame == [z : Entries, h : 0..(launch.Hk - 1), i : 0..(KvBlocks - 1)]

LEMMA HeadsAndBlocks ==
  ASSUME WellFormed(launch), NEW H \in Positive, NEW blocks
  PROVE  /\ \A p \in HeadsByBlocks(H, blocks) :
              p[3] \in Entries /\ Head(p, H) \in 0..(H - 1) /\ Block(p) \in 0..(blocks - 1)
         /\ \A p, q \in HeadsByBlocks(H, blocks) :
              p[3] = q[3] /\ Head(p, H) = Head(q, H) /\ Block(p) = Block(q) => p = q
         /\ \A z \in Entries, h \in 0..(H - 1), i \in 0..(blocks - 1) :
              \E p \in HeadsByBlocks(H, blocks) :
                p[3] = z /\ Head(p, H) = h /\ Block(p) = i
<1>1. launch.xcds \in Positive /\ Entries = 0..(Batch - 1)
  BY LaunchFacts DEF Entries
<1> DEFINE S == 0..(H - 1)
           B == 0..(blocks - 1)
           f(x) == remap_xcd(x, H, launch.xcds)
<1>2. CASE launch.xcds > 1
  <2>1. /\ HeadsByBlocks(H, blocks) = S \X B \X Entries
        /\ \A p : Head(p, H) = f(p[1]) /\ Block(p) = p[2]
    BY <1>1, <1>2 DEF HeadsByBlocks, Ids, Head, Block
  <2>2. /\ \A x \in S : f(x) \in S
        /\ \A x, y \in S : f(x) = f(y) => x = y
        /\ \A h \in S : \E x \in S : f(x) = h
    <3>1. /\ \A x \in S : f(x) \in S
          /\ \A x, y \in S : f(x) = f(y) => x = y
      BY <1>1, RemapPermutes
    <3>2. ASSUME NEW h \in S PROVE \E x \in S : f(x) = h
      BY <1>1, RemapReaches
    <3> QED BY <3>1, <3>2
  <2> HIDE DEF S, B, f
  <2>3. \A p \in S \X B \X Entries : p[3] \in Entries /\ f(p[1]) \in S /\ p[2] \in B
    BY <2>2
  <2>4. \A p, q \in S \X B \X Entries :
          p[3] = q[3] /\ f(p[1]) = f(q[1]) /\ p[2] = q[2] => p = q
    <3>1. \A p, q \in S \X B \X Entries :
            p[1] = q[1] /\ p[2] = q[2] /\ p[3] = q[3] => p = q
      OBVIOUS
    <3>2. \A p \in S \X B \X Entries : p[1] \in S
      OBVIOUS
    <3> QED BY <2>2, <3>1, <3>2
  <2>5. ASSUME NEW z \in Entries, NEW h \in S, NEW i \in B
        PROVE  \E p \in S \X B \X Entries : p[3] = z /\ f(p[1]) = h /\ p[2] = i
    <3>1. PICK x \in S : f(x) = h
      BY <2>2
    <3>2. <<x, i, z>> \in S \X B \X Entries
      OBVIOUS
    <3> QED BY <3>1, <3>2
  <2> QED BY <2>1, <2>3, <2>4, <2>5 DEF S, B
<1>3. CASE ~(launch.xcds > 1)
  <2>1. /\ HeadsByBlocks(H, blocks) = B \X S \X Entries
        /\ \A p : Head(p, H) = p[2] /\ Block(p) = p[1]
    BY <1>1, <1>3 DEF HeadsByBlocks, Ids, Head, Block
  <2> HIDE DEF S, B
  <2>2. \A p \in B \X S \X Entries : p[3] \in Entries /\ p[2] \in S /\ p[1] \in B
    OBVIOUS
  <2>3. \A p, q \in B \X S \X Entries : p[3] = q[3] /\ p[2] = q[2] /\ p[1] = q[1] => p = q
    OBVIOUS
  <2>4. ASSUME NEW z \in Entries, NEW h \in S, NEW i \in B
        PROVE  \E p \in B \X S \X Entries : p[3] = z /\ p[2] = h /\ p[1] = i
    <3>1. <<i, h, z>> \in B \X S \X Entries
      OBVIOUS
    <3> QED BY <3>1
  <2> QED BY <2>1, <2>2, <2>3, <2>4 DEF S, B
<1> QED BY <1>2, <1>3

LEMMA Counts ==
  ASSUME WellFormed(launch)
  PROVE  /\ QBlocks \in Positive /\ KvBlocks \in Positive
         /\ \A k : QCount(k) \in Positive /\ QSize(k) \in Positive
         /\ QCount("fuse") = QBlocks /\ QCount("dq") = cdiv(launch.max_q, BLOCK_M)
  BY Constants, LaunchFacts, CdivPositive DEF QBlocks, KvBlocks, QCount, QSize

(* The programs of the fused kernel behind those of the keys. *)
FusedQueries == {p \in GridOf("fuse") : p[1] >= KvBlocks}

LEMMA FusedGrid ==
  ASSUME WellFormed(launch)
  PROVE  /\ GridOf("fuse") = (0..((KvBlocks + QBlocks * GroupSize) - 1))
                               \X (0..(launch.Hk - 1)) \X Entries
         /\ QBlocks * GroupSize \in Positive
<1>1. QBlocks * GroupSize \in Positive
  BY Counts, GroupHeads DEF Positive
<1>2. GridOf("fuse") = Ids(KvBlocks + QBlocks * GroupSize, launch.Hk, Batch)
  BY DEF GridOf
<1>3. \A x, y : Ids(x, y, Batch) = (0..(x - 1)) \X (0..(y - 1)) \X Entries
  BY DEF Ids, Entries
<1> DEFINE x == KvBlocks + QBlocks * GroupSize
<1>4. GridOf("fuse") = (0..(x - 1)) \X (0..(launch.Hk - 1)) \X Entries
  <2> HIDE DEF x
  <2>1. GridOf("fuse") = Ids(x, launch.Hk, Batch)
    BY <1>2 DEF x
  <2> QED BY <1>3, <2>1
<1> QED BY <1>1, <1>4

LEMMA FusedQuery ==
  ASSUME WellFormed(launch), NEW p \in GridOf("fuse"), p[1] >= KvBlocks
  PROVE  LET off == p[1] - KvBlocks
         IN  /\ off \in Nat /\ p[2] \in Nat /\ p[2] < launch.Hk /\ p[3] \in Entries
             /\ off \div QBlocks \in Nat /\ off \div QBlocks < GroupSize
             /\ off % QBlocks \in 0..(QBlocks - 1)
             /\ off \div QBlocks + p[2] * GroupSize \in Heads
             /\ p[1] = KvBlocks + off
             /\ off = (off \div QBlocks) * QBlocks + (off % QBlocks)
<1> DEFINE off == p[1] - KvBlocks
           G == GroupSize
           Q == QBlocks
           d == off \div Q
           r == off % Q
           g == p[2]
<1>1. /\ Q \in Positive /\ KvBlocks \in Positive /\ G \in Positive
      /\ launch.Hk \in Positive /\ launch.Hq \in Positive /\ launch.Hq = launch.Hk * G
  BY Counts, GroupHeads, LaunchFacts
<1>2. /\ p[1] \in 0..((KvBlocks + Q * G) - 1) /\ g \in 0..(launch.Hk - 1) /\ p[3] \in Entries
  BY FusedGrid
<1>3. Q * G \in Nat /\ Q * G = G * Q
  BY <1>1 DEF Positive
<1> HIDE DEF G, Q, g
<1>4. off \in Nat /\ off < G * Q /\ p[1] = KvBlocks + off
  BY <1>1, <1>2, <1>3 DEF Positive
<1>5. g \in Nat /\ g < launch.Hk
  BY <1>1, <1>2 DEF Positive
<1> HIDE DEF off
<1>6. d \in Nat /\ d < G
  BY <1>1, <1>4, DivBelow DEF Positive
<1>7. r \in Nat /\ r < Q /\ off = d * Q + r
  <2>1. d * Q <= off /\ r = off - d * Q
    BY <1>1, <1>4, DivFloor DEF Positive
  <2>2. r \in Nat /\ r < Q
    BY <1>1, <1>4, ModBelow
  <2> HIDE DEF d, r
  <2>3. d * Q \in Int
    BY <1>1, <1>6 DEF Positive
  <2> QED BY <1>4, <2>1, <2>2, <2>3
<1> HIDE DEF d, r
<1>8. d + g * G \in Heads
  <2>1. g * G \in Nat
    BY <1>1, <1>5, ProductNat DEF Positive
  <2>2. g * G + d < launch.Hk * G
    <3>1. launch.Hk \in Nat
      BY <1>1 DEF Positive
    <3> QED BY <1>1, <1>5, <1>6, <3>1, RadixBelow
  <2>3. launch.Hq \in Nat /\ d + g * G < launch.Hq /\ d + g * G \in Nat
    BY <1>1, <1>6, <2>1, <2>2 DEF Positive
  <2> QED BY <2>3 DEF Heads
<1>9. r \in 0..(Q - 1)
  BY <1>1, <1>7 DEF Positive
<1> QED BY <1>2, <1>4, <1>5, <1>6, <1>7, <1>8, <1>9 DEF off, d, r, G, Q, g

LEMMA QTileDq ==
  ASSUME WellFormed(launch)
  PROVE  /\ \A p \in GridOf("dq") : QTile("dq", p) \in QFrame("dq")
         /\ \A p, q \in GridOf("dq") : QTile("dq", p) = QTile("dq", q) => p = q
         /\ \A t \in QFrame("dq") : \E p \in GridOf("dq") : QTile("dq", p) = t
<1> DEFINE blocks == cdiv(launch.max_q, BLOCK_M)
           grd == HeadsByBlocks(launch.Hq, blocks)
<1>1. GridOf("dq") = grd /\ QCount("dq") = blocks
  BY DEF GridOf, QCount, QSize
<1>2. \A p : QTile("dq", p) = [z |-> p[3], h |-> Head(p, launch.Hq), i |-> Block(p)]
  BY DEF QTile
<1>3. launch.Hq \in Positive
  BY LaunchFacts
<1>4. Heads = 0..(launch.Hq - 1)
  BY DEF Heads
<1> DEFINE frame == [z : Entries, h : 0..(launch.Hq - 1), i : 0..(blocks - 1)]
<1>5. QFrame("dq") = frame
  BY <1>1, <1>4 DEF QFrame
<1> HIDE DEF blocks
<1>6. /\ \A p \in grd :
           p[3] \in Entries /\ Head(p, launch.Hq) \in 0..(launch.Hq - 1)
           /\ Block(p) \in 0..(blocks - 1)
      /\ \A p, q \in grd :
           p[3] = q[3] /\ Head(p, launch.Hq) = Head(q, launch.Hq) /\ Block(p) = Block(q)
             => p = q
      /\ \A z \in Entries, h \in 0..(launch.Hq - 1), i \in 0..(blocks - 1) :
           \E p \in grd : p[3] = z /\ Head(p, launch.Hq) = h /\ Block(p) = i
  BY <1>3, HeadsAndBlocks
<1> HIDE DEF grd
<1>7. \A p \in grd : QTile("dq", p) \in frame
  BY <1>2, <1>6
<1>8. ASSUME NEW p \in grd, NEW q \in grd, QTile("dq", p) = QTile("dq", q) PROVE p = q
  <2>1. p[3] = q[3] /\ Head(p, launch.Hq) = Head(q, launch.Hq) /\ Block(p) = Block(q)
    BY <1>2, <1>8
  <2> QED BY <1>6, <2>1
<1>9. ASSUME NEW t \in frame PROVE \E p \in grd : QTile("dq", p) = t
  <2>1. /\ t.z \in Entries /\ t.h \in 0..(launch.Hq - 1) /\ t.i \in 0..(blocks - 1)
        /\ t = [z |-> t.z, h |-> t.h, i |-> t.i]
    BY <1>9
  <2>2. PICK p \in grd : p[3] = t.z /\ Head(p, launch.Hq) = t.h /\ Block(p) = t.i
    BY <1>6, <2>1
  <2>3. QTile("dq", p) = t
    BY <1>2, <2>1, <2>2
  <2> QED BY <2>3
<1> HIDE DEF frame
<1> QED BY <1>1, <1>5, <1>7, <1>8, <1>9

LEMMA QTileFuse ==
  ASSUME WellFormed(launch)
  PROVE  /\ \A p \in FusedQueries : QTile("fuse", p) \in QFrame("fuse")
         /\ \A p, q \in FusedQueries : QTile("fuse", p) = QTile("fuse", q) => p = q
         /\ \A t \in QFrame("fuse") : \E p \in FusedQueries : QTile("fuse", p) = t
<1>1. /\ QBlocks \in Positive /\ KvBlocks \in Positive /\ QCount("fuse") = QBlocks
      /\ GroupSize \in Positive /\ launch.Hk \in Positive
      /\ \A h \in Heads : h \in Nat /\ h \div GroupSize \in 0..(launch.Hk - 1)
  BY Counts, GroupHeads, LaunchFacts
<1>2. ASSUME NEW p \in FusedQueries PROVE QTile("fuse", p) \in QFrame("fuse")
  <2>1. p \in GridOf("fuse") /\ p[1] >= KvBlocks
    BY <1>2 DEF FusedQueries
  <2> DEFINE off == p[1] - KvBlocks
  <2>2. /\ p[3] \in Entries /\ off \div QBlocks + p[2] * GroupSize \in Heads
        /\ off % QBlocks \in 0..(QBlocks - 1)
    BY <2>1, FusedQuery
  <2> HIDE DEF off
  <2>3. QTile("fuse", p) = [z |-> p[3], h |-> off \div QBlocks + p[2] * GroupSize,
                            i |-> off % QBlocks]
    BY DEF QTile, off
  <2> QED BY <1>1, <2>2, <2>3 DEF QFrame
<1>3. ASSUME NEW p \in FusedQueries, NEW q \in FusedQueries,
             QTile("fuse", p) = QTile("fuse", q)
      PROVE  p = q
  <2>1. /\ p \in GridOf("fuse") /\ p[1] >= KvBlocks
        /\ q \in GridOf("fuse") /\ q[1] >= KvBlocks
    BY <1>3 DEF FusedQueries
  <2> DEFINE a == p[1] - KvBlocks
             b == q[1] - KvBlocks
  <2>2. /\ a \div QBlocks \in Nat /\ a \div QBlocks < GroupSize /\ p[2] \in Nat
        /\ a % QBlocks \in 0..(QBlocks - 1) /\ p[1] = KvBlocks + a
        /\ a = (a \div QBlocks) * QBlocks + (a % QBlocks)
    BY <2>1, FusedQuery
  <2>3. /\ b \div QBlocks \in Nat /\ b \div QBlocks < GroupSize /\ q[2] \in Nat
        /\ b % QBlocks \in 0..(QBlocks - 1) /\ q[1] = KvBlocks + b
        /\ b = (b \div QBlocks) * QBlocks + (b % QBlocks)
    BY <2>1, FusedQuery
  <2>4. /\ p[3] = q[3] /\ a % QBlocks = b % QBlocks
        /\ a \div QBlocks + p[2] * GroupSize = b \div QBlocks + q[2] * GroupSize
    BY <1>3 DEF QTile
  <2> HIDE DEF a, b
  <2> DEFINE c == a \div QBlocks
             d == b \div QBlocks
             g == p[2]
             f == q[2]
             r == a % QBlocks
  <2>5. /\ c \in Nat /\ d \in Nat /\ c < GroupSize /\ d < GroupSize /\ g \in Nat /\ f \in Nat
        /\ a = c * QBlocks + r /\ b = d * QBlocks + r
        /\ c + g * GroupSize = d + f * GroupSize
    BY <2>2, <2>3, <2>4
  <2> HIDE DEF c, d, g, f, r
  <2>6. g = f /\ c = d
    <3>1. g * GroupSize + c = f * GroupSize + d
      <4>1. g * GroupSize \in Int /\ f * GroupSize \in Int
        BY <1>1, <2>5 DEF Positive
      <4> QED BY <2>5, <4>1
    <3> QED BY <1>1, <2>5, <3>1, RadixUnique
  <2>7. p[1] = q[1] /\ p[2] = q[2] /\ p[3] = q[3]
    BY <2>2, <2>3, <2>4, <2>5, <2>6 DEF g, f
  <2> QED BY <2>1, <2>7, FusedGrid
<1>4. ASSUME NEW t \in QFrame("fuse") PROVE \E p \in FusedQueries : QTile("fuse", p) = t
  <2>1. /\ t.z \in Entries /\ t.h \in Heads /\ t.i \in 0..(QBlocks - 1)
        /\ t = [z |-> t.z, h |-> t.h, i |-> t.i]
    BY <1>1, <1>4 DEF QFrame
  <2> DEFINE h == t.h
             i == t.i
             G == GroupSize
             g == h \div G
             c == h % G
             off == c * QBlocks + i
             x == KvBlocks + off
  <2>2. /\ h \in Nat /\ i \in Nat /\ i < QBlocks /\ g \in 0..(launch.Hk - 1)
    BY <1>1, <2>1 DEF Positive
  <2>3. c \in Nat /\ c < G /\ h = c + g * G
    <3> HIDE DEF h, G
    <3>1. c \in Nat /\ c < G
      BY <1>1, <2>2, ModBelow DEF G
    <3>2. g * G <= h /\ c = h - g * G /\ g * G \in Nat
      BY <1>1, <2>2, DivFloor, ProductNat DEF G, Positive
    <3> HIDE DEF c, g
    <3> QED BY <2>2, <3>1, <3>2
  <2> HIDE DEF c, g, i, h
  <2>4. off \div QBlocks = c /\ off % QBlocks = i /\ off \in Nat
    BY <1>1, <2>2, <2>3, RadixParts
  <2>5. off < G * QBlocks
    BY <1>1, <2>2, <2>3, RadixBelow DEF Positive, G
  <2> HIDE DEF off
  <2>6. G * QBlocks = QBlocks * G /\ QBlocks * G \in Nat /\ KvBlocks \in Nat
    BY <1>1 DEF Positive, G
  <2>7. x \in 0..((KvBlocks + QBlocks * G) - 1) /\ x >= KvBlocks /\ x - KvBlocks = off
    <3> DEFINE y == QBlocks * G
    <3>1. off < y /\ y \in Nat
      BY <2>5, <2>6
    <3> HIDE DEF y
    <3>2. x \in 0..((KvBlocks + y) - 1) /\ x >= KvBlocks /\ x - KvBlocks = off
      BY <2>4, <2>6, <3>1
    <3> QED BY <3>2 DEF y
  <2> HIDE DEF x
  <2> DEFINE p == <<x, g, t.z>>
  <2>8. p \in GridOf("fuse") /\ p[1] = x /\ p[2] = g /\ p[3] = t.z
    BY <2>1, <2>2, <2>7, FusedGrid DEF G
  <2> HIDE DEF p
  <2>9. p \in FusedQueries
    BY <2>7, <2>8 DEF FusedQueries
  <2>10. QTile("fuse", p) = [z |-> t.z, h |-> c + g * G, i |-> i]
    BY <2>4, <2>7, <2>8 DEF QTile, G
  <2> QED BY <2>1, <2>3, <2>9, <2>10 DEF h, i
<1> QED BY <1>2, <1>3, <1>4

(* The programs that compute rows of queries: each another tile, and every *)
(* tile one of them.                                                       *)
LEMMA QTiles ==
  ASSUME WellFormed(launch), NEW k, k \in {"dq", "fuse"}
  PROVE  /\ \A p \in GridOf(k) : ForQueries(k, p) => QTile(k, p) \in QFrame(k)
         /\ \A p, q \in GridOf(k) :
              ForQueries(k, p) /\ ForQueries(k, q) /\ QTile(k, p) = QTile(k, q) => p = q
         /\ \A t \in QFrame(k) : \E p \in GridOf(k) : ForQueries(k, p) /\ QTile(k, p) = t
<1>1. CASE k = "dq"
  BY <1>1, QTileDq DEF ForQueries
<1>2. CASE k = "fuse"
  BY <1>2, QTileFuse DEF ForQueries, FusedQueries
<1> QED BY <1>1, <1>2

LEMMA KTiles ==
  ASSUME WellFormed(launch), NEW k, k \in {"dk_dv", "fuse"}
  PROVE  /\ \A p \in GridOf(k) : ForKeys(k, p) => KTile(k, p) \in KFrame
         /\ \A t \in KFrame : \E p \in GridOf(k) : ForKeys(k, p) /\ KTile(k, p) = t
<1>1. CASE k = "dk_dv"
  <2>1. launch.Hk \in Positive
    BY LaunchFacts
  <2> DEFINE grd == HeadsByBlocks(launch.Hk, KvBlocks)
  <2>2. GridOf(k) = grd /\ \A p : ForKeys(k, p)
    BY <1>1 DEF GridOf, ForKeys
  <2>3. \A p : KTile(k, p) = [z |-> p[3], h |-> Head(p, launch.Hk), i |-> Block(p)]
    BY <1>1 DEF KTile
  <2>4. /\ \A p \in grd :
             p[3] \in Entries /\ Head(p, launch.Hk) \in 0..(launch.Hk - 1)
             /\ Block(p) \in 0..(KvBlocks - 1)
        /\ \A z \in Entries, h \in 0..(launch.Hk - 1), i \in 0..(KvBlocks - 1) :
             \E p \in grd : p[3] = z /\ Head(p, launch.Hk) = h /\ Block(p) = i
    BY <2>1, HeadsAndBlocks
  <2> HIDE DEF grd
  <2>5. ASSUME NEW t \in KFrame PROVE \E p \in grd : KTile(k, p) = t
    <3>1. /\ t.z \in Entries /\ t.h \in 0..(launch.Hk - 1) /\ t.i \in 0..(KvBlocks - 1)
          /\ t = [z |-> t.z, h |-> t.h, i |-> t.i]
      BY <2>5 DEF KFrame
    <3>2. PICK p \in grd : p[3] = t.z /\ Head(p, launch.Hk) = t.h /\ Block(p) = t.i
      BY <2>4, <3>1
    <3> QED BY <2>3, <3>1, <3>2
  <2>6. \A p \in grd : KTile(k, p) \in KFrame
    BY <2>3, <2>4 DEF KFrame
  <2> QED BY <2>2, <2>5, <2>6
<1>2. CASE k = "fuse"
  <2> DEFINE n == KvBlocks + QBlocks * GroupSize
  <2>1. KvBlocks \in Nat /\ QBlocks * GroupSize \in Nat
    BY Counts, FusedGrid DEF Positive
  <2>2. n \in Int /\ KvBlocks <= n
    BY <2>1
  <2>3. GridOf(k) = (0..(n - 1)) \X (0..(launch.Hk - 1)) \X Entries
    BY <1>2, FusedGrid
  <2>4. \A p : /\ KTile(k, p) = [z |-> p[3], h |-> p[2], i |-> p[1]]
               /\ ForKeys(k, p) <=> p[1] < KvBlocks
    BY <1>2 DEF KTile, ForKeys
  <2> HIDE DEF n
  <2>5. ASSUME NEW p \in GridOf(k), ForKeys(k, p) PROVE KTile(k, p) \in KFrame
    <3>1. p[1] \in 0..(n - 1) /\ p[2] \in 0..(launch.Hk - 1) /\ p[3] \in Entries
      BY <2>3
    <3>2. p[1] \in 0..(KvBlocks - 1)
      BY <2>1, <2>2, <2>4, <2>5, <3>1
    <3> QED BY <2>4, <3>1, <3>2 DEF KFrame
  <2>6. ASSUME NEW t \in KFrame PROVE \E p \in GridOf(k) : ForKeys(k, p) /\ KTile(k, p) = t
    <3>1. /\ t.z \in Entries /\ t.h \in 0..(launch.Hk - 1) /\ t.i \in 0..(KvBlocks - 1)
          /\ t = [z |-> t.z, h |-> t.h, i |-> t.i]
      BY <2>6 DEF KFrame
    <3> DEFINE p == <<t.i, t.h, t.z>>
    <3>2. t.i \in 0..(n - 1) /\ t.i < KvBlocks
      BY <2>1, <2>2, <3>1
    <3>3. p \in GridOf(k) /\ p[1] = t.i /\ p[2] = t.h /\ p[3] = t.z
      BY <2>3, <3>1, <3>2
    <3> HIDE DEF p
    <3> QED BY <2>4, <3>1, <3>2, <3>3
  <2> QED BY <2>5, <2>6
<1> QED BY <1>1, <1>2

-----------------------------------------------------------------------------
(* What a program of a kernel behind the forward kernel stores.            *)

(* What a program of these kernels computes: the rows it stores and what   *)
(* it stores in them.                                                      *)
QRows(k, p) == QueryRows(QTile(k, p).z, QTile(k, p).i * QSize(k), QSize(k))
KRows(k, p) == InBounds(KTile(k, p).i * BLOCK_N, BLOCK_N, SeqlenK(KTile(k, p).z))
DeltaRows(p) == QueryRows(p[3], p[1] * BLOCK_M, BLOCK_M)
EncodedRows(p) == InBounds(p[1] * BLOCK_N, BLOCK_N, launch.max_q)
AllKeys == 0..(launch.max_k - 1)

QTerms(k, p, m) ==
  LET t == QTile(k, p)
  IN  IF k = "fuse" THEN FusedDqTerms(t.z, t.h, t.i * QSize(k), m)
                    ELSE DqTerms(t.z, t.h, t.i * QSize(k), m)
KTerms(k, p, n) ==
  LET t == KTile(k, p)
  IN  IF k = "fuse" THEN FusedDkDvTerms(t.z, t.h, t.i * BLOCK_N, n)
                    ELSE DkDvTerms(t.z, t.h, t.i * BLOCK_N, n)
DbOf(k, p) ==
  LET t == QTile(k, p)
  IN  DbCells(t.z, t.h, t.i * QSize(k), QSize(k), IF k = "fuse" THEN BLOCK_M ELSE BLOCK_N)

QAddr(k, p, m) == RowAddr(QTile(k, p).z, QTile(k, p).h, m)
KAddr(k, p, n) == KeyAddr(KTile(k, p).z, KTile(k, p).h, n)

(* A store, by what the tensor holds after it. *)
StoresDelta(p, new) ==
  /\ DOMAIN new = {LseAddr(p[3], p[2], m) : m \in DeltaRows(p)} \cup DOMAIN Delta
  /\ \A a \in DOMAIN new :
       \/ a \in DOMAIN Delta /\ new[a] = Delta[a]
       \/ \E m \in DeltaRows(p) : a = LseAddr(p[3], p[2], m) /\ new[a] = OutRow(p[3], p[2], m)

StoresEncoded(p, new) ==
  /\ DOMAIN new = {<<p[3], p[2], x[1], x[2]>> : x \in EncodedRows(p) \X AllKeys}
                    \cup DOMAIN Encoded
  /\ \A a \in DOMAIN new :
       \/ a \in DOMAIN Encoded /\ new[a] = Encoded[a]
       \/ \E x \in EncodedRows(p) \X AllKeys :
            /\ a = <<p[3], p[2], x[1], x[2]>>
            /\ new[a] = DropoutNumber(p[3], p[2], p[1] * BLOCK_N,
                                      x[2] - (x[2] % BLOCK_M), x[1], x[2])

StoresDq(k, p, new) ==
  /\ DOMAIN new = {QAddr(k, p, m) : m \in QRows(k, p)} \cup DOMAIN DQ
  /\ \A a \in DOMAIN new :
       \/ a \in DOMAIN DQ /\ new[a] = DQ[a]
       \/ \E m \in QRows(k, p) : a = QAddr(k, p, m) /\ new[a] = QTerms(k, p, m)

StoresDkv(k, p, new) ==
  /\ DOMAIN new = {KAddr(k, p, n) : n \in KRows(k, p)} \cup DOMAIN DKV
  /\ \A a \in DOMAIN new :
       \/ a \in DOMAIN DKV /\ new[a] = DKV[a]
       \/ \E n \in KRows(k, p) : a = KAddr(k, p, n) /\ new[a] = KTerms(k, p, n)

StoresDb(k, p, new) ==
  store_db =>
    /\ DOMAIN new = DbOf(k, p) \cup DOMAIN DB
    /\ \A a \in DOMAIN new : new[a] = IF a \notin DOMAIN DB THEN 1
                                      ELSE IF a \in DbOf(k, p) THEN DB[a] + 1 ELSE DB[a]

LEMMA NoRows ==
  ASSUME NEW start \in Nat, NEW B \in Positive, NEW rows \in Nat, start >= rows
  PROVE  InBounds(start, B, rows) = {}
  BY DEF InBounds, Positive

LEMMA PreprocessStores ==
  ASSUME WellFormed(launch), NEW p \in GridOf("preprocess"),
         bwd_preprocess(p) \/ bwd_preprocess_varlen(p)
  PROVE  StoresDelta(p, Delta') /\ kernel = "preprocess" /\ UNCHANGED <<DQ, DKV, DB, Encoded>>
<1>1. kernel = "preprocess" /\ UNCHANGED <<DQ, DKV, DB, Encoded>>
  BY DEF bwd_preprocess, bwd_preprocess_varlen, Run
<1>2. ASSUME StoreDelta(p) PROVE StoresDelta(p, Delta')
  <2> DEFINE A(m) == LseAddr(p[3], p[2], m)
             F(m) == OutRow(p[3], p[2], m)
             S == {A(m) : m \in DeltaRows(p)}
             by(a) == CHOOSE m \in DeltaRows(p) : A(m) = a
  <2>1. Delta' = [a \in S \cup DOMAIN Delta |-> IF a \in S THEN F(by(a)) ELSE Delta[a]]
    BY <1>2 DEF StoreDelta, Store, DeltaRows
  <2>2. \A a \in S : by(a) \in DeltaRows(p) /\ A(by(a)) = a
    OBVIOUS
  <2> HIDE DEF by
  <2>3. \A a \in DOMAIN Delta' :
          \/ a \in DOMAIN Delta /\ Delta'[a] = Delta[a]
          \/ \E m \in DeltaRows(p) : a = A(m) /\ Delta'[a] = F(m)
    <3> HIDE DEF A, F, S
    <3> QED BY <2>1, <2>2
  <2>4. DOMAIN Delta' = S \cup DOMAIN Delta
    BY <2>1
  <2> QED BY <2>3, <2>4 DEF StoresDelta
<1>3. ASSUME p[1] * BLOCK_M >= SeqlenQ(p[3]), Delta' = Delta PROVE StoresDelta(p, Delta')
  <2>1. p[1] * BLOCK_M \in Nat /\ SeqlenQ(p[3]) \in Nat /\ BLOCK_M \in Positive
    <3>1. p[1] \in 0..(cdiv(launch.out_rows, BLOCK_M) - 1) /\ p[3] \in Entries
      BY DEF GridOf, Ids, Entries
    <3>2. p[1] \in Nat /\ BLOCK_M \in Nat /\ BLOCK_M \in Positive
      <4>1. cdiv(launch.out_rows, BLOCK_M) \in Positive
        BY Constants, CdivPositive DEF WellFormed
      <4> QED BY <3>1, <4>1, Constants DEF Positive
    <3> QED BY <3>1, <3>2, ProductNat, Lengths
  <2>2. DeltaRows(p) = {}
    BY <1>3, <2>1, NoRows DEF DeltaRows, QueryRows
  <2> QED BY <1>3, <2>2 DEF StoresDelta
<1> QED BY <1>1, <1>2, <1>3 DEF bwd_preprocess, bwd_preprocess_varlen

LEMMA EncodeStores ==
  ASSUME NEW p, debug_simulate_encoded_softmax(p)
  PROVE  StoresEncoded(p, Encoded') /\ kernel = "encode" /\ UNCHANGED <<Delta, DQ, DKV, DB>>
<1> DEFINE cells == EncodedRows(p) \X AllKeys
           A(x) == <<p[3], p[2], x[1], x[2]>>
           F(x) == DropoutNumber(p[3], p[2], p[1] * BLOCK_N, x[2] - (x[2] % BLOCK_M), x[1], x[2])
           S == {A(x) : x \in cells}
           by(a) == CHOOSE x \in cells : A(x) = a
<1>1. kernel = "encode" /\ UNCHANGED <<Delta, DQ, DKV, DB>>
  BY DEF debug_simulate_encoded_softmax, Run
<1>2. Encoded' = [a \in S \cup DOMAIN Encoded |-> IF a \in S THEN F(by(a)) ELSE Encoded[a]]
  BY DEF debug_simulate_encoded_softmax, Store, EncodedRows, AllKeys
<1> HIDE DEF cells, F
<1>3. \A a \in S : by(a) \in cells /\ A(by(a)) = a
  OBVIOUS
<1> HIDE DEF by
<1>4. \A a \in DOMAIN Encoded' :
        \/ a \in DOMAIN Encoded /\ Encoded'[a] = Encoded[a]
        \/ \E x \in cells : a = A(x) /\ Encoded'[a] = F(x)
  <2> HIDE DEF A, S
  <2> QED BY <1>2, <1>3
<1>5. DOMAIN Encoded' = S \cup DOMAIN Encoded
  BY <1>2
<1> QED BY <1>1, <1>4, <1>5 DEF StoresEncoded, cells, F

LEMMA MultipleOfMultiple ==
  ASSUME NEW i \in Nat, NEW b \in Nat, NEW g \in Positive, b % g = 0
  PROVE  (i * b) % g = 0
<1> DEFINE c == b \div g
<1>1. c \in Nat /\ b = c * g
  BY DivFloor DEF Positive
<1> HIDE DEF c
<1>2. i * c \in Nat /\ g \in Nat
  BY <1>1, ProductNat DEF Positive
<1>3. i * b = (i * c) * g
  <2>1. i * (c * g) = (i * c) * g
    BY <1>1, <1>2
  <2> QED BY <1>1, <2>1
<1>4. ((i * c) * g) % g = 0
  BY <1>2, MultipleMod
<1> QED BY <1>3, <1>4

(* The block of a tile starts at a row. *)
LEMMA QBlockStart ==
  ASSUME WellFormed(launch), NEW k, k \in {"dq", "fuse"}, NEW t, t \in QFrame(k)
  PROVE  /\ t.i * QSize(k) \in Nat /\ QSize(k) \in Positive
         /\ t.z \in Entries /\ t.h \in Heads /\ SeqlenQ(t.z) \in Nat
<1>1. QSize(k) \in Positive /\ QCount(k) \in Positive
  BY Counts
<1>2. t.z \in Entries /\ t.h \in Heads /\ t.i \in 0..(QCount(k) - 1)
  BY DEF QFrame
<1>3. t.i \in Nat /\ QSize(k) \in Nat
  BY <1>1, <1>2 DEF Positive
<1> QED BY <1>1, <1>2, <1>3, ProductNat, Lengths

LEMMA KBlockStart ==
  ASSUME WellFormed(launch), NEW t, t \in KFrame
  PROVE  /\ t.i * BLOCK_N \in Nat /\ (t.i * BLOCK_N) % PHILOX_RN_PER_OFFSET = 0
         /\ t.z \in Entries /\ t.h \in 0..(launch.Hk - 1) /\ SeqlenK(t.z) \in Nat
<1>1. KvBlocks \in Positive /\ BLOCK_N \in Positive /\ PHILOX_RN_PER_OFFSET \in Positive
      /\ BLOCK_N % PHILOX_RN_PER_OFFSET = 0
  BY Counts, Constants
<1>2. t.z \in Entries /\ t.h \in 0..(launch.Hk - 1) /\ t.i \in 0..(KvBlocks - 1)
  BY DEF KFrame
<1>3. t.i \in Nat /\ BLOCK_N \in Nat
  BY <1>1, <1>2 DEF Positive
<1>8. (t.i * BLOCK_N) % PHILOX_RN_PER_OFFSET = 0
  BY <1>1, <1>3, MultipleOfMultiple
<1>9. t.i * BLOCK_N \in Nat
  BY <1>3, ProductNat
<1> QED BY <1>2, <1>8, <1>9, Lengths

LEMMA DqStores ==
  ASSUME WellFormed(launch), NEW p, p \in GridOf(kernel), bwd_kernel_dq(p) \/ FuseDq(p)
  PROVE  /\ StoresDq(kernel, p, DQ') /\ StoresDb(kernel, p, DB')
         /\ kernel \in {"dq", "fuse"} /\ ForQueries(kernel, p)
         /\ UNCHANGED <<Delta, DKV, Encoded>>
<1> DEFINE k == kernel
           t == QTile(k, p)
           start == t.i * QSize(k)
           A(m) == RowAddr(t.z, t.h, m)
           F(m) == IF k = "fuse" THEN FusedDqTerms(t.z, t.h, start, m)
                                 ELSE DqTerms(t.z, t.h, start, m)
           rows == QueryRows(t.z, start, QSize(k))
           cells == DbCells(t.z, t.h, start, QSize(k), IF k = "fuse" THEN BLOCK_M ELSE BLOCK_N)
           S == {A(m) : m \in rows}
           by(a) == CHOOSE m \in rows : A(m) = a
<1>1. /\ k \in {"dq", "fuse"} /\ ForQueries(k, p) /\ UNCHANGED <<Delta, DKV, Encoded>>
  BY DEF bwd_kernel_dq, FuseDq, Run, ForQueries
<1>2. t \in QFrame(k)
  BY <1>1, QTiles
<1>3. /\ start \in Nat /\ QSize(k) \in Positive /\ SeqlenQ(t.z) \in Nat
  <2> HIDE DEF t
  <2> QED BY <1>1, <1>2, QBlockStart
<1>4. \/ DQ' = DQ /\ DB' = DB /\ start >= SeqlenQ(t.z)
      \/ /\ DQ' = Store(DQ, LAMBDA m : A(m), LAMBDA m : F(m), rows)
         /\ StoreDb(cells)
  <2>1. CASE bwd_kernel_dq(p)
    <3>1. /\ k = "dq" /\ t = [z |-> p[3], h |-> Head(p, launch.Hq), i |-> Block(p)]
          /\ QSize(k) = BLOCK_M
      BY <2>1 DEF bwd_kernel_dq, Run, QTile, QSize
    <3>2. /\ t.z = p[3] /\ t.h = Head(p, launch.Hq) /\ start = Block(p) * BLOCK_M
      BY <3>1
    <3>3. \/ DQ' = DQ /\ DB' = DB /\ Block(p) * BLOCK_M >= SeqlenQ(p[3])
          \/ StoreDq(p[3], Head(p, launch.Hq), Block(p) * BLOCK_M)
      BY <2>1 DEF bwd_kernel_dq
    <3>4. ASSUME StoreDq(t.z, t.h, start)
          PROVE  /\ DQ' = Store(DQ, LAMBDA m : A(m), LAMBDA m : F(m), rows)
                 /\ StoreDb(cells)
      <4> HIDE DEF t, start
      <4>1. k # "fuse" /\ QSize(k) = BLOCK_M
        BY <3>1
      <4> HIDE DEF k
      <4> QED BY <3>4, <4>1 DEF StoreDq, Store
    <3> QED BY <3>2, <3>3, <3>4
  <2>2. CASE FuseDq(p)
    <3>1. /\ k = "fuse"
          /\ t = [z |-> p[3], h |-> (p[1] - KvBlocks) \div QBlocks + p[2] * GroupSize,
                  i |-> (p[1] - KvBlocks) % QBlocks]
          /\ QSize(k) = BLOCK_N
      BY <2>2 DEF FuseDq, Run, QTile, QSize
    <3> DEFINE h == (p[1] - KvBlocks) \div QBlocks + p[2] * GroupSize
               from == ((p[1] - KvBlocks) % QBlocks) * BLOCK_N
    <3>2. /\ t.z = p[3] /\ t.h = h /\ start = from
      BY <3>1
    <3>3. \/ DQ' = DQ /\ DB' = DB /\ from >= SeqlenQ(p[3])
          \/ FusedStoreDq(p[3], h, from)
      BY <2>2 DEF FuseDq
    <3>4. ASSUME FusedStoreDq(t.z, t.h, start)
          PROVE  /\ DQ' = Store(DQ, LAMBDA m : A(m), LAMBDA m : F(m), rows)
                 /\ StoreDb(cells)
      <4> HIDE DEF t, start
      <4>1. k = "fuse" /\ QSize(k) = BLOCK_N
        BY <3>1
      <4> HIDE DEF k
      <4>2. DQ' = Store(DQ, LAMBDA m : A(m), LAMBDA m : F(m), rows)
        BY <3>4, <4>1 DEF FusedStoreDq, Store
      <4>3. StoreDb(cells)
        <5>1. cells = DbCells(t.z, t.h, start, BLOCK_N, BLOCK_M)
          BY <4>1
        <5> QED BY <3>4, <5>1 DEF FusedStoreDq
      <4> QED BY <4>2, <4>3
    <3> HIDE DEF h, from
    <3> QED BY <3>2, <3>3, <3>4
  <2> QED BY <2>1, <2>2
<1> HIDE DEF k, t, start, A, F
<1>5. CASE DQ' = DQ /\ DB' = DB /\ start >= SeqlenQ(t.z)
  <2>1. rows = {}
    BY <1>3, <1>5, NoRows DEF QueryRows
  <2>2. cells = {}
    BY <2>1 DEF DbCells
  <2> QED BY <1>1, <1>5, <2>1, <2>2
          DEF StoresDq, StoresDb, QRows, DbOf, t, start, k
<1>6. CASE /\ DQ' = Store(DQ, LAMBDA m : A(m), LAMBDA m : F(m), rows)
           /\ StoreDb(cells)
  <2>1. DQ' = [a \in S \cup DOMAIN DQ |-> IF a \in S THEN F(by(a)) ELSE DQ[a]]
    BY <1>6 DEF Store
  <2>2. \A a \in S : by(a) \in rows /\ A(by(a)) = a
    OBVIOUS
  <2> HIDE DEF by, rows
  <2>3. \A a \in DOMAIN DQ' :
          \/ a \in DOMAIN DQ /\ DQ'[a] = DQ[a]
          \/ \E m \in rows : a = A(m) /\ DQ'[a] = F(m)
    <3> HIDE DEF S
    <3> QED BY <2>1, <2>2
  <2>4. DOMAIN DQ' = S \cup DOMAIN DQ
    BY <2>1
  <2>5. rows = QRows(kernel, p) /\ \A m : A(m) = QAddr(kernel, p, m) /\ F(m) = QTerms(kernel, p, m)
    BY DEF rows, QRows, QAddr, QTerms, t, start, k, A, F
  <2>6. StoresDq(kernel, p, DQ')
    BY <2>3, <2>4, <2>5 DEF StoresDq
  <2>7. cells = DbOf(kernel, p)
    BY DEF DbOf, t, start, k
  <2> HIDE DEF cells
  <2>8. StoresDb(kernel, p, DB')
    BY <1>6, <2>7 DEF StoreDb, StoresDb
  <2> QED BY <1>1, <2>6, <2>8 DEF k
<1> QED BY <1>4, <1>5, <1>6

LEMMA DkvStores ==
  ASSUME WellFormed(launch), NEW p, p \in GridOf(kernel), bwd_kernel_dk_dv(p) \/ FuseDkDv(p)
  PROVE  /\ StoresDkv(kernel, p, DKV')
         /\ kernel \in {"dk_dv", "fuse"} /\ ForKeys(kernel, p)
         /\ UNCHANGED <<Delta, DQ, DB, Encoded>>
<1> DEFINE k == kernel
           t == KTile(k, p)
           start == t.i * BLOCK_N
           A(n) == KeyAddr(t.z, t.h, n)
           F(n) == IF k = "fuse" THEN FusedDkDvTerms(t.z, t.h, start, n)
                                 ELSE DkDvTerms(t.z, t.h, start, n)
           rows == InBounds(start, BLOCK_N, SeqlenK(t.z))
           S == {A(n) : n \in rows}
           by(a) == CHOOSE n \in rows : A(n) = a
<1>1. /\ k \in {"dk_dv", "fuse"} /\ ForKeys(k, p) /\ UNCHANGED <<Delta, DQ, DB, Encoded>>
  BY DEF bwd_kernel_dk_dv, FuseDkDv, Run, ForKeys
<1>2. t \in KFrame
  BY <1>1, KTiles
<1>3. start \in Nat /\ BLOCK_N \in Positive /\ SeqlenK(t.z) \in Nat
  <2> HIDE DEF t
  <2> QED BY <1>2, KBlockStart, Constants
<1>4. \/ DKV' = DKV /\ start >= SeqlenK(t.z)
      \/ DKV' = Store(DKV, LAMBDA n : A(n), LAMBDA n : F(n), rows)
  <2>1. CASE bwd_kernel_dk_dv(p)
    <3>1. k = "dk_dv" /\ t = [z |-> p[3], h |-> Head(p, launch.Hk), i |-> Block(p)]
      BY <2>1 DEF bwd_kernel_dk_dv, Run, KTile
    <3> QED BY <2>1, <3>1 DEF bwd_kernel_dk_dv, StoreDkDv, Store
  <2>2. CASE FuseDkDv(p)
    <3>1. k = "fuse" /\ t = [z |-> p[3], h |-> p[2], i |-> p[1]]
      BY <2>2 DEF FuseDkDv, Run, KTile
    <3> QED BY <2>2, <3>1 DEF FuseDkDv, FusedStoreDkDv, Store
  <2> QED BY <2>1, <2>2
<1> HIDE DEF k, t, start, A, F
<1>5. CASE DKV' = DKV /\ start >= SeqlenK(t.z)
  <2>1. rows = {}
    BY <1>3, <1>5, NoRows
  <2> QED BY <1>1, <1>5, <2>1 DEF StoresDkv, KRows, t, start, k
<1>6. CASE DKV' = Store(DKV, LAMBDA n : A(n), LAMBDA n : F(n), rows)
  <2>1. DKV' = [a \in S \cup DOMAIN DKV |-> IF a \in S THEN F(by(a)) ELSE DKV[a]]
    BY <1>6 DEF Store
  <2>2. \A a \in S : by(a) \in rows /\ A(by(a)) = a
    OBVIOUS
  <2> HIDE DEF by, rows
  <2>3. \A a \in DOMAIN DKV' :
          \/ a \in DOMAIN DKV /\ DKV'[a] = DKV[a]
          \/ \E n \in rows : a = A(n) /\ DKV'[a] = F(n)
    <3> HIDE DEF S
    <3> QED BY <2>1, <2>2
  <2>4. DOMAIN DKV' = S \cup DOMAIN DKV
    BY <2>1
  <2>5. rows = KRows(kernel, p) /\ \A n : A(n) = KAddr(kernel, p, n) /\ F(n) = KTerms(kernel, p, n)
    BY DEF rows, KRows, KAddr, KTerms, t, start, k, A, F
  <2>6. StoresDkv(kernel, p, DKV')
    BY <2>3, <2>4, <2>5 DEF StoresDkv
  <2> QED BY <1>1, <2>6 DEF k
<1> QED BY <1>4, <1>5, <1>6

-----------------------------------------------------------------------------
(* A kernel whose programs are all done has stored all its rows.           *)

(* What a finished program has stored, in terms of what its tensors hold. *)
DeltaDone(p, sums) == \A m \in DeltaRows(p) : LseAddr(p[3], p[2], m) \in sums
EncodeDone(p, cells) ==
  \A m \in EncodedRows(p), n \in AllKeys : <<p[3], p[2], m, n>> \in cells
QDone(k, p, rows, cells) ==
  ForQueries(k, p) => /\ \A m \in QRows(k, p) : QAddr(k, p, m) \in rows
                      /\ store_db => DbOf(k, p) \subseteq cells
KDone(k, p, rows) ==
  ForKeys(k, p) => \A n \in KRows(k, p) : KAddr(k, p, n) \in rows

(* And what a whole kernel has. *)
DeltaAll(sums) ==
  \A z \in Entries, h \in Heads : \A m \in Queries(z) : LseAddr(z, h, m) \in sums
EncodeAll(cells) ==
  \A z \in Entries, h \in Heads : \A m \in Queries(z), n \in Keys(z) : <<z, h, m, n>> \in cells
DqAll(rows) ==
  \A z \in Entries, h \in Heads : \A m \in Queries(z) : RowAddr(z, h, m) \in rows
DbAll(cells) ==
  \A z \in Entries, h \in Heads : \A m \in Queries(z), n \in Keys(z) :
    BiasAddr(z, h, m, n) \in cells
DkvAll(rows) ==
  \A z \in Entries, hk \in 0..(launch.Hk - 1) : \A n \in Keys(z) : KeyAddr(z, hk, n) \in rows

LEMMA RowInBlock ==
  ASSUME NEW rows \in Nat, NEW limit \in Positive, rows <= limit, NEW B \in Positive,
         NEW m \in 0..(rows - 1)
  PROVE  /\ m \in Nat /\ m \div B \in 0..(cdiv(limit, B) - 1)
         /\ m \in InBounds((m \div B) * B, B, rows)
<1> DEFINE i == m \div B
           c == cdiv(limit, B)
<1>1. m \in Nat /\ m < rows
  OBVIOUS
<1>2. i \in Nat /\ i * B <= m /\ m < i * B + B
  BY <1>1, DivFloor
<1>3. c \in Positive /\ limit <= c * B
  BY CdivPositive, CdivCovers
<1> HIDE DEF i, c
<1>4. i < c
  <2>1. CASE i >= c
    <3>1. c * B <= i * B
      BY <1>2, <1>3, <2>1 DEF Positive
    <3>2. i * B \in Nat /\ c * B \in Nat
      BY <1>2, <1>3 DEF Positive
    <3> QED BY <1>1, <1>2, <1>3, <3>1, <3>2 DEF Positive
  <2> QED BY <1>2, <1>3, <2>1 DEF Positive
<1>5. m \in InBounds(i * B, B, rows)
  <2>1. i * B \in Nat
    BY <1>2 DEF Positive
  <2> DEFINE s == i * B
  <2> HIDE DEF s
  <2>2. s \in Nat /\ s <= m /\ m < s + B
    BY <1>2, <2>1 DEF s
  <2>3. m \in InBounds(s, B, rows)
    BY <1>1, <2>2 DEF InBounds, Positive
  <2> QED BY <2>3 DEF s
<1> QED BY <1>1, <1>2, <1>3, <1>4, <1>5 DEF i, c, Positive

LEMMA DeltaComplete ==
  ASSUME WellFormed(launch), NEW sums, \A p \in GridOf("preprocess") : DeltaDone(p, sums)
  PROVE  DeltaAll(sums)
<1> SUFFICES ASSUME NEW z \in Entries, NEW h \in Heads, NEW m \in Queries(z)
             PROVE  LseAddr(z, h, m) \in sums
  BY DEF DeltaAll
<1> DEFINE i == m \div BLOCK_M
           p == <<i, h, z>>
<1>1. SeqlenQ(z) \in Nat /\ SeqlenQ(z) <= launch.out_rows /\ launch.out_rows \in Positive
  <2>1. SeqlenQ(z) <= launch.out_rows
    <3>1. CASE launch.num = 0
      BY <3>1 DEF WellFormed, SeqlenQ
    <3>2. CASE launch.num # 0
      <4>1. z \in 0..(Abs(launch.num) - 1)
        BY <3>2, LaunchFacts DEF Entries, Batch, Abs
      <4> QED BY <3>2, <4>1 DEF WellFormed, SeqlenQ, Abs
    <3> QED BY <3>1, <3>2
  <2> QED BY <2>1, Lengths DEF WellFormed
<1>2. i \in 0..(cdiv(launch.out_rows, BLOCK_M) - 1) /\ m \in InBounds(i * BLOCK_M, BLOCK_M, SeqlenQ(z))
  BY <1>1, RowInBlock, Constants DEF Queries
<1> HIDE DEF i
<1>3. p \in GridOf("preprocess")
  BY <1>2 DEF GridOf, Ids, Entries, Heads
<1>4. m \in DeltaRows(p)
  BY <1>2 DEF DeltaRows, QueryRows
<1> QED BY <1>3, <1>4 DEF DeltaDone

LEMMA EncodeComplete ==
  ASSUME WellFormed(launch), NEW cells, \A p \in GridOf("encode") : EncodeDone(p, cells)
  PROVE  EncodeAll(cells)
<1> SUFFICES ASSUME NEW z \in Entries, NEW h \in Heads, NEW m \in Queries(z), NEW n \in Keys(z)
             PROVE  <<z, h, m, n>> \in cells
  BY DEF EncodeAll
<1> DEFINE i == m \div BLOCK_N
           p == <<i, h, z>>
<1>1. /\ m \in 0..(launch.max_q - 1) /\ n \in AllKeys
      /\ launch.max_q \in Positive /\ launch.max_q \in Nat
  <2>1. /\ SeqlenQ(z) \in Nat /\ SeqlenQ(z) <= launch.max_q /\ launch.max_q \in Positive
        /\ SeqlenK(z) \in Nat /\ SeqlenK(z) <= launch.max_k /\ launch.max_k \in Positive
    BY Lengths, LaunchFacts
  <2>2. m \in 0..(SeqlenQ(z) - 1) /\ n \in 0..(SeqlenK(z) - 1)
    BY DEF Queries, Keys
  <2> QED BY <2>1, <2>2 DEF AllKeys, Positive
<1>2. i \in 0..(cdiv(launch.max_q, BLOCK_N) - 1)
      /\ m \in InBounds(i * BLOCK_N, BLOCK_N, launch.max_q)
  <2>1. launch.max_q <= launch.max_q /\ BLOCK_N \in Positive
    BY <1>1, Constants
  <2> QED BY <1>1, <2>1, RowInBlock
<1> HIDE DEF i
<1>3. p \in GridOf("encode")
  BY <1>2 DEF GridOf, Ids, Entries, Heads
<1>4. m \in EncodedRows(p)
  BY <1>2 DEF EncodedRows
<1> QED BY <1>1, <1>3, <1>4 DEF EncodeDone

(* The program that computes a row. *)
LEMMA QueryProgram ==
  ASSUME WellFormed(launch), NEW k, k \in {"dq", "fuse"},
         NEW z \in Entries, NEW h \in Heads, NEW m \in Queries(z)
  PROVE  \E p \in GridOf(k) : /\ ForQueries(k, p) /\ m \in QRows(k, p)
                              /\ QTile(k, p).z = z /\ QTile(k, p).h = h
<1> DEFINE B == QSize(k)
           i == m \div B
           t == [z |-> z, h |-> h, i |-> i]
<1>1. B \in Positive /\ SeqlenQ(z) \in Nat /\ SeqlenQ(z) <= launch.max_q
      /\ launch.max_q \in Positive
  BY Counts, Lengths, LaunchFacts
<1> HIDE DEF B
<1>2. i \in 0..(cdiv(launch.max_q, B) - 1) /\ m \in InBounds(i * B, B, SeqlenQ(z))
  BY <1>1, RowInBlock DEF Queries
<1> HIDE DEF i
<1>3. i \in 0..(QCount(k) - 1)
  BY <1>2 DEF QCount, B
<1>4. t \in QFrame(k)
  BY <1>3 DEF QFrame
<1>5. PICK p \in GridOf(k) : ForQueries(k, p) /\ QTile(k, p) = t
  BY <1>4, QTiles
<1>6. QTile(k, p).z = z /\ QTile(k, p).h = h /\ QTile(k, p).i = i
  BY <1>5
<1>7. m \in QRows(k, p)
  BY <1>2, <1>6 DEF QRows, QueryRows, B
<1> QED BY <1>5, <1>6, <1>7

LEMMA DqComplete ==
  ASSUME WellFormed(launch), NEW k, k \in {"dq", "fuse"}, NEW rows, NEW cells,
         \A p \in GridOf(k) : QDone(k, p, rows, cells)
  PROVE  DqAll(rows)
<1> SUFFICES ASSUME NEW z \in Entries, NEW h \in Heads, NEW m \in Queries(z)
             PROVE  RowAddr(z, h, m) \in rows
  BY DEF DqAll
<1>1. PICK p \in GridOf(k) : /\ ForQueries(k, p) /\ m \in QRows(k, p)
                             /\ QTile(k, p).z = z /\ QTile(k, p).h = h
  BY QueryProgram
<1> QED BY <1>1 DEF QDone, QAddr

(* A kernel that adds a bias has no window, so a tile's columns are all    *)
(* the keys.                                                               *)
LEMMA BiasColumns ==
  ASSUME WellFormed(launch), launch.bias, NEW z \in Entries, NEW start \in Nat,
         NEW BQ \in Positive, NEW BK \in Positive, NEW m \in QueryRows(z, start, BQ),
         NEW n \in Keys(z)
  PROVE  n \in Columns(DqIntervals(z, start, BQ, BK), BK) /\ n < SeqlenK(z)
<1>1. /\ SeqlenQ(z) \in Nat /\ SeqlenK(z) \in Nat
      /\ Window(z).left \in Int /\ Window(z).right \in Int
  BY Lengths, WindowBounds
<1>2. m \in Nat /\ start <= m /\ m < start + BQ /\ m < SeqlenQ(z)
  BY <1>1 DEF QueryRows, InBounds, Positive
<1>3. SeqlenQ(z) \in Positive /\ SeqlenK(z) \in Positive /\ n \in 0..(SeqlenK(z) - 1)
  BY <1>1, <1>2 DEF Keys, Positive
<1>4. Allowed(Window(z), m, n)
  BY DEF Allowed, Window, parse_window, WellFormed
<1>5. n \in Columns(DqIntervals(z, start, BQ, BK), BK)
  BY <1>1, <1>2, <1>3, <1>4, ColumnsExact DEF DqIntervals
<1> QED BY <1>1, <1>3, <1>5

LEMMA DbComplete ==
  ASSUME WellFormed(launch), store_db, NEW k, k \in {"dq", "fuse"}, NEW rows, NEW cells,
         \A p \in GridOf(k) : QDone(k, p, rows, cells)
  PROVE  DbAll(cells)
<1> SUFFICES ASSUME NEW z \in Entries, NEW h \in Heads, NEW m \in Queries(z), NEW n \in Keys(z)
             PROVE  BiasAddr(z, h, m, n) \in cells
  BY DEF DbAll
<1>1. PICK p \in GridOf(k) : /\ ForQueries(k, p) /\ m \in QRows(k, p)
                             /\ QTile(k, p).z = z /\ QTile(k, p).h = h
  BY QueryProgram
<1> DEFINE t == QTile(k, p)
           start == t.i * QSize(k)
           BK == IF k = "fuse" THEN BLOCK_M ELSE BLOCK_N
<1>2. start \in Nat /\ QSize(k) \in Positive /\ BK \in Positive
  <2>1. t \in QFrame(k)
    BY <1>1, QTiles
  <2> HIDE DEF t
  <2> QED BY <2>1, QBlockStart, Constants
<1>3. m \in QueryRows(z, start, QSize(k))
  BY <1>1 DEF QRows
<1>4. launch.bias
  BY DEF store_db
<1>5. t.z = z /\ t.h = h
  BY <1>1
<1> HIDE DEF start, BK, t
<1>6. n \in Columns(DqIntervals(z, start, QSize(k), BK), BK) /\ n < SeqlenK(z)
  BY <1>2, <1>3, <1>4, BiasColumns
<1>7. BiasAddr(z, h, m, n) \in DbCells(z, h, start, QSize(k), BK)
  BY <1>3, <1>6 DEF DbCells
<1>8. DbCells(z, h, start, QSize(k), BK) = DbOf(k, p)
  BY <1>5 DEF DbOf, start, BK, t
<1> QED BY <1>1, <1>7, <1>8 DEF QDone

LEMMA DkvComplete ==
  ASSUME WellFormed(launch), NEW k, k \in {"dk_dv", "fuse"}, NEW rows,
         \A p \in GridOf(k) : KDone(k, p, rows)
  PROVE  DkvAll(rows)
<1> SUFFICES ASSUME NEW z \in Entries, NEW h \in 0..(launch.Hk - 1), NEW n \in Keys(z)
             PROVE  KeyAddr(z, h, n) \in rows
  BY DEF DkvAll
<1> DEFINE i == n \div BLOCK_N
           t == [z |-> z, h |-> h, i |-> i]
<1>1. SeqlenK(z) \in Nat /\ SeqlenK(z) <= launch.max_k /\ launch.max_k \in Positive
  BY Lengths, LaunchFacts
<1>2. i \in 0..(cdiv(launch.max_k, BLOCK_N) - 1) /\ n \in InBounds(i * BLOCK_N, BLOCK_N, SeqlenK(z))
  BY <1>1, RowInBlock, Constants DEF Keys
<1> HIDE DEF i
<1>3. t \in KFrame
  BY <1>2 DEF KFrame, KvBlocks
<1>4. PICK p \in GridOf(k) : ForKeys(k, p) /\ KTile(k, p) = t
  BY <1>3, KTiles
<1>5. KTile(k, p).z = z /\ KTile(k, p).h = h /\ KTile(k, p).i = i
  BY <1>4
<1>6. n \in KRows(k, p)
  BY <1>2, <1>5 DEF KRows
<1> QED BY <1>4, <1>5, <1>6 DEF KDone, KAddr

-----------------------------------------------------------------------------
(* What these programs read is right, and so is what they store.           *)

(* What a gradient is computed from, and the terms of its rows. *)
Inputs(z, h, m) == [do |-> <<z, h, m>>, l |-> <<z, h, m>>, delta |-> <<z, h, m>>]
KeyInputs(z, h, m) ==
  IF launch.backend = "fuse" /\ ~launch.do_like_out
    THEN [do |-> Garbage, l |-> <<z, h, m>>, delta |-> Garbage]
    ELSE Inputs(z, h, m)
ExactDq(z, h, m) ==
  {Term(z, Entry(h, m, n, Number(z, h, m, n)), Inputs(z, h, m)) : n \in Attended(z, m)}
ExactDkv(z, hk, n) ==
  {Term(z, Entry(x[1], x[2], n, Number(z, x[1], x[2], n)), KeyInputs(z, x[1], x[2])) :
     x \in AttendedBy(z, hk, n)}

RightDelta(a, d) ==
  \E z \in Entries, h \in Heads : \E m \in Queries(z) : a = LseAddr(z, h, m) /\ d = <<z, h, m>>
RightDq(a, row) ==
  \E z \in Entries, h \in Heads : \E m \in Queries(z) :
    a = RowAddr(z, h, m) /\ row = ExactDq(z, h, m)
RightDkv(a, row) ==
  \E z \in Entries, hk \in 0..(launch.Hk - 1) : \E n \in Keys(z) :
    a = KeyAddr(z, hk, n) /\ row = ExactDkv(z, hk, n)
RightNumber(a, number) ==
  \E z \in Entries, h \in Heads, m \in 0..(launch.max_q - 1), n \in AllKeys :
    a = <<z, h, m, n>> /\ number = Number(z, h, m, n)

(* The rows a kernel of the backward pass reads are those of its queries.  *)
Found == \A z \in Entries, h \in Heads : \A m \in Queries(z) :
           OutRow(z, h, m) = <<z, h, m>> /\ LRow(z, h, m) = <<z, h, m>>

LEMMA RowsFound ==
  ASSUME WellFormed(launch), AllWritten, LRight, ~Overruns PROVE Found
<1> SUFFICES ASSUME NEW z \in Entries, NEW h \in Heads, NEW m \in Queries(z)
             PROVE  OutRow(z, h, m) = <<z, h, m>> /\ LRow(z, h, m) = <<z, h, m>>
  BY DEF Found
<1> DEFINE a == LseAddr(z, h, m)
<1>1. RowAddr(z, h, m) \in DOMAIN Out /\ a \in DOMAIN L
  BY DEF AllWritten, RowsSatisfy
<1>2. RightL(a, L[a])
  BY <1>1 DEF LRight
<1>3. PICK y \in Entries, g \in Heads : \E k \in LRows(y) :
        a = LseAddr(y, g, k) /\ L[a].row = <<y, g, k>>
  BY <1>2 DEF RightL
<1>4. PICK k \in LRows(y) : a = LseAddr(y, g, k) /\ L[a].row = <<y, g, k>>
  BY <1>3
<1>5. m \in LRows(z)
  BY QueriesInLRows
<1>6. z = y /\ h = g /\ m = k
  BY <1>4, <1>5, LseUnique
<1> QED BY <1>1, <1>4, <1>6 DEF OutRow, LRow

LEMMA DeltaFound ==
  ASSUME WellFormed(launch), DeltaAll(DOMAIN Delta),
         \A a \in DOMAIN Delta : RightDelta(a, Delta[a]),
         NEW z \in Entries, NEW h \in Heads, NEW m \in Queries(z)
  PROVE  LseAddr(z, h, m) \in DOMAIN Delta /\ Delta[LseAddr(z, h, m)] = <<z, h, m>>
<1> DEFINE a == LseAddr(z, h, m)
<1>1. a \in DOMAIN Delta
  BY DEF DeltaAll
<1>2. PICK y \in Entries, g \in Heads : \E k \in Queries(y) :
        a = LseAddr(y, g, k) /\ Delta[a] = <<y, g, k>>
  BY <1>1 DEF RightDelta
<1>3. PICK k \in Queries(y) : a = LseAddr(y, g, k) /\ Delta[a] = <<y, g, k>>
  BY <1>2
<1>4. m \in LRows(z) /\ k \in LRows(y)
  BY QueriesInLRows
<1>5. z = y /\ h = g /\ m = k
  BY <1>3, <1>4, LseUnique
<1> QED BY <1>1, <1>3, <1>5

(* What the programs of the split and of the fused pass read of a query.   *)
LEMMA SplitInputs ==
  ASSUME WellFormed(launch), Found, DeltaAll(DOMAIN Delta),
         \A a \in DOMAIN Delta : RightDelta(a, Delta[a]),
         NEW z \in Entries, NEW h \in Heads, NEW m \in Queries(z)
  PROVE  SplitRow(z, h, m) = Inputs(z, h, m)
<1>1. LseAddr(z, h, m) \in DOMAIN Delta /\ Delta[LseAddr(z, h, m)] = <<z, h, m>>
  BY DeltaFound
<1>2. LRow(z, h, m) = <<z, h, m>>
  BY DEF Found
<1> QED BY <1>1, <1>2 DEF SplitRow, Inputs

LEMMA FusedInputs ==
  ASSUME Found, NEW z \in Entries, NEW h \in Heads, NEW m \in Queries(z)
  PROVE  /\ FusedDqRow(z, h, m) = Inputs(z, h, m)
         /\ launch.backend = "fuse" => FusedDkDvRow(z, h, m) = KeyInputs(z, h, m)
<1>1. LRow(z, h, m) = <<z, h, m>> /\ OutRow(z, h, m) = <<z, h, m>>
  BY DEF Found
<1> QED BY <1>1 DEF FusedDqRow, FusedDkDvRow, Inputs, KeyInputs

DeltaReady == DeltaAll(DOMAIN Delta) /\ \A a \in DOMAIN Delta : RightDelta(a, Delta[a])

LEMMA QRowsAreQueries ==
  ASSUME WellFormed(launch), NEW k, k \in {"dq", "fuse"}, NEW p, p \in GridOf(k), ForQueries(k, p),
         NEW m \in QRows(k, p)
  PROVE  LET t == QTile(k, p)
         IN  t \in QFrame(k) /\ t.z \in Entries /\ t.h \in Heads /\ m \in Queries(t.z)
             /\ m \in QueryRows(t.z, t.i * QSize(k), QSize(k))
             /\ t.i * QSize(k) \in Nat /\ QSize(k) \in Positive
<1> DEFINE t == QTile(k, p)
           start == t.i * QSize(k)
<1>1. t \in QFrame(k)
  BY QTiles
<1>2. m \in QueryRows(t.z, start, QSize(k))
  BY DEF QRows
<1> HIDE DEF t
<1>3. start \in Nat /\ QSize(k) \in Positive /\ t.z \in Entries /\ t.h \in Heads
      /\ SeqlenQ(t.z) \in Nat
  BY <1>1, QBlockStart
<1> HIDE DEF start
<1>4. m \in Queries(t.z)
  BY <1>2, <1>3 DEF QueryRows, InBounds, Queries, Positive
<1> QED BY <1>1, <1>2, <1>3, <1>4 DEF start, t

LEMMA QTermsExact ==
  ASSUME WellFormed(launch), Found, NoneEmpty,
         NEW k, k \in {"dq", "fuse"}, k = "dq" => DeltaReady,
         NEW p, p \in GridOf(k), ForQueries(k, p), NEW m \in QRows(k, p)
  PROVE  RightDq(QAddr(k, p, m), QTerms(k, p, m))
<1> DEFINE t == QTile(k, p)
           start == t.i * QSize(k)
           z == t.z
           h == t.h
           E == {Entry(h, m, n, Number(z, h, m, n)) : n \in Attended(z, m)}
<1>1. /\ z \in Entries /\ h \in Heads /\ m \in Queries(z)
      /\ m \in QueryRows(z, start, QSize(k)) /\ start \in Nat
  BY QRowsAreQueries
<1>2. /\ QSize(k) = IF k = "fuse" THEN BLOCK_N ELSE BLOCK_M
      /\ QTerms(k, p, m) = IF k = "fuse" THEN FusedDqTerms(z, h, start, m)
                                         ELSE DqTerms(z, h, start, m)
      /\ QAddr(k, p, m) = RowAddr(z, h, m)
  BY DEF QSize, QTerms, QAddr
<1> HIDE DEF start, z, h, t
<1>3. SeqlenK(z) > 0
  BY <1>1 DEF NoneEmpty
<1>4. CASE k = "dq"
  <2>1. DqElements(z, h, start, m, BLOCK_M, BLOCK_N) = E
    BY <1>1, <1>2, <1>3, <1>4, DqExact, Constants
  <2>2. SplitRow(z, h, m) = Inputs(z, h, m)
    BY <1>1, <1>4, SplitInputs DEF DeltaReady
  <2>3. QTerms(k, p, m) = {Term(z, e, Inputs(z, h, m)) : e \in E}
    BY <1>2, <1>4, <2>1, <2>2 DEF DqTerms
  <2>4. QTerms(k, p, m) = ExactDq(z, h, m)
    BY <2>3 DEF ExactDq
  <2> QED BY <1>1, <1>2, <2>4 DEF RightDq
<1>5. CASE k = "fuse"
  <2>1. DqElements(z, h, start, m, BLOCK_N, BLOCK_M) = E
    BY <1>1, <1>2, <1>3, <1>5, DqExact, Constants
  <2>2. FusedDqRow(z, h, m) = Inputs(z, h, m)
    BY <1>1, FusedInputs
  <2>3. QTerms(k, p, m) = {Term(z, e, Inputs(z, h, m)) : e \in E}
    BY <1>2, <1>5, <2>1, <2>2 DEF FusedDqTerms
  <2>4. QTerms(k, p, m) = ExactDq(z, h, m)
    BY <2>3 DEF ExactDq
  <2> QED BY <1>1, <1>2, <2>4 DEF RightDq
<1> QED BY <1>4, <1>5

LEMMA KTermsExact ==
  ASSUME WellFormed(launch), Found, NoneEmpty,
         NEW k, k \in {"dk_dv", "fuse"}, k = "dk_dv" => DeltaReady /\ launch.backend # "fuse",
         k = "fuse" => launch.backend = "fuse",
         NEW p, p \in GridOf(k), ForKeys(k, p), NEW n \in KRows(k, p)
  PROVE  RightDkv(KAddr(k, p, n), KTerms(k, p, n))
<1> DEFINE t == KTile(k, p)
           start == t.i * BLOCK_N
           z == t.z
           hk == t.h
           X == AttendedBy(z, hk, n)
           E == {Entry(x[1], x[2], n, Number(z, x[1], x[2], n)) : x \in X}
<1>1. t \in KFrame
  BY KTiles
<1>2. /\ n \in InBounds(start, BLOCK_N, SeqlenK(z))
      /\ KTerms(k, p, n) = IF k = "fuse" THEN FusedDkDvTerms(z, hk, start, n)
                                         ELSE DkDvTerms(z, hk, start, n)
      /\ KAddr(k, p, n) = KeyAddr(z, hk, n)
  BY DEF KRows, KTerms, KAddr
<1>3. /\ start \in Nat /\ start % PHILOX_RN_PER_OFFSET = 0
      /\ z \in Entries /\ hk \in 0..(launch.Hk - 1) /\ SeqlenK(z) \in Nat
  <2> HIDE DEF t
  <2> QED BY <1>1, KBlockStart
<1> HIDE DEF start, z, hk, t
<1>4. SeqlenQ(z) > 0
  BY <1>3 DEF NoneEmpty
<1>5. n \in Keys(z)
  BY <1>2, <1>3, Constants DEF InBounds, Keys, Positive
<1>6. DkDvElements(z, hk, start, n) = E
  BY <1>2, <1>3, <1>4, DkDvExact
<1>7. \A x \in X : x[1] \in Heads /\ x[2] \in Queries(z)
  BY DEF AttendedBy, GroupOf
<1>8. CASE k = "dk_dv"
  <2>1. \A x \in X : SplitRow(z, x[1], x[2]) = KeyInputs(z, x[1], x[2])
    BY <1>3, <1>7, <1>8, SplitInputs DEF DeltaReady, KeyInputs
  <2>2. KTerms(k, p, n) = {Term(z, e, SplitRow(z, e.h, e.m)) : e \in E}
    BY <1>2, <1>6, <1>8 DEF DkDvTerms
  <2>3. KTerms(k, p, n) = ExactDkv(z, hk, n)
    <3> HIDE DEF X
    <3>1. \A x \in X : LET e == Entry(x[1], x[2], n, Number(z, x[1], x[2], n))
                       IN  e.h = x[1] /\ e.m = x[2]
      BY DEF Entry
    <3>2. {Term(z, e, SplitRow(z, e.h, e.m)) : e \in E}
            = {Term(z, Entry(x[1], x[2], n, Number(z, x[1], x[2], n)), KeyInputs(z, x[1], x[2])) :
                 x \in X}
      BY <2>1, <3>1
    <3> QED BY <2>2, <3>2 DEF ExactDkv, X
  <2> QED BY <1>2, <1>3, <1>5, <2>3 DEF RightDkv
<1>9. CASE k = "fuse"
  <2>1. \A x \in X : FusedDkDvRow(z, x[1], x[2]) = KeyInputs(z, x[1], x[2])
    BY <1>3, <1>7, <1>9, FusedInputs
  <2>2. KTerms(k, p, n) = {Term(z, e, FusedDkDvRow(z, e.h, e.m)) : e \in E}
    BY <1>2, <1>6, <1>9 DEF FusedDkDvTerms
  <2>3. KTerms(k, p, n) = ExactDkv(z, hk, n)
    <3> HIDE DEF X
    <3>1. \A x \in X : LET e == Entry(x[1], x[2], n, Number(z, x[1], x[2], n))
                       IN  e.h = x[1] /\ e.m = x[2]
      BY DEF Entry
    <3>2. {Term(z, e, FusedDkDvRow(z, e.h, e.m)) : e \in E}
            = {Term(z, Entry(x[1], x[2], n, Number(z, x[1], x[2], n)), KeyInputs(z, x[1], x[2])) :
                 x \in X}
      BY <2>1, <3>1
    <3> QED BY <2>2, <3>2 DEF ExactDkv, X
  <2> QED BY <1>2, <1>3, <1>5, <2>3 DEF RightDkv
<1> QED BY <1>8, <1>9

LEMMA EncodedNumber ==
  ASSUME WellFormed(launch), NEW p, p \in GridOf("encode"), NEW x \in EncodedRows(p) \X AllKeys
  PROVE  RightNumber(<<p[3], p[2], x[1], x[2]>>,
                     DropoutNumber(p[3], p[2], p[1] * BLOCK_N,
                                   x[2] - (x[2] % BLOCK_M), x[1], x[2]))
<1> DEFINE start == p[1] * BLOCK_N
           c == cdiv(launch.max_q, BLOCK_N)
<1>1. /\ p[1] \in 0..(c - 1) /\ p[2] \in Heads /\ p[3] \in Entries
  BY DEF GridOf, Ids, Heads, Entries
<1>2. /\ c \in Positive /\ launch.max_q \in Positive /\ launch.max_k \in Positive
      /\ BLOCK_N \in Positive /\ BLOCK_M \in Positive /\ PHILOX_RN_PER_OFFSET \in Positive
      /\ BLOCK_M % PHILOX_RN_PER_OFFSET = 0
  BY Constants, CdivPositive, LaunchFacts
<1> HIDE DEF c
<1>3. p[1] \in Nat /\ BLOCK_N \in Nat
  BY <1>1, <1>2 DEF Positive
<1>4. start \in Nat
  BY <1>3, ProductNat
<1>5. x[1] \in InBounds(start, BLOCK_N, launch.max_q) /\ x[2] \in 0..(launch.max_k - 1)
  BY DEF EncodedRows, AllKeys
<1> HIDE DEF start
<1>6. /\ x[1] \in Nat /\ start <= x[1] /\ x[1] \in 0..(launch.max_q - 1)
      /\ x[2] \in Nat
  BY <1>2, <1>4, <1>5 DEF InBounds, Positive
<1> DEFINE y == x[2] - (x[2] % BLOCK_M)
<1>7. y \in Nat /\ y <= x[2] /\ y % PHILOX_RN_PER_OFFSET = 0
  BY <1>2, <1>6, FirstOfBlock
<1> HIDE DEF y
<1>8. DropoutNumber(p[3], p[2], start, y, x[1], x[2]) = Number(p[3], p[2], x[1], x[2])
  BY <1>1, <1>4, <1>6, <1>7, NumberOfElement
<1> QED BY <1>1, <1>5, <1>6, <1>8 DEF RightNumber, AllKeys, start, y

-----------------------------------------------------------------------------
(* The inductive invariant of the kernels behind the forward kernel: the   *)
(* programs that are done have stored their rows, the kernels behind have  *)
(* stored all of theirs, and what is stored is right.                      *)

(* A program's effect on its kernel's tensors, and what the kernels that   *)
(* are past have left.                                                     *)
Effect(k, p, sums, cells, rows, db, keys) ==
  /\ k = "preprocess" => DeltaDone(p, sums)
  /\ k = "encode" => EncodeDone(p, cells)
  /\ k \in {"dq", "fuse"} => QDone(k, p, rows, db)
  /\ k \in {"dk_dv", "fuse"} => KDone(k, p, keys)

Passed(k, sums, cells, rows, db, keys) ==
  /\ k \notin {"forward", "encode"} /\ launch.encoded => EncodeAll(cells)
  /\ k \in {"dk_dv", "dq"} => DeltaAll(sums)
  /\ k \in {"dq", "done"} /\ Wanted("dk_dv") => DkvAll(keys)
  /\ k = "done" /\ Wanted("dq") => DqAll(rows) /\ (store_db => DbAll(db))

Standing(k) ==
  /\ k = "fuse" => launch.backend = "fuse"
  /\ k \in {"preprocess", "dk_dv", "dq"} => launch.backend # "fuse"

Underway ==
  kernel \notin {"forward", "done"} =>
    /\ grid \subseteq GridOf(kernel)
    /\ \A p \in GridOf(kernel) \ grid :
         Effect(kernel, p, DOMAIN Delta, DOMAIN Encoded, DOMAIN DQ, DOMAIN DB, DOMAIN DKV)

Behind ==
  /\ Standing(kernel)
  /\ Passed(kernel, DOMAIN Delta, DOMAIN Encoded, DOMAIN DQ, DOMAIN DB, DOMAIN DKV)

LEMMA GridsStay ==
  ASSUME launch' = launch
  PROVE  /\ \A k : GridOf(k)' = GridOf(k)
         /\ \A p : Block(p)' = Block(p)
         /\ \A p, H : Head(p, H)' = Head(p, H)
         /\ GroupSize' = GroupSize /\ KvBlocks' = KvBlocks /\ QBlocks' = QBlocks
         /\ (store_db' <=> store_db)
<1>1. GroupSize' = GroupSize /\ KvBlocks' = KvBlocks /\ QBlocks' = QBlocks /\ Batch' = Batch
  BY DEF GroupSize, KvBlocks, QBlocks, Batch
<1>2. \A H, blocks : HeadsByBlocks(H, blocks)' = HeadsByBlocks(H, blocks)
  BY <1>1 DEF HeadsByBlocks
<1>3. \A k : GridOf(k)' = GridOf(k)
  BY <1>1, <1>2 DEF GridOf
<1>4. /\ \A p : Block(p)' = Block(p)
      /\ \A p, H : Head(p, H)' = Head(p, H)
  BY DEF Block, Head
<1>5. store_db' <=> store_db
  BY DEF store_db
<1> QED BY <1>1, <1>3, <1>4, <1>5

LEMMA BlocksStay ==
  ASSUME launch' = launch
  PROVE  /\ \A k, p : QTile(k, p)' = QTile(k, p) /\ KTile(k, p)' = KTile(k, p)
         /\ \A k, p : (ForQueries(k, p)' <=> ForQueries(k, p)) /\ (ForKeys(k, p)' <=> ForKeys(k, p))
         /\ \A k, p : QRows(k, p)' = QRows(k, p) /\ KRows(k, p)' = KRows(k, p)
         /\ \A k, p : DbOf(k, p)' = DbOf(k, p)
         /\ \A k, p, m : QAddr(k, p, m)' = QAddr(k, p, m)
         /\ \A k, p, n : KAddr(k, p, n)' = KAddr(k, p, n)
         /\ \A p : DeltaRows(p)' = DeltaRows(p) /\ EncodedRows(p)' = EncodedRows(p)
         /\ AllKeys' = AllKeys
         /\ \A z, h, n : KeyAddr(z, h, n)' = KeyAddr(z, h, n)
         /\ \A z, h, m, n : BiasAddr(z, h, m, n)' = BiasAddr(z, h, m, n)
<1>1. \A k, p : QTile(k, p)' = QTile(k, p) /\ KTile(k, p)' = KTile(k, p)
  BY GridsStay DEF QTile, KTile
<1>2. \A k, p : (ForQueries(k, p)' <=> ForQueries(k, p)) /\ (ForKeys(k, p)' <=> ForKeys(k, p))
  BY GridsStay DEF ForQueries, ForKeys
<1>3. \A z, s, B : QueryRows(z, s, B)' = QueryRows(z, s, B)
  BY AddressesStay DEF QueryRows, InBounds
<1>4. \A k, p : QRows(k, p)' = QRows(k, p) /\ KRows(k, p)' = KRows(k, p)
  <2>1. \A k : QSize(k)' = QSize(k)
    BY DEF QSize
  <2> QED BY <1>1, <1>3, <2>1, AddressesStay DEF QRows, KRows, InBounds
<1>5. \A z : batch_index(z)' = batch_index(z) /\ StartK(z)' = StartK(z)
  BY DEF batch_index, StartK
<1>6. /\ \A z, h, n : KeyAddr(z, h, n)' = KeyAddr(z, h, n)
      /\ \A z, h, m, n : BiasAddr(z, h, m, n)' = BiasAddr(z, h, m, n)
  BY <1>5 DEF KeyAddr, BiasAddr
<1>7. \A k, p : DbOf(k, p)' = DbOf(k, p)
  <2>1. \A z, s, BQ, BK : DqIntervals(z, s, BQ, BK)' = DqIntervals(z, s, BQ, BK)
    BY AddressesStay DEF DqIntervals
  <2>2. \A z, h, s, BQ, BK : DbCells(z, h, s, BQ, BK)' = DbCells(z, h, s, BQ, BK)
    BY <1>3, <1>6, <2>1, AddressesStay DEF DbCells
  <2> QED BY <1>1, <2>2 DEF DbOf, QSize
<1>8. /\ \A k, p, m : QAddr(k, p, m)' = QAddr(k, p, m)
      /\ \A k, p, n : KAddr(k, p, n)' = KAddr(k, p, n)
  BY <1>1, <1>6, AddressesStay DEF QAddr, KAddr
<1>9. /\ \A p : DeltaRows(p)' = DeltaRows(p) /\ EncodedRows(p)' = EncodedRows(p)
      /\ AllKeys' = AllKeys
  BY <1>3 DEF DeltaRows, EncodedRows, AllKeys
<1> QED BY <1>1, <1>2, <1>4, <1>6, <1>7, <1>8, <1>9

LEMMA EffectStays ==
  ASSUME launch' = launch
  PROVE  /\ \A k, p, s, c, r, d, e : Effect(k, p, s, c, r, d, e)' <=> Effect(k, p, s, c, r, d, e)
         /\ \A k, s, c, r, d, e : Passed(k, s, c, r, d, e)' <=> Passed(k, s, c, r, d, e)
         /\ \A k : Standing(k)' <=> Standing(k)
<1>1. /\ \A p, s : DeltaDone(p, s)' <=> DeltaDone(p, s)
      /\ \A p, c : EncodeDone(p, c)' <=> EncodeDone(p, c)
      /\ \A k, p, r, d : QDone(k, p, r, d)' <=> QDone(k, p, r, d)
      /\ \A k, p, e : KDone(k, p, e)' <=> KDone(k, p, e)
  BY BlocksStay, AddressesStay, GridsStay DEF DeltaDone, EncodeDone, QDone, KDone
<1>2. \A k, p, s, c, r, d, e : Effect(k, p, s, c, r, d, e)' <=> Effect(k, p, s, c, r, d, e)
  BY <1>1 DEF Effect
<1>3. /\ \A s : DeltaAll(s)' <=> DeltaAll(s)
      /\ \A c : EncodeAll(c)' <=> EncodeAll(c)
      /\ \A r : DqAll(r)' <=> DqAll(r)
      /\ \A d : DbAll(d)' <=> DbAll(d)
      /\ \A e : DkvAll(e)' <=> DkvAll(e)
  BY BlocksStay, AddressesStay DEF DeltaAll, EncodeAll, DqAll, DbAll, DkvAll
<1>4. \A k, s, c, r, d, e : Passed(k, s, c, r, d, e)' <=> Passed(k, s, c, r, d, e)
  BY <1>3, GridsStay DEF Passed, Wanted
<1>5. \A k : Standing(k)' <=> Standing(k)
  BY DEF Standing
<1> QED BY <1>2, <1>4, <1>5

(* What a program of the backward pass does, whichever kernel it is of.    *)
Done(p) ==
  \/ /\ kernel = "preprocess" /\ StoresDelta(p, Delta')
     /\ UNCHANGED <<DQ, DKV, DB, Encoded>>
  \/ /\ kernel = "encode" /\ StoresEncoded(p, Encoded')
     /\ UNCHANGED <<Delta, DQ, DKV, DB>>
  \/ /\ kernel \in {"dq", "fuse"} /\ ForQueries(kernel, p)
     /\ StoresDq(kernel, p, DQ') /\ StoresDb(kernel, p, DB')
     /\ UNCHANGED <<Delta, DKV, Encoded>>
  \/ /\ kernel \in {"dk_dv", "fuse"} /\ ForKeys(kernel, p)
     /\ StoresDkv(kernel, p, DKV')
     /\ UNCHANGED <<Delta, DQ, DB, Encoded>>

LEMMA BackwardDoes ==
  ASSUME WellFormed(launch), Underway, NEW p \in grid, Backward(p)
  PROVE  Done(p) /\ p \in GridOf(kernel) /\ kernel \notin {"forward", "done"}
<1>1. kernel \notin {"forward", "done"}
  BY DEF Backward, debug_simulate_encoded_softmax, bwd_preprocess, bwd_preprocess_varlen,
         bwd_kernel_dk_dv, bwd_kernel_dq, FuseDkDv, FuseDq, Run
<1>2. p \in GridOf(kernel)
  BY <1>1 DEF Underway
<1>3. CASE debug_simulate_encoded_softmax(p)
  <2>1. StoresEncoded(p, Encoded') /\ kernel = "encode" /\ UNCHANGED <<Delta, DQ, DKV, DB>>
    BY <1>3, EncodeStores
  <2> QED BY <1>1, <1>2, <2>1 DEF Done
<1>4. CASE bwd_preprocess(p) \/ bwd_preprocess_varlen(p)
  <2>1. kernel = "preprocess"
    BY <1>4 DEF bwd_preprocess, bwd_preprocess_varlen, Run
  <2> QED BY <1>2, <1>4, <2>1, PreprocessStores DEF Done
<1>5. CASE bwd_kernel_dk_dv(p) \/ FuseDkDv(p)
  BY <1>2, <1>5, DkvStores DEF Done
<1>6. CASE bwd_kernel_dq(p) \/ FuseDq(p)
  BY <1>2, <1>6, DqStores DEF Done
<1> QED BY <1>1, <1>2, <1>3, <1>4, <1>5, <1>6 DEF Backward

(* A program of the fused kernel computes queries or keys, not both.       *)
LEMMA OneOfBoth ==
  ASSUME WellFormed(launch), NEW k, k \in {"dk_dv", "dq", "fuse"}, NEW p, p \in GridOf(k)
  PROVE  ~(ForQueries(k, p) /\ ForKeys(k, p))
<1>1. CASE k = "fuse"
  <2>1. p[1] \in Int /\ KvBlocks \in Int
    <3>1. p[1] \in 0..((KvBlocks + QBlocks * GroupSize) - 1)
      BY <1>1, FusedGrid
    <3> QED BY <3>1, Counts DEF Positive
  <2> QED BY <1>1, <2>1 DEF ForQueries, ForKeys
<1>2. CASE k # "fuse"
  BY <1>2 DEF ForQueries, ForKeys
<1> QED BY <1>1, <1>2

LEMMA DoneEffect ==
  ASSUME WellFormed(launch), NEW p, p \in GridOf(kernel), Done(p)
  PROVE  /\ Effect(kernel, p, DOMAIN Delta', DOMAIN Encoded', DOMAIN DQ', DOMAIN DB', DOMAIN DKV')
         /\ DOMAIN Delta \subseteq DOMAIN Delta' /\ DOMAIN Encoded \subseteq DOMAIN Encoded'
         /\ DOMAIN DQ \subseteq DOMAIN DQ' /\ DOMAIN DKV \subseteq DOMAIN DKV'
         /\ store_db => DOMAIN DB \subseteq DOMAIN DB'
<1>1. CASE /\ kernel = "preprocess" /\ StoresDelta(p, Delta')
           /\ UNCHANGED <<DQ, DKV, DB, Encoded>>
  <2>1. DOMAIN Delta' = {LseAddr(p[3], p[2], m) : m \in DeltaRows(p)} \cup DOMAIN Delta
    BY <1>1 DEF StoresDelta
  <2> QED BY <1>1, <2>1 DEF Effect, DeltaDone
<1>2. CASE /\ kernel = "encode" /\ StoresEncoded(p, Encoded')
           /\ UNCHANGED <<Delta, DQ, DKV, DB>>
  <2>1. DOMAIN Encoded' = {<<p[3], p[2], x[1], x[2]>> : x \in EncodedRows(p) \X AllKeys}
                            \cup DOMAIN Encoded
    BY <1>2 DEF StoresEncoded
  <2>2. EncodeDone(p, DOMAIN Encoded')
    <3>1. SUFFICES ASSUME NEW m \in EncodedRows(p), NEW n \in AllKeys
                   PROVE  <<p[3], p[2], m, n>> \in DOMAIN Encoded'
      BY DEF EncodeDone
    <3> DEFINE x == <<m, n>>
    <3>2. x \in EncodedRows(p) \X AllKeys /\ x[1] = m /\ x[2] = n
      OBVIOUS
    <3> QED BY <2>1, <3>2
  <2> QED BY <1>2, <2>1, <2>2 DEF Effect
<1>3. CASE /\ kernel \in {"dq", "fuse"} /\ ForQueries(kernel, p)
           /\ StoresDq(kernel, p, DQ') /\ StoresDb(kernel, p, DB')
           /\ UNCHANGED <<Delta, DKV, Encoded>>
  <2>1. DOMAIN DQ' = {QAddr(kernel, p, m) : m \in QRows(kernel, p)} \cup DOMAIN DQ
    BY <1>3 DEF StoresDq
  <2>2. store_db => DOMAIN DB' = DbOf(kernel, p) \cup DOMAIN DB
    BY <1>3 DEF StoresDb
  <2>3. QDone(kernel, p, DOMAIN DQ', DOMAIN DB')
    BY <2>1, <2>2 DEF QDone
  <2>4. kernel \in {"dk_dv", "fuse"} => KDone(kernel, p, DOMAIN DKV')
    BY <1>3, OneOfBoth DEF KDone
  <2> QED BY <1>3, <2>1, <2>2, <2>3, <2>4 DEF Effect
<1>4. CASE /\ kernel \in {"dk_dv", "fuse"} /\ ForKeys(kernel, p)
           /\ StoresDkv(kernel, p, DKV')
           /\ UNCHANGED <<Delta, DQ, DB, Encoded>>
  <2>1. DOMAIN DKV' = {KAddr(kernel, p, n) : n \in KRows(kernel, p)} \cup DOMAIN DKV
    BY <1>4 DEF StoresDkv
  <2>2. KDone(kernel, p, DOMAIN DKV')
    BY <2>1 DEF KDone
  <2>3. ~ForQueries(kernel, p)
    BY <1>4, OneOfBoth
  <2> QED BY <1>4, <2>1, <2>2, <2>3 DEF Effect, QDone
<1> QED BY <1>1, <1>2, <1>3, <1>4 DEF Done

LEMMA EffectGrows ==
  ASSUME NEW k, NEW p, NEW s, NEW c, NEW r, NEW d, NEW e,
         NEW ss, NEW cc, NEW rr, NEW dd, NEW ee,
         s \subseteq ss, c \subseteq cc, r \subseteq rr, e \subseteq ee,
         store_db => d \subseteq dd
  PROVE  /\ Effect(k, p, s, c, r, d, e) => Effect(k, p, ss, cc, rr, dd, ee)
         /\ Passed(k, s, c, r, d, e) => Passed(k, ss, cc, rr, dd, ee)
<1>1. Effect(k, p, s, c, r, d, e) => Effect(k, p, ss, cc, rr, dd, ee)
  BY DEF Effect, DeltaDone, EncodeDone, QDone, KDone
<1>2. /\ DeltaAll(s) => DeltaAll(ss)
      /\ EncodeAll(c) => EncodeAll(cc)
      /\ DqAll(r) => DqAll(rr)
      /\ DkvAll(e) => DkvAll(ee)
      /\ store_db => (DbAll(d) => DbAll(dd))
  BY DEF DeltaAll, EncodeAll, DqAll, DkvAll, DbAll
<1> QED BY <1>1, <1>2 DEF Passed

LEMMA UnderwayKept ==
  ASSUME Underway, launch' = launch, kernel' = kernel, kernel \notin {"forward", "done"},
         NEW p \in grid, grid' = grid \ {p},
         NEW s, s = DOMAIN Delta', DOMAIN Delta \subseteq s,
         NEW c, c = DOMAIN Encoded', DOMAIN Encoded \subseteq c,
         NEW r, r = DOMAIN DQ', DOMAIN DQ \subseteq r,
         NEW d, d = DOMAIN DB', store_db => DOMAIN DB \subseteq d,
         NEW e, e = DOMAIN DKV', DOMAIN DKV \subseteq e,
         Effect(kernel, p, s, c, r, d, e)
  PROVE  Underway' /\ (Behind => Behind')
<1>1. ASSUME NEW k, k = kernel, NEW q \in GridOf(k) \ (grid \ {p}) PROVE Effect(k, q, s, c, r, d, e)
  <2>1. CASE q = p
    BY <1>1, <2>1
  <2>2. CASE q # p
    <3>1. Effect(k, q, DOMAIN Delta, DOMAIN Encoded, DOMAIN DQ, DOMAIN DB, DOMAIN DKV)
      BY <1>1, <2>2 DEF Underway
    <3> QED BY <3>1, EffectGrows
  <2> QED BY <2>1, <2>2
<1>2. GridOf(kernel)' = GridOf(kernel)
  BY GridsStay
<1>3. ASSUME NEW q, (q \in GridOf(kernel) \ grid)', NEW k, k = kernel'
      PROVE  Effect(kernel, q, DOMAIN Delta, DOMAIN Encoded, DOMAIN DQ, DOMAIN DB, DOMAIN DKV)'
  <2>1. q \in GridOf(k) \ (grid \ {p}) /\ k = kernel
    BY <1>2, <1>3
  <2>2. Effect(k, q, s, c, r, d, e)
    BY <1>1, <2>1
  <2>3. Effect(k, q, s, c, r, d, e)'
    BY <2>2, EffectStays
  <2> QED BY <1>3, <2>3
<1>4. Underway'
  <2>1. grid' \subseteq GridOf(kernel)'
    BY <1>2 DEF Underway
  <2> QED BY <1>3, <2>1 DEF Underway
<1>5. ASSUME Behind, NEW k, k = kernel PROVE Behind'
  <2>1. Passed(k, DOMAIN Delta, DOMAIN Encoded, DOMAIN DQ, DOMAIN DB, DOMAIN DKV) /\ Standing(k)
    BY <1>5 DEF Behind
  <2>2. Passed(k, s, c, r, d, e)
    BY <2>1, EffectGrows
  <2>3. Passed(k, s, c, r, d, e)' /\ Standing(k)'
    BY <2>1, <2>2, EffectStays
  <2> QED BY <1>5, <2>3 DEF Behind
<1> QED BY <1>4, <1>5

LEMMA UnderwayProgram ==
  ASSUME WellFormed(launch), Underway, NEW p \in grid, Backward(p)
  PROVE  Underway' /\ (Behind => Behind')
<1>1. Done(p) /\ p \in GridOf(kernel) /\ kernel \notin {"forward", "done"}
  BY BackwardDoes
<1>2. launch' = launch /\ kernel' = kernel /\ grid' = grid \ {p}
  BY BackwardLeaves
<1>3. /\ Effect(kernel, p, DOMAIN Delta', DOMAIN Encoded', DOMAIN DQ', DOMAIN DB', DOMAIN DKV')
      /\ DOMAIN Delta \subseteq DOMAIN Delta' /\ DOMAIN Encoded \subseteq DOMAIN Encoded'
      /\ DOMAIN DQ \subseteq DOMAIN DQ' /\ DOMAIN DKV \subseteq DOMAIN DKV'
      /\ store_db => DOMAIN DB \subseteq DOMAIN DB'
  BY <1>1, DoneEffect
<1> QED BY <1>1, <1>2, <1>3, UnderwayKept

(* The next kernel starts on what the last one has left.                   *)
LEMMA KernelLeaves ==
  ASSUME WellFormed(launch), Underway, Behind, kernel \in Kernels \ {"forward", "done"}, grid = {}
  PROVE  /\ kernel = "encode" => EncodeAll(DOMAIN Encoded)
         /\ kernel = "preprocess" => DeltaAll(DOMAIN Delta)
         /\ kernel \in {"dq", "fuse"} => /\ DqAll(DOMAIN DQ)
                                         /\ store_db => DbAll(DOMAIN DB)
         /\ kernel \in {"dk_dv", "fuse"} => DkvAll(DOMAIN DKV)
<1>1. \A p \in GridOf(kernel) :
        Effect(kernel, p, DOMAIN Delta, DOMAIN Encoded, DOMAIN DQ, DOMAIN DB, DOMAIN DKV)
  BY DEF Underway
<1>2. kernel = "encode" => EncodeAll(DOMAIN Encoded)
  BY <1>1, EncodeComplete DEF Effect
<1>3. kernel = "preprocess" => DeltaAll(DOMAIN Delta)
  BY <1>1, DeltaComplete DEF Effect
<1>4. kernel \in {"dq", "fuse"} => /\ DqAll(DOMAIN DQ)
                                   /\ store_db => DbAll(DOMAIN DB)
  BY <1>1, DqComplete, DbComplete DEF Effect
<1>5. kernel \in {"dk_dv", "fuse"} => DkvAll(DOMAIN DKV)
  BY <1>1, DkvComplete DEF Effect
<1> QED BY <1>2, <1>3, <1>4, <1>5

LEMMA BehindNextKernel ==
  ASSUME WellFormed(launch), Underway, Behind, kernel \in Kernels, NextKernel
  PROVE  Behind' /\ Underway'
<1> DEFINE k == Following(kernel)
           s == DOMAIN Delta
           c == DOMAIN Encoded
           r == DOMAIN DQ
           d == DOMAIN DB
           e == DOMAIN DKV
<1>1. /\ kernel # "done" /\ grid = {} /\ kernel' = k /\ launch' = launch
      /\ UNCHANGED <<Delta, Encoded, DQ, DB, DKV>>
      /\ grid' = IF kernel' = "done" THEN {} ELSE GridOf(kernel')
  BY DEF NextKernel, ForwardDone
<1>2. Standing(kernel) /\ Passed(kernel, s, c, r, d, e)
  BY DEF Behind
<1>3. Standing(k) /\ k \in Kernels \ {"forward"}
  BY <1>1, <1>2 DEF Following, Standing, Kernels
<1>4. Passed(k, s, c, r, d, e)
  <2>1. CASE kernel = "forward"
    BY <2>1 DEF Following, Passed
  <2>2. CASE kernel = "encode"
    <3>1. EncodeAll(c)
      BY <1>1, <2>2, KernelLeaves
    <3> QED BY <2>2, <3>1 DEF Following, Passed
  <2>3. CASE kernel = "preprocess"
    <3>1. DeltaAll(s)
      BY <1>1, <2>3, KernelLeaves
    <3> HIDE DEF s, c, r, d, e
    <3> QED BY <1>2, <2>3, <3>1 DEF Following, Passed
  <2>4. CASE kernel = "dk_dv"
    <3>1. DkvAll(e)
      BY <1>1, <2>4, KernelLeaves
    <3> HIDE DEF s, c, r, d, e
    <3> QED BY <1>2, <2>4, <3>1 DEF Following, Passed
  <2>5. CASE kernel = "dq"
    <3>1. DqAll(r) /\ (store_db => DbAll(d))
      BY <1>1, <2>5, KernelLeaves
    <3> HIDE DEF s, c, r, d, e
    <3> QED BY <1>2, <2>5, <3>1 DEF Following, Passed
  <2>6. CASE kernel = "fuse"
    <3>1. DqAll(r) /\ (store_db => DbAll(d)) /\ DkvAll(e)
      BY <1>1, <2>6, KernelLeaves
    <3> HIDE DEF s, c, r, d, e
    <3> QED BY <1>2, <2>6, <3>1 DEF Following, Passed
  <2> QED BY <1>1, <2>1, <2>2, <2>3, <2>4, <2>5, <2>6 DEF Kernels
<1>5. ASSUME NEW kk, kk = kernel', NEW ss, ss = s, NEW cc, cc = c, NEW rr, rr = r,
             NEW dd, dd = d, NEW ee, ee = e
      PROVE  Behind'
  <2>1. Passed(kk, ss, cc, rr, dd, ee) /\ Standing(kk)
    BY <1>1, <1>3, <1>4, <1>5
  <2>2. Passed(kk, ss, cc, rr, dd, ee)' /\ Standing(kk)'
    BY <1>1, <2>1, EffectStays
  <2> QED BY <1>1, <1>5, <2>2 DEF Behind
<1>6. Behind'
  BY <1>5
<1>7. Underway'
  <2>1. ASSUME kernel' # "done" PROVE grid' = GridOf(kernel)'
    <3>1. \A kk : GridOf(kk)' = GridOf(kk)
      BY <1>1, GridsStay
    <3> QED BY <1>1, <2>1, <3>1
  <2> QED BY <2>1 DEF Underway
<1> QED BY <1>6, <1>7

ValuesRight ==
  ForwardRight => /\ \A a \in DOMAIN Delta : RightDelta(a, Delta[a])
                  /\ \A a \in DOMAIN DQ : RightDq(a, DQ[a])
                  /\ \A a \in DOMAIN DKV : RightDkv(a, DKV[a])

NumbersRight == \A a \in DOMAIN Encoded : RightNumber(a, Encoded[a])

(* The gradients of the bias that the programs which are done have stored. *)
DbOnce ==
  store_db =>
    /\ kernel \notin {"dq", "fuse", "done"} => DOMAIN DB = {}
    /\ \A a \in DOMAIN DB : DB[a] = 1
    /\ kernel \in {"dq", "fuse"} => \A a \in DOMAIN DB : \E p \in GridOf(kernel) \ grid :
                                      ForQueries(kernel, p) /\ a \in DbOf(kernel, p)

Fresh == kernel = "forward" => DQ = <<>> /\ DKV = <<>> /\ Encoded = <<>>

LEMMA ValuesStay ==
  ASSUME launch' = launch
  PROVE  /\ \A a, d : RightDelta(a, d)' <=> RightDelta(a, d)
         /\ \A a, row : RightDq(a, row)' <=> RightDq(a, row)
         /\ \A a, row : RightDkv(a, row)' <=> RightDkv(a, row)
         /\ \A a, number : RightNumber(a, number)' <=> RightNumber(a, number)
         /\ ForwardRight' <=> ForwardRight
<1>1. \A z, m : Attended(z, m)' = Attended(z, m)
  BY AddressesStay DEF Attended
<1>2. Stride' = Stride /\ GroupSize' = GroupSize
  BY DEF Stride, GroupSize
<1>3. \A z, h, m, n : Number(z, h, m, n)' = Number(z, h, m, n)
  BY <1>2 DEF Number, batch_philox_offset
<1>4. \A z, h, m, n : Operands(z, h, m, n)' = Operands(z, h, m, n)
  BY <1>2, AddressesStay, BlocksStay DEF Operands
<1>5. \A z, e, row : Term(z, e, row)' = Term(z, e, row)
  BY <1>4 DEF Term
<1>6. \A z, hk, n : AttendedBy(z, hk, n)' = AttendedBy(z, hk, n)
  BY <1>1, <1>2, AddressesStay DEF AttendedBy, GroupOf
<1>7. \A z, h, m : ExactDq(z, h, m)' = ExactDq(z, h, m)
  BY <1>1, <1>3, <1>5 DEF ExactDq, Inputs, Entry
<1>8. \A z, hk, n : ExactDkv(z, hk, n)' = ExactDkv(z, hk, n)
  <2>1. \A z, h, m : KeyInputs(z, h, m)' = KeyInputs(z, h, m)
    BY DEF KeyInputs, Inputs
  <2> QED BY <1>3, <1>5, <1>6, <2>1 DEF ExactDkv, Entry
<1>9. /\ \A a, d : RightDelta(a, d)' <=> RightDelta(a, d)
      /\ \A a, row : RightDq(a, row)' <=> RightDq(a, row)
  BY <1>7, AddressesStay DEF RightDelta, RightDq
<1>10. \A a, row : RightDkv(a, row)' <=> RightDkv(a, row)
  BY <1>8, AddressesStay, BlocksStay DEF RightDkv
<1>11. \A a, number : RightNumber(a, number)' <=> RightNumber(a, number)
  BY <1>3, AddressesStay DEF RightNumber, AllKeys
<1>12. ForwardRight' <=> ForwardRight
  BY JobsStay, TilesStay, AddressesStay DEF ForwardRight, NoneEmpty
<1> QED BY <1>9, <1>10, <1>11, <1>12

LEMMA ValuesKept ==
  ASSUME ValuesRight, launch' = launch,
         ForwardRight => /\ \A a \in DOMAIN Delta' : \/ RightDelta(a, Delta'[a])
                                                     \/ a \in DOMAIN Delta /\ Delta'[a] = Delta[a]
                         /\ \A a \in DOMAIN DQ' : \/ RightDq(a, DQ'[a])
                                                  \/ a \in DOMAIN DQ /\ DQ'[a] = DQ[a]
                         /\ \A a \in DOMAIN DKV' : \/ RightDkv(a, DKV'[a])
                                                   \/ a \in DOMAIN DKV /\ DKV'[a] = DKV[a]
  PROVE  ValuesRight'
<1>1. ForwardRight' <=> ForwardRight
  BY ValuesStay
<1>2. ASSUME ForwardRight, NEW a \in DOMAIN Delta', NEW d, d = Delta'[a] PROVE RightDelta(a, Delta[a])'
  <2>1. RightDelta(a, d)
    BY <1>2 DEF ValuesRight
  <2>2. RightDelta(a, d)'
    BY <2>1, ValuesStay
  <2> QED BY <1>2, <2>2
<1>3. ASSUME ForwardRight, NEW a \in DOMAIN DQ', NEW d, d = DQ'[a] PROVE RightDq(a, DQ[a])'
  <2>1. RightDq(a, d)
    BY <1>3 DEF ValuesRight
  <2>2. RightDq(a, d)'
    BY <2>1, ValuesStay
  <2> QED BY <1>3, <2>2
<1>4. ASSUME ForwardRight, NEW a \in DOMAIN DKV', NEW d, d = DKV'[a] PROVE RightDkv(a, DKV[a])'
  <2>1. RightDkv(a, d)
    BY <1>4 DEF ValuesRight
  <2>2. RightDkv(a, d)'
    BY <2>1, ValuesStay
  <2> QED BY <1>4, <2>2
<1> QED BY <1>1, <1>2, <1>3, <1>4 DEF ValuesRight

LEMMA DeltaStoresRight ==
  ASSUME WellFormed(launch), Found, kernel = "preprocess", NEW p, p \in GridOf(kernel),
         NEW m \in DeltaRows(p)
  PROVE  RightDelta(LseAddr(p[3], p[2], m), OutRow(p[3], p[2], m))
<1> DEFINE start == p[1] * BLOCK_M
           c == cdiv(launch.out_rows, BLOCK_M)
<1>1. p[1] \in 0..(c - 1) /\ p[2] \in Heads /\ p[3] \in Entries
  BY DEF GridOf, Ids, Heads, Entries
<1>2. c \in Positive /\ BLOCK_M \in Positive
  BY Constants, CdivPositive DEF WellFormed
<1> HIDE DEF c
<1>3. p[1] \in Nat /\ BLOCK_M \in Nat
  BY <1>1, <1>2 DEF Positive
<1>4. start \in Nat /\ SeqlenQ(p[3]) \in Nat
  BY <1>1, <1>3, ProductNat, Lengths
<1>5. m \in InBounds(start, BLOCK_M, SeqlenQ(p[3]))
  BY DEF DeltaRows, QueryRows
<1> HIDE DEF start
<1>6. m \in Queries(p[3])
  BY <1>2, <1>4, <1>5 DEF InBounds, Queries, Positive
<1>7. OutRow(p[3], p[2], m) = <<p[3], p[2], m>>
  BY <1>1, <1>6 DEF Found
<1> QED BY <1>1, <1>6, <1>7 DEF RightDelta

LEMMA ValuesProgram ==
  ASSUME Shape, Coverage, LRight, Underway, Behind, ValuesRight, NEW p \in grid, Backward(p)
  PROVE  ValuesRight'
<1>1. Done(p) /\ p \in GridOf(kernel) /\ kernel \notin {"forward", "done"}
  BY BackwardDoes, Constants DEF Shape
<1>2. launch' = launch /\ WellFormed(launch)
  BY BackwardLeaves, Constants DEF Shape
<1>3. ASSUME ForwardRight
      PROVE  /\ \A a \in DOMAIN Delta' : \/ RightDelta(a, Delta'[a])
                                         \/ a \in DOMAIN Delta /\ Delta'[a] = Delta[a]
             /\ \A a \in DOMAIN DQ' : \/ RightDq(a, DQ'[a])
                                      \/ a \in DOMAIN DQ /\ DQ'[a] = DQ[a]
             /\ \A a \in DOMAIN DKV' : \/ RightDkv(a, DKV'[a])
                                       \/ a \in DOMAIN DKV /\ DKV'[a] = DKV[a]
  <2>1. Found /\ NoneEmpty
    <3>1. AllWritten /\ ~Overruns /\ NoneEmpty
      BY <1>1, <1>3 DEF Coverage, ForwardRight
    <3> QED BY <1>2, <3>1, RowsFound
  <2>2. Standing(kernel) /\ (kernel \in {"dk_dv", "dq"} => DeltaReady)
    BY <1>3 DEF Behind, Passed, ValuesRight, DeltaReady
  <2>3. CASE /\ kernel = "preprocess" /\ StoresDelta(p, Delta')
             /\ UNCHANGED <<DQ, DKV, DB, Encoded>>
    <3>1. \A m \in DeltaRows(p) : RightDelta(LseAddr(p[3], p[2], m), OutRow(p[3], p[2], m))
      BY <1>1, <1>2, <2>1, <2>3, DeltaStoresRight
    <3> QED BY <2>3, <3>1 DEF StoresDelta
  <2>4. CASE /\ kernel = "encode" /\ StoresEncoded(p, Encoded')
             /\ UNCHANGED <<Delta, DQ, DKV, DB>>
    BY <2>4
  <2>5. CASE /\ kernel \in {"dq", "fuse"} /\ ForQueries(kernel, p)
             /\ StoresDq(kernel, p, DQ') /\ StoresDb(kernel, p, DB')
             /\ UNCHANGED <<Delta, DKV, Encoded>>
    <3>1. \A m \in QRows(kernel, p) : RightDq(QAddr(kernel, p, m), QTerms(kernel, p, m))
      BY <1>1, <1>2, <2>1, <2>2, <2>5, QTermsExact
    <3> QED BY <2>5, <3>1 DEF StoresDq
  <2>6. CASE /\ kernel \in {"dk_dv", "fuse"} /\ ForKeys(kernel, p)
             /\ StoresDkv(kernel, p, DKV')
             /\ UNCHANGED <<Delta, DQ, DB, Encoded>>
    <3>1. \A n \in KRows(kernel, p) : RightDkv(KAddr(kernel, p, n), KTerms(kernel, p, n))
      BY <1>1, <1>2, <2>1, <2>2, <2>6, KTermsExact DEF Standing
    <3> QED BY <2>6, <3>1 DEF StoresDkv
  <2> QED BY <1>1, <2>3, <2>4, <2>5, <2>6 DEF Done
<1> QED BY <1>2, <1>3, ValuesKept

LEMMA NumbersKept ==
  ASSUME NumbersRight, launch' = launch,
         \A a \in DOMAIN Encoded' : \/ RightNumber(a, Encoded'[a])
                                    \/ a \in DOMAIN Encoded /\ Encoded'[a] = Encoded[a]
  PROVE  NumbersRight'
<1>1. ASSUME NEW a \in DOMAIN Encoded', NEW d, d = Encoded'[a] PROVE RightNumber(a, Encoded[a])'
  <2>1. RightNumber(a, d)
    BY <1>1 DEF NumbersRight
  <2>2. RightNumber(a, d)'
    BY <2>1, ValuesStay
  <2> QED BY <1>1, <2>2
<1> QED BY <1>1 DEF NumbersRight

LEMMA NumbersProgram ==
  ASSUME WellFormed(launch), Underway, NumbersRight, NEW p \in grid, Backward(p)
  PROVE  NumbersRight'
<1>1. Done(p) /\ p \in GridOf(kernel) /\ launch' = launch
  BY BackwardDoes, BackwardLeaves
<1>2. CASE kernel = "encode" /\ StoresEncoded(p, Encoded')
  <2>1. \A x \in EncodedRows(p) \X AllKeys :
          RightNumber(<<p[3], p[2], x[1], x[2]>>,
                      DropoutNumber(p[3], p[2], p[1] * BLOCK_N,
                                    x[2] - (x[2] % BLOCK_M), x[1], x[2]))
    BY <1>1, <1>2, EncodedNumber
  <2>2. \A a \in DOMAIN Encoded' : \/ RightNumber(a, Encoded'[a])
                                   \/ a \in DOMAIN Encoded /\ Encoded'[a] = Encoded[a]
    BY <1>2, <2>1 DEF StoresEncoded
  <2> QED BY <1>1, <2>2, NumbersKept
<1>3. CASE Encoded' = Encoded
  BY <1>1, <1>3, NumbersKept
<1> QED BY <1>1, <1>2, <1>3 DEF Done

(* The programs of a kernel store different elements of the bias' gradient.*)
LEMMA DbApart ==
  ASSUME WellFormed(launch), launch.bias, NEW k, k \in {"dq", "fuse"},
         NEW p, p \in GridOf(k), ForQueries(k, p), NEW q, q \in GridOf(k), ForQueries(k, q),
         NEW a, a \in DbOf(k, p), a \in DbOf(k, q)
  PROVE  p = q
<1> DEFINE t == QTile(k, p)
           u == QTile(k, q)
           B == QSize(k)
<1>1. t \in QFrame(k) /\ u \in QFrame(k)
  BY QTiles
<1>2. PICK m, n : m \in QRows(k, p) /\ a = BiasAddr(t.z, t.h, m, n)
  BY DEF DbOf, DbCells, QRows
<1>3. PICK r, s : r \in QRows(k, q) /\ a = BiasAddr(u.z, u.h, r, s)
  BY DEF DbOf, DbCells, QRows
<1>4. launch.num \in Int /\ launch.num <= 0
  BY DEF WellFormed
<1>5. t.z = u.z /\ t.h = u.h /\ m = r
  <2> HIDE DEF t, u
  <2> QED BY <1>2, <1>3, <1>4 DEF BiasAddr, batch_index
<1>6. /\ m \in InBounds(t.i * B, B, SeqlenQ(t.z)) /\ r \in InBounds(u.i * B, B, SeqlenQ(u.z))
  BY <1>2, <1>3 DEF QRows, QueryRows
<1>7. /\ t.i * B \in Nat /\ u.i * B \in Nat /\ B \in Positive
      /\ t.i \in Int /\ u.i \in Int /\ SeqlenQ(t.z) \in Nat
  <2>1. t.i \in Int /\ u.i \in Int
    BY <1>1 DEF QFrame
  <2> HIDE DEF t, u
  <2> QED BY <1>1, <2>1, QBlockStart
<1>8. t.i = u.i
  <2> HIDE DEF t, u, B
  <2>1. m \in Int /\ t.i * B <= m /\ m < t.i * B + B
    <3> DEFINE s1 == t.i * B
    <3> HIDE DEF s1
    <3>1. m \in InBounds(s1, B, SeqlenQ(t.z)) /\ s1 \in Nat
      BY <1>6, <1>7 DEF s1
    <3>2. m \in Int /\ s1 <= m /\ m < s1 + B
      BY <1>7, <3>1 DEF InBounds, Positive
    <3> QED BY <3>2 DEF s1
  <2>2. u.i * B <= m /\ m < u.i * B + B
    <3> DEFINE s1 == u.i * B
    <3> HIDE DEF s1
    <3>1. m \in InBounds(s1, B, SeqlenQ(t.z)) /\ s1 \in Nat
      BY <1>5, <1>6, <1>7 DEF s1
    <3>2. s1 <= m /\ m < s1 + B
      BY <1>7, <3>1 DEF InBounds, Positive
    <3> QED BY <3>2 DEF s1
  <2> QED BY <1>7, <2>1, <2>2, FloorUnique
<1>9. t = u
  <2> HIDE DEF t, u
  <2> QED BY <1>1, <1>5, <1>8 DEF QFrame
<1> QED BY <1>9, QTiles

LEMMA DbOnceKept ==
  ASSUME DbOnce, launch' = launch, kernel' = kernel, grid' \subseteq grid,
         \/ DB' = DB
         \/ store_db => /\ \A a \in DOMAIN DB' : DB'[a] = 1
                        /\ kernel \in {"dq", "fuse"}
                        /\ \A a \in DOMAIN DB' : \/ a \in DOMAIN DB
                                                 \/ \E p \in GridOf(kernel) \ grid' :
                                                      ForQueries(kernel, p) /\ a \in DbOf(kernel, p)
  PROVE  DbOnce'
<1> SUFFICES ASSUME store_db PROVE DbOnce'
  <2>1. store_db' <=> store_db
    BY GridsStay
  <2> QED BY <2>1 DEF DbOnce
<1>1. kernel \notin {"dq", "fuse", "done"} => DOMAIN DB' = {}
  BY DEF DbOnce
<1>2. \A a \in DOMAIN DB' : DB'[a] = 1
  BY DEF DbOnce
<1>3. ASSUME NEW k, k = kernel, k \in {"dq", "fuse"}, NEW a \in DOMAIN DB'
      PROVE  \E p \in GridOf(k) \ grid' : ForQueries(k, p) /\ a \in DbOf(k, p)
  BY <1>3 DEF DbOnce
<1>4. ASSUME NEW a \in DOMAIN DB', kernel' \in {"dq", "fuse"}, NEW k, k = kernel'
      PROVE  (\E p \in GridOf(kernel) \ grid : ForQueries(kernel, p) /\ a \in DbOf(kernel, p))'
  <2>1. PICK p \in GridOf(k) \ grid' : ForQueries(k, p) /\ a \in DbOf(k, p)
    BY <1>3, <1>4
  <2>2. p \in GridOf(k)' /\ ForQueries(k, p)' /\ a \in DbOf(k, p)'
    BY <2>1, GridsStay, BlocksStay
  <2> QED BY <1>4, <2>1, <2>2
<1> QED BY <1>1, <1>2, <1>4 DEF DbOnce

LEMMA DbOnceProgram ==
  ASSUME WellFormed(launch), Underway, DbOnce, NEW p \in grid, Backward(p)
  PROVE  DbOnce'
<1>1. Done(p) /\ p \in GridOf(kernel) /\ UNCHANGED <<launch, kernel>> /\ grid' = grid \ {p}
  BY BackwardDoes, BackwardLeaves
<1>2. CASE DB' = DB
  BY <1>1, <1>2, DbOnceKept
<1>3. CASE /\ kernel \in {"dq", "fuse"} /\ ForQueries(kernel, p)
           /\ StoresDq(kernel, p, DQ') /\ StoresDb(kernel, p, DB')
           /\ UNCHANGED <<Delta, DKV, Encoded>>
  <2>1. ASSUME store_db
        PROVE  /\ \A a \in DOMAIN DB' : DB'[a] = 1
               /\ \A a \in DOMAIN DB' : \/ a \in DOMAIN DB
                                        \/ \E q \in GridOf(kernel) \ grid' :
                                             ForQueries(kernel, q) /\ a \in DbOf(kernel, q)
    <3>1. ASSUME NEW a \in DOMAIN DB, a \in DbOf(kernel, p) PROVE FALSE
      <4>1. PICK q \in GridOf(kernel) \ grid : ForQueries(kernel, q) /\ a \in DbOf(kernel, q)
        BY <1>3, <2>1 DEF DbOnce
      <4>2. launch.bias
        BY <2>1 DEF store_db
      <4>3. p = q
        BY <1>1, <1>3, <3>1, <4>1, <4>2, DbApart
      <4> QED BY <4>1, <4>3
    <3>2. /\ DOMAIN DB' = DbOf(kernel, p) \cup DOMAIN DB
          /\ \A a \in DOMAIN DB' : DB'[a] = IF a \notin DOMAIN DB THEN 1
                                            ELSE IF a \in DbOf(kernel, p) THEN DB[a] + 1 ELSE DB[a]
      BY <1>3, <2>1 DEF StoresDb
    <3>3. \A a \in DOMAIN DB : DB[a] = 1
      BY <2>1 DEF DbOnce
    <3>4. p \in GridOf(kernel) \ grid'
      BY <1>1
    <3> QED BY <1>3, <3>1, <3>2, <3>3, <3>4
  <2> QED BY <1>1, <1>3, <2>1, DbOnceKept
<1> QED BY <1>1, <1>2, <1>3 DEF Done

LEMMA DbOnceNextKernel ==
  ASSUME DbOnce, kernel \in Kernels, NextKernel PROVE DbOnce'
<1>1. kernel' = Following(kernel) /\ UNCHANGED <<launch, DB>> /\ kernel # "done"
  BY DEF NextKernel
<1>2. (store_db' <=> store_db)
  BY <1>1, GridsStay
<1>3. kernel' \in {"dq", "fuse"} => kernel \notin {"dq", "fuse", "done"}
  BY <1>1 DEF Following, Kernels
<1>4. kernel' \notin {"dq", "fuse", "done"} => kernel \notin {"dq", "fuse", "done"}
  BY <1>1 DEF Following, Kernels
<1>5. ASSUME store_db PROVE /\ kernel' \notin {"dq", "fuse", "done"} => DOMAIN DB' = {}
                            /\ \A a \in DOMAIN DB' : DB'[a] = 1
                            /\ kernel' \in {"dq", "fuse"} => DOMAIN DB' = {}
  BY <1>1, <1>3, <1>4, <1>5 DEF DbOnce
<1> QED BY <1>2, <1>5 DEF DbOnce

(* The inductive invariant of the backward pass. *)
BackInv == Underway /\ Behind /\ ValuesRight /\ NumbersRight /\ DbOnce /\ Fresh

LEMMA BackInit == ASSUME Init PROVE BackInv
<1>1. /\ kernel = "forward" /\ Delta = <<>> /\ DQ = <<>> /\ DKV = <<>> /\ DB = <<>>
      /\ Encoded = <<>>
  BY DEF Init
<1>2. DOMAIN Delta = {} /\ DOMAIN DQ = {} /\ DOMAIN DKV = {} /\ DOMAIN DB = {} /\ DOMAIN Encoded = {}
  BY <1>1
<1>3. Underway
  BY <1>1 DEF Underway
<1>4. Behind
  BY <1>1 DEF Behind, Passed, Standing
<1>5. ValuesRight
  BY <1>2 DEF ValuesRight
<1>6. NumbersRight
  BY <1>2 DEF NumbersRight
<1>7. DbOnce
  BY <1>1, <1>2 DEF DbOnce
<1>8. Fresh
  BY <1>1 DEF Fresh
<1> QED BY <1>3, <1>4, <1>5, <1>6, <1>7, <1>8 DEF BackInv

(* A step that leaves the backward pass alone. *)
LEMMA BackWaits ==
  ASSUME BackInv, launch' = launch, UNCHANGED backward, kernel = "forward" \/ grid' = grid
  PROVE  BackInv'
<1>1. /\ kernel' = kernel
      /\ UNCHANGED <<Delta, DQ, DKV, DB, Encoded>>
  BY DEF backward
<1>2. Underway'
  <2>1. CASE kernel = "forward"
    BY <1>1, <2>1 DEF Underway
  <2>2. CASE grid' = grid
    <3>1. ASSUME NEW k, k = kernel', NEW s, s = DOMAIN Delta', NEW c, c = DOMAIN Encoded',
                 NEW r, r = DOMAIN DQ', NEW d, d = DOMAIN DB', NEW e, e = DOMAIN DKV',
                 NEW q, (q \in GridOf(kernel) \ grid)', kernel' \notin {"forward", "done"}
          PROVE  Effect(kernel, q, DOMAIN Delta, DOMAIN Encoded, DOMAIN DQ, DOMAIN DB, DOMAIN DKV)'
      <4>1. GridOf(k)' = GridOf(k)
        BY GridsStay
      <4>2. q \in GridOf(k) \ grid /\ k = kernel
        BY <1>1, <2>2, <3>1, <4>1
      <4>3. Effect(k, q, s, c, r, d, e)
        BY <1>1, <3>1, <4>2 DEF BackInv, Underway
      <4>4. Effect(k, q, s, c, r, d, e)'
        BY <4>3, EffectStays
      <4> QED BY <3>1, <4>4
    <3>2. kernel' \notin {"forward", "done"} => grid' \subseteq GridOf(kernel)'
      <4>1. \A k : GridOf(k)' = GridOf(k)
        BY GridsStay
      <4> QED BY <1>1, <2>2, <4>1 DEF BackInv, Underway
    <3> QED BY <3>1, <3>2 DEF Underway
  <2> QED BY <2>1, <2>2
<1>3. Behind'
  <2>1. ASSUME NEW k, k = kernel', NEW s, s = DOMAIN Delta', NEW c, c = DOMAIN Encoded',
               NEW r, r = DOMAIN DQ', NEW d, d = DOMAIN DB', NEW e, e = DOMAIN DKV'
        PROVE  Behind'
    <3>1. Passed(k, s, c, r, d, e) /\ Standing(k)
      BY <1>1, <2>1 DEF BackInv, Behind
    <3>2. Passed(k, s, c, r, d, e)' /\ Standing(k)'
      BY <3>1, EffectStays
    <3> QED BY <2>1, <3>2 DEF Behind
  <2> QED BY <2>1
<1>4. ValuesRight'
  BY <1>1, ValuesKept DEF BackInv
<1>5. NumbersRight'
  BY <1>1, NumbersKept DEF BackInv
<1>6. DbOnce'
  <2>1. CASE kernel = "forward"
    BY <1>1, <2>1, GridsStay DEF BackInv, DbOnce
  <2>2. CASE grid' = grid
    BY <1>1, <2>2, DbOnceKept DEF BackInv
  <2> QED BY <2>1, <2>2
<1>7. Fresh'
  BY <1>1 DEF BackInv, Fresh
<1> QED BY <1>2, <1>3, <1>4, <1>5, <1>6, <1>7 DEF BackInv

LEMMA BackNext ==
  ASSUME Shape, Coverage, LRight, BackInv, [Next]_vars PROVE BackInv'
<1>1. WellFormed(launch) /\ kernel \in Kernels
  BY Constants DEF Shape
<1>2. ASSUME NEW c \in Slots, Forward(c) PROVE BackInv'
  <2>1. launch' = launch
    BY <1>2 DEF Forward, ForwardStep, Start, Loop, ZeroOut, ZeroL, WriteL, WriteOut, NextTile, Exit
  <2>2. kernel = "forward" /\ UNCHANGED backward
    BY <1>2 DEF Forward
  <2> QED BY <2>1, <2>2, BackWaits
<1>3. ASSUME NEW p \in grid, Backward(p) PROVE BackInv'
  <2>1. Underway' /\ Behind'
    BY <1>1, <1>3, UnderwayProgram DEF BackInv
  <2>2. ValuesRight' /\ NumbersRight' /\ DbOnce'
    BY <1>1, <1>3, ValuesProgram, NumbersProgram, DbOnceProgram DEF BackInv
  <2>3. Fresh'
    BY <1>3, BackwardLeaves DEF Fresh
  <2> QED BY <2>1, <2>2, <2>3 DEF BackInv
<1>4. CASE NextKernel
  <2>1. /\ launch' = launch /\ UNCHANGED <<Delta, DQ, DKV, DB, Encoded>>
        /\ kernel' # "forward"
    BY <1>1, <1>4 DEF NextKernel, Following, Kernels
  <2>2. Underway' /\ Behind' /\ DbOnce'
    BY <1>1, <1>4, BehindNextKernel, DbOnceNextKernel DEF BackInv
  <2>3. ValuesRight' /\ NumbersRight'
    BY <2>1, ValuesKept, NumbersKept DEF BackInv
  <2> QED BY <2>1, <2>2, <2>3 DEF BackInv, Fresh
<1>5. CASE UNCHANGED vars
  BY <1>5, BackWaits DEF vars, forward
<1> QED BY <1>2, <1>3, <1>4, <1>5 DEF Next, Idling

-----------------------------------------------------------------------------
(* The results of the backward pass.                                       *)

LEMMA WrittenAtEnd == ASSUME Shape, Coverage, BackInv PROVE EverythingWritten
<1>1. kernel # "forward" /\ ~StopsEarly => AllWritten
  BY DEF Coverage
<1>2. ASSUME kernel = "done" PROVE GradientsWritten
  <2>1. Passed(kernel, DOMAIN Delta, DOMAIN Encoded, DOMAIN DQ, DOMAIN DB, DOMAIN DKV)
    BY DEF BackInv, Behind
  <2>2. /\ launch.encoded => EncodeAll(DOMAIN Encoded)
        /\ Wanted("dk_dv") => DkvAll(DOMAIN DKV)
        /\ Wanted("dq") => DqAll(DOMAIN DQ) /\ (store_db => DbAll(DOMAIN DB))
    BY <1>2, <2>1 DEF Passed
  <2>3. store_db => \A a \in DOMAIN DB : DB[a] = 1
    BY DEF BackInv, DbOnce
  <2>4. "dq" \in launch.wanted =>
          /\ \A z \in Entries, h \in Heads : \A m \in Queries(z) : RowAddr(z, h, m) \in DOMAIN DQ
          /\ store_db => \A z \in Entries, h \in Heads : \A m \in Queries(z) : \A n \in Keys(z) :
               LET a == BiasAddr(z, h, m, n) IN a \in DOMAIN DB /\ DB[a] = 1
    BY <2>2, <2>3 DEF Wanted, DqAll, DbAll
  <2>5. "dk_dv" \in launch.wanted =>
          \A z \in Entries, hk \in 0..(launch.Hk - 1) : \A n \in Keys(z) :
            KeyAddr(z, hk, n) \in DOMAIN DKV
    BY <2>2 DEF Wanted, DkvAll
  <2>6. launch.encoded => \A z \in Entries, h \in Heads : \A m \in Queries(z) :
          \A n \in Keys(z) : <<z, h, m, n>> \in DOMAIN Encoded
    BY <2>2 DEF EncodeAll
  <2> QED BY <2>4, <2>5, <2>6 DEF GradientsWritten, RowsSatisfy
<1> QED BY <1>1, <1>2 DEF EverythingWritten

LEMMA DqOf ==
  ASSUME WellFormed(launch), ValuesRight, ForwardRight, NEW z \in Entries, NEW h \in Heads,
         NEW m \in Queries(z), RowAddr(z, h, m) \in DOMAIN DQ
  PROVE  DQ[RowAddr(z, h, m)] = ExactDq(z, h, m)
<1> DEFINE a == RowAddr(z, h, m)
<1>1. RightDq(a, DQ[a])
  BY DEF ValuesRight
<1>2. PICK y \in Entries, g \in Heads : \E k \in Queries(y) :
        a = RowAddr(y, g, k) /\ DQ[a] = ExactDq(y, g, k)
  BY <1>1 DEF RightDq
<1>3. PICK k \in Queries(y) : a = RowAddr(y, g, k) /\ DQ[a] = ExactDq(y, g, k)
  BY <1>2
<1>4. z = y /\ h = g /\ m = k
  BY <1>3, RowUnique
<1> QED BY <1>3, <1>4

LEMMA DkvOf ==
  ASSUME WellFormed(launch), ValuesRight, ForwardRight, NEW z \in Entries,
         NEW hk \in 0..(launch.Hk - 1), NEW n \in Keys(z), KeyAddr(z, hk, n) \in DOMAIN DKV
  PROVE  DKV[KeyAddr(z, hk, n)] = ExactDkv(z, hk, n)
<1> DEFINE a == KeyAddr(z, hk, n)
<1>1. RightDkv(a, DKV[a])
  BY DEF ValuesRight
<1>2. PICK y \in Entries, g \in 0..(launch.Hk - 1) : \E k \in Keys(y) :
        a = KeyAddr(y, g, k) /\ DKV[a] = ExactDkv(y, g, k)
  BY <1>1 DEF RightDkv
<1>3. PICK k \in Keys(y) : a = KeyAddr(y, g, k) /\ DKV[a] = ExactDkv(y, g, k)
  BY <1>2
<1>4. z = y /\ hk = g /\ n = k
  BY <1>3, KeyUnique
<1> QED BY <1>3, <1>4

LEMMA TermIsRight ==
  ASSUME NEW z, NEW h, NEW m, NEW n, NEW number
  PROVE  WithoutNumber(Term(z, Entry(h, m, n, number), Inputs(z, h, m))) = RightTerm(z, h, m, n)
  BY DEF WithoutNumber, Term, Entry, Inputs, RightTerm

LEMMA GradientsAreRight == ASSUME Shape, BackInv PROVE GradientsRight
<1>1. WellFormed(launch) /\ ValuesRight
  BY Constants DEF Shape, BackInv
<1>2. ASSUME ForwardRight, NEW z \in Entries, NEW h \in Heads, NEW m \in Queries(z),
             RowAddr(z, h, m) \in DOMAIN DQ
      PROVE  {WithoutNumber(t) : t \in DQ[RowAddr(z, h, m)]}
               = {RightTerm(z, h, m, n) : n \in Attended(z, m)}
  <2>1. DQ[RowAddr(z, h, m)] = ExactDq(z, h, m)
    BY <1>1, <1>2, DqOf
  <2> DEFINE T(n) == Term(z, Entry(h, m, n, Number(z, h, m, n)), Inputs(z, h, m))
  <2>2. \A n : WithoutNumber(T(n)) = RightTerm(z, h, m, n)
    BY TermIsRight
  <2>3. DQ[RowAddr(z, h, m)] = {T(n) : n \in Attended(z, m)}
    BY <2>1 DEF ExactDq
  <2> HIDE DEF T
  <2> QED BY <2>2, <2>3
<1>3. ASSUME ForwardRight, launch.backend = "fuse" => launch.do_like_out,
             NEW z \in Entries, NEW hk \in 0..(launch.Hk - 1), NEW n \in Keys(z),
             KeyAddr(z, hk, n) \in DOMAIN DKV
      PROVE  {WithoutNumber(t) : t \in DKV[KeyAddr(z, hk, n)]}
               = {RightTerm(z, x[1], x[2], n) :
                    x \in {x \in GroupOf(hk) \X Queries(z) : n \in Attended(z, x[2])}}
  <2>1. DKV[KeyAddr(z, hk, n)] = ExactDkv(z, hk, n)
    BY <1>1, <1>3, DkvOf
  <2> DEFINE T(x) == Term(z, Entry(x[1], x[2], n, Number(z, x[1], x[2], n)),
                          KeyInputs(z, x[1], x[2]))
  <2>2. \A x : WithoutNumber(T(x)) = RightTerm(z, x[1], x[2], n)
    BY <1>3, TermIsRight DEF KeyInputs
  <2>3. DKV[KeyAddr(z, hk, n)] = {T(x) : x \in AttendedBy(z, hk, n)}
    BY <2>1 DEF ExactDkv
  <2> HIDE DEF T
  <2>4. {WithoutNumber(t) : t \in DKV[KeyAddr(z, hk, n)]}
          = {RightTerm(z, x[1], x[2], n) : x \in AttendedBy(z, hk, n)}
    BY <2>2, <2>3
  <2> QED BY <2>4 DEF AttendedBy
<1>4. QueryGradientRight
  BY <1>2 DEF QueryGradientRight, RowsSatisfy
<1>5. KeyGradientRight
  BY <1>3 DEF KeyGradientRight
<1> QED BY <1>4, <1>5 DEF GradientsRight

LEMMA OutOf ==
  ASSUME WellFormed(launch), RowsRight, NoneEmpty, NEW z \in Entries, NEW h \in Heads,
         NEW m \in Queries(z), RowAddr(z, h, m) \in DOMAIN Out
  PROVE  Out[RowAddr(z, h, m)] = Exact(z, h, m)
<1> DEFINE a == RowAddr(z, h, m)
<1>1. RightRow(a, Out[a])
  BY DEF RowsRight
<1>2. PICK y \in Entries, g \in Heads : \E k \in Queries(y) :
        a = RowAddr(y, g, k) /\ (SeqlenK(y) > 0 => Out[a] = Exact(y, g, k))
  BY <1>1 DEF RightRow
<1>3. PICK k \in Queries(y) :
        a = RowAddr(y, g, k) /\ (SeqlenK(y) > 0 => Out[a] = Exact(y, g, k))
  BY <1>2
<1>4. z = y /\ h = g /\ m = k
  BY <1>3, RowUnique
<1> QED BY <1>3, <1>4 DEF NoneEmpty

(* A term of a gradient has its counterpart in the output. *)
LEMMA Counterpart ==
  ASSUME WellFormed(launch), RowsRight, NoneEmpty, AllWritten, NEW z \in Entries, NEW h \in Heads,
         NEW m \in Queries(z), NEW n \in Attended(z, m), NEW row,
         NEW t, t = Term(z, Entry(h, m, n, Number(z, h, m, n)), row)
  PROVE  \E f \in Out[t.row] : f.key = t.key /\ f.number = t.number
<1>1. t.row = RowAddr(z, h, m) /\ t.key = KeyAddr(z, h \div GroupSize, n)
      /\ t.number = Number(z, h, m, n)
  BY DEF Term, Entry, Operands
<1>2. Out[t.row] = Exact(z, h, m)
  <2>1. RowAddr(z, h, m) \in DOMAIN Out
    BY DEF AllWritten, RowsSatisfy
  <2> QED BY <1>1, <2>1, OutOf
<1> DEFINE f == Element(z, h, m, n)
<1>3. f \in Exact(z, h, m)
  BY DEF Exact
<1>4. f.key = KeyAddr(z, h \div GroupSize, n) /\ f.number = Number(z, h, m, n)
  BY DEF Element, Operands
<1> QED BY <1>1, <1>2, <1>3, <1>4

LEMMA DropoutIsReplayed ==
  ASSUME Shape, RowsRight, Coverage, BackInv PROVE DropoutReplayed
<1>1. WellFormed(launch) /\ ValuesRight /\ NumbersRight /\ Fresh
  BY Constants DEF Shape, BackInv
<1>2. ASSUME ForwardRight,
             NEW t \in UNION ({DQ[a] : a \in DOMAIN DQ} \cup {DKV[a] : a \in DOMAIN DKV})
      PROVE  \E f \in Out[t.row] : f.key = t.key /\ f.number = t.number
  <2>1. kernel # "forward"
    <3>1. ASSUME kernel = "forward" PROVE FALSE
      <4>1. DQ = <<>> /\ DKV = <<>>
        BY <1>1, <3>1 DEF Fresh
      <4>2. DOMAIN DQ = {} /\ DOMAIN DKV = {}
        BY <4>1
      <4> QED BY <1>2, <4>2
    <3> QED BY <3>1
  <2>2. AllWritten /\ NoneEmpty
    BY <1>2, <2>1 DEF Coverage, ForwardRight
  <2>3. ASSUME NEW a \in DOMAIN DQ, t \in DQ[a]
        PROVE  \E f \in Out[t.row] : f.key = t.key /\ f.number = t.number
    <3>1. RightDq(a, DQ[a])
      BY <1>1, <1>2, <2>3 DEF ValuesRight
    <3>2. PICK z \in Entries, h \in Heads : \E m \in Queries(z) : DQ[a] = ExactDq(z, h, m)
      BY <3>1 DEF RightDq
    <3>3. PICK m \in Queries(z) : DQ[a] = ExactDq(z, h, m)
      BY <3>2
    <3>4. PICK n \in Attended(z, m) :
            t = Term(z, Entry(h, m, n, Number(z, h, m, n)), Inputs(z, h, m))
      BY <2>3, <3>3 DEF ExactDq
    <3> QED BY <1>1, <2>2, <3>4, Counterpart
  <2>4. ASSUME NEW a \in DOMAIN DKV, t \in DKV[a]
        PROVE  \E f \in Out[t.row] : f.key = t.key /\ f.number = t.number
    <3>1. RightDkv(a, DKV[a])
      BY <1>1, <1>2, <2>4 DEF ValuesRight
    <3>2. PICK z \in Entries, hk \in 0..(launch.Hk - 1) : \E n \in Keys(z) :
            DKV[a] = ExactDkv(z, hk, n)
      BY <3>1 DEF RightDkv
    <3>3. PICK n \in Keys(z) : DKV[a] = ExactDkv(z, hk, n)
      BY <3>2
    <3>4. PICK x \in AttendedBy(z, hk, n) :
            t = Term(z, Entry(x[1], x[2], n, Number(z, x[1], x[2], n)), KeyInputs(z, x[1], x[2]))
      BY <2>4, <3>3 DEF ExactDkv
    <3>5. x[1] \in Heads /\ x[2] \in Queries(z) /\ n \in Attended(z, x[2])
      BY <3>4 DEF AttendedBy, GroupOf
    <3> QED BY <1>1, <2>2, <3>4, <3>5, Counterpart
  <2> QED BY <2>3, <2>4
<1>3. ASSUME NoneEmpty, NEW z \in Entries, NEW h \in Heads, NEW m \in Queries(z), NEW n \in Keys(z),
             RowAddr(z, h, m) \in DOMAIN Out, <<z, h, m, n>> \in DOMAIN Encoded,
             NEW f \in Out[RowAddr(z, h, m)], f.key = KeyAddr(z, h \div GroupSize, n)
      PROVE  f.number = Encoded[<<z, h, m, n>>]
  <2>1. Encoded[<<z, h, m, n>>] = Number(z, h, m, n)
    BY <1>1, <1>3 DEF NumbersRight, RightNumber
  <2>2. Out[RowAddr(z, h, m)] = Exact(z, h, m)
    BY <1>1, <1>3, OutOf
  <2>3. PICK l \in Attended(z, m) : f = Element(z, h, m, l)
    BY <1>3, <2>2 DEF Exact
  <2>4. f.key = KeyAddr(z, h \div GroupSize, l) /\ f.number = Number(z, h, m, l)
    BY <2>3 DEF Element, Operands
  <2>5. l \in Keys(z)
    BY DEF Attended
  <2>6. l = n
    BY <1>1, <1>3, <2>4, <2>5, KeyUnique
  <2> QED BY <2>1, <2>4, <2>6
<1> QED BY <1>2, <1>3 DEF DropoutReplayed, RowsSatisfy

AttnInv == Shape /\ RowsRight /\ LRight /\ Coverage /\ BackInv

LEMMA AttnInvAlways == Spec => []AttnInv
<1>1. Init => AttnInv
  BY RowsInit, LInit, CoverageInit, BackInit DEF AttnInv
<1>2. AttnInv /\ [Next]_vars => AttnInv'
  BY ShapeNext, RowsNext, LNext, CoverageNext, BackNext DEF AttnInv
<1> QED BY <1>1, <1>2, PTL DEF Spec

(* Every row of the output and of the logsumexp is stored when the forward *)
(* kernel has ended, unless a program of a persistent grid stopped early,  *)
(* and at the end every row of a wanted gradient, every element of the     *)
(* bias' gradient, once, and every number of the mask.                     *)
THEOREM EverythingWrittenAlways == Spec => []EverythingWritten
<1>1. AttnInv => EverythingWritten
  BY WrittenAtEnd DEF AttnInv
<1> QED BY <1>1, AttnInvAlways, PTL

(* The gradients of the queries, the keys and the values sum exactly the   *)
(* elements that were attended to, each once and with the L, the delta and *)
(* the gradient of the output of its own query, whichever kernels compute  *)
(* them, in whatever tiles and order.                                      *)
THEOREM GradientsRightAlways == Spec => []GradientsRight
<1>1. AttnInv => GradientsRight
  BY GradientsAreRight DEF AttnInv
<1> QED BY <1>1, AttnInvAlways, PTL

(* The backward kernels drop an element by the random number the forward   *)
(* kernel dropped it by, and the mask returned to the caller holds it.     *)
THEOREM DropoutReplayedAlways == Spec => []DropoutReplayed
<1>1. AttnInv => DropoutReplayed
  BY DropoutIsReplayed DEF AttnInv
<1> QED BY <1>1, AttnInvAlways, PTL
=============================================================================
