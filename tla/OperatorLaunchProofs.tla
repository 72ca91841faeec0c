------------------------ MODULE OperatorLaunchProofs ------------------------
(***************************************************************************)
(* Theorems of LookupTable and of OperatorLaunch, for any parameters and   *)
(* choices, architectures, databases and backends: a call finds the rows   *)
(* of its own functional, a checked table has no hole, a call runs one     *)
(* backend whole, and its buffers are acquired once.                       *)
(***************************************************************************)
EXTENDS OperatorLaunch, FiniteSetTheorems, WellFoundedInduction, TLAPS

-----------------------------------------------------------------------------
(* Least elements, in place of induction.                                  *)

LEMMA LeastNat ==
  ASSUME NEW S \in SUBSET Nat, S # {}
  PROVE  \E x \in S : \A y \in S : x <= y
<1> DEFINE R == {ss \in Nat \X Nat : ss[1] < ss[2]}
<1>1. OpToRel(<, Nat) = R
  BY Zenon DEF OpToRel
<1>2. IsWellFoundedOn(R, Nat)
  BY <1>1, NatLessThanWellFounded
<1>3. PICK x \in S : \A y \in S : ~ (<<y, x>> \in R)
  <2> HIDE DEF R
  <2> QED BY <1>2, WFMin
<1>4. \A y \in S : x <= y
  <2> SUFFICES ASSUME NEW y \in S, y < x PROVE FALSE
    OBVIOUS
  <2>1. <<y, x>> \in R
    OBVIOUS
  <2> QED BY <1>3, <2>1
<1> QED BY <1>4

(* A set that has 0 and each successor up to n has all numbers up to n.    *)
LEMMA UpTo ==
  ASSUME NEW n \in Nat, NEW S, 0 \in S,
         \A i \in 1..n : i - 1 \in S => i \in S
  PROVE  0..n \subseteq S
<1> SUFFICES ASSUME (0..n) \ S # {} PROVE FALSE
  OBVIOUS
<1>1. (0..n) \ S \in SUBSET Nat
  OBVIOUS
<1>2. PICK i \in (0..n) \ S : \A j \in (0..n) \ S : i <= j
  BY <1>1, LeastNat
<1>3. i \in 1..n /\ i - 1 \in 0..n
  BY <1>2
<1>4. i - 1 \in S
  BY <1>2, <1>3
<1> QED BY <1>2, <1>3, <1>4

(* The same downwards.                                                     *)
LEMMA DownFrom ==
  ASSUME NEW n \in Nat, NEW S, n \in S,
         \A i \in 1..n : i \in S => i - 1 \in S
  PROVE  0..n \subseteq S
<1> DEFINE T == {i \in 0..n : n - i \in S}
<1>1. 0 \in T
  OBVIOUS
<1>2. ASSUME NEW i \in 1..n, i - 1 \in T
      PROVE  i \in T
  <2>1. n - (i - 1) \in 1..n /\ n - (i - 1) \in S
    BY <1>2
  <2>2. n - (i - 1) - 1 \in S
    BY <2>1
  <2> QED BY <2>2
<1>3. 0..n \subseteq T
  <2> HIDE DEF T
  <2> QED BY <1>1, <1>2, UpTo
<1>4. ASSUME NEW i \in 0..n
      PROVE  i \in S
  <2>1. n - i \in T
    BY <1>3
  <2> QED BY <2>1
<1> QED BY <1>4

-----------------------------------------------------------------------------
(* Sums.                                                                   *)

SumsOf(n, f, s) == s = [i \in 0..n |-> IF i = 0 THEN 0 ELSE s[i - 1] + f[i]]

LEMMA SumsExist ==
  ASSUME NEW n \in Nat, NEW f
  PROVE  \E s : SumsOf(n, f, s)
<1> DEFINE S == {k \in Nat : \E s : SumsOf(k, f, s)}
<1>1. 0 \in S
  <2> DEFINE s == [i \in 0..0 |-> 0]
  <2>1. SumsOf(0, f, s)
    BY DEF SumsOf
  <2> QED BY <2>1
<1>2. ASSUME NEW k \in 1..n, k - 1 \in S
      PROVE  k \in S
  <2>1. PICK s : SumsOf(k - 1, f, s)
    BY <1>2
  <2> DEFINE t == [i \in 0..k |-> IF i = k THEN s[k - 1] + f[k] ELSE s[i]]
  <2>2. ASSUME NEW i \in 0..k
        PROVE  t[i] = IF i = 0 THEN 0 ELSE t[i - 1] + f[i]
    <3>1. CASE i = k
      <4>1. t[i] = s[k - 1] + f[k] /\ k - 1 \in 0..k /\ k - 1 # k /\ i # 0
        BY <3>1
      <4>2. t[i - 1] = s[k - 1]
        BY <3>1, <4>1
      <4> QED BY <3>1, <4>1, <4>2
    <3>2. CASE i # k
      <4>1. i \in 0..(k - 1)
        BY <3>2
      <4>2. s[i] = IF i = 0 THEN 0 ELSE s[i - 1] + f[i]
        BY <2>1, <4>1 DEF SumsOf
      <4>3. t[i] = s[i]
        BY <3>2
      <4>4. i # 0 => i - 1 \in 0..k /\ i - 1 # k
        BY <4>1
      <4>5. i # 0 => t[i - 1] = s[i - 1]
        BY <4>4
      <4> QED BY <4>2, <4>3, <4>5
    <3> QED BY <3>1, <3>2
  <2>3. DOMAIN t = 0..k
    OBVIOUS
  <2>4. t = [i \in 0..k |-> t[i]]
    OBVIOUS
  <2> HIDE DEF t
  <2>5. SumsOf(k, f, t)
    BY <2>2, <2>3, <2>4 DEF SumsOf
  <2> QED BY <2>5
<1>3. 0..n \subseteq S
  <2> HIDE DEF S
  <2> QED BY <1>1, <1>2, UpTo
<1> QED BY <1>3

LEMMA SumsAre ==
  ASSUME NEW n \in Nat, NEW f
  PROVE  /\ DOMAIN Sums(n, f) = 0..n
         /\ Sums(n, f)[0] = 0
         /\ \A i \in 1..n : Sums(n, f)[i] = Sums(n, f)[i - 1] + f[i]
<1> DEFINE s == Sums(n, f)
<1>1. s = CHOOSE x : SumsOf(n, f, x)
  BY DEF Sums, SumsOf
<1>2. SumsOf(n, f, s)
  <2> HIDE DEF s
  <2> QED BY <1>1, SumsExist
<1> HIDE DEF s
<1>3. s = [i \in 0..n |-> IF i = 0 THEN 0 ELSE s[i - 1] + f[i]]
  BY <1>2 DEF SumsOf
<1>4. DOMAIN s = 0..n
  BY <1>3
<1>5. \A i \in 0..n : s[i] = IF i = 0 THEN 0 ELSE s[i - 1] + f[i]
  BY <1>3
<1>6. s[0] = 0 /\ \A i \in 1..n : s[i] = s[i - 1] + f[i]
  BY <1>5
<1> QED BY <1>4, <1>6 DEF s

LEMMA SumsNat ==
  ASSUME NEW n \in Nat, NEW f, \A i \in 1..n : f[i] \in Nat
  PROVE  \A i \in 0..n : Sums(n, f)[i] \in Nat
<1> DEFINE S == {i \in 0..n : Sums(n, f)[i] \in Nat}
<1>1. 0 \in S
  BY SumsAre
<1>2. ASSUME NEW i \in 1..n, i - 1 \in S
      PROVE  i \in S
  <2>1. Sums(n, f)[i] = Sums(n, f)[i - 1] + f[i]
    BY SumsAre
  <2> QED BY <1>2, <2>1
<1>3. 0..n \subseteq S
  <2> HIDE DEF S
  <2> QED BY <1>1, <1>2, UpTo
<1> QED BY <1>3

(* Sums depend on the elements before them only.                           *)
LEMMA SumsAgree ==
  ASSUME NEW n \in Nat, NEW m \in Nat, NEW f, NEW g, NEW k \in 0..n, k <= m,
         \A i \in 1..k : f[i] = g[i]
  PROVE  Sums(n, f)[k] = Sums(m, g)[k]
<1> DEFINE S == {i \in 0..k : Sums(n, f)[i] = Sums(m, g)[i]}
<1>1. 0 \in S
  BY SumsAre
<1>2. ASSUME NEW i \in 1..k, i - 1 \in S
      PROVE  i \in S
  <2>1. i \in 1..n /\ i \in 1..m
    OBVIOUS
  <2>2. Sums(n, f)[i] = Sums(n, f)[i - 1] + f[i]
    BY <2>1, SumsAre
  <2>3. Sums(m, g)[i] = Sums(m, g)[i - 1] + g[i]
    BY <2>1, SumsAre
  <2> QED BY <1>2, <2>2, <2>3
<1>3. 0..k \subseteq S
  <2> HIDE DEF S
  <2> QED BY <1>1, <1>2, UpTo
<1> QED BY <1>3

(* Sums of positive numbers increase.                                      *)
LEMMA SumsIncrease ==
  ASSUME NEW n \in Nat, NEW f, \A i \in 1..n : f[i] \in Nat \ {0},
         NEW j \in 0..n, NEW i \in 0..n, j < i
  PROVE  Sums(n, f)[j] < Sums(n, f)[i]
<1> DEFINE S == {k \in 0..n : k > j => Sums(n, f)[j] < Sums(n, f)[k]}
<1>1. 0 \in S
  OBVIOUS
<1>2. ASSUME NEW k \in 1..n, k - 1 \in S
      PROVE  k \in S
  <2>1. Sums(n, f)[k] = Sums(n, f)[k - 1] + f[k]
    BY SumsAre
  <2>2. /\ Sums(n, f)[k] \in Nat /\ Sums(n, f)[k - 1] \in Nat /\ Sums(n, f)[j] \in Nat
        /\ f[k] \in Nat \ {0}
    BY SumsNat
  <2>3. Sums(n, f)[k - 1] < Sums(n, f)[k]
    BY <2>1, <2>2
  <2>4. k > j => k - 1 = j \/ k - 1 > j
    OBVIOUS
  <2> QED BY <1>2, <2>2, <2>3, <2>4
<1>3. 0..n \subseteq S
  <2> HIDE DEF S
  <2> QED BY <1>1, <1>2, UpTo
<1> QED BY <1>3

-----------------------------------------------------------------------------
(* Strides.                                                                *)

Number == Len(ParamChoices)

LEMMA ParamsAre ==
  /\ Number \in Nat \ {0} /\ Params = 1..Number
  /\ \A i \in Params : nchoices[i] \in Nat \ {0} /\ DOMAIN ParamChoices[i] = 1..nchoices[i]
<1>1. Number \in Nat \ {0} /\ Params = 1..Number
  BY LookupTableAssumption DEF Params, Number
<1>2. ASSUME NEW i \in Params
      PROVE  nchoices[i] \in Nat \ {0} /\ DOMAIN ParamChoices[i] = 1..nchoices[i]
  <2>1. ParamChoices[i] \in Range(ParamChoices)
    BY DEF Range, Params
  <2> QED BY <2>1, LookupTableAssumption DEF nchoices
<1> QED BY <1>1, <1>2

StrideFrom(k, s) ==
  s = [i \in k..Number |-> IF i = Number THEN 1 ELSE nchoices[i + 1] * s[i + 1]]

LEMMA StridesExist == \A k \in Params : \E s : StrideFrom(k, s)
<1> DEFINE S == {k \in Nat : \E s : StrideFrom(k, s)}
<1>1. Number \in S
  <2> DEFINE s == [i \in Number..Number |-> 1]
  <2>1. StrideFrom(Number, s)
    BY ParamsAre DEF StrideFrom
  <2> QED BY <2>1, ParamsAre
<1>2. ASSUME NEW j \in 1..Number, j \in S
      PROVE  j - 1 \in S
  <2> DEFINE k == j - 1
  <2>1. PICK s : StrideFrom(j, s)
    BY <1>2
  <2>2. k \in Nat /\ j = k + 1 /\ k < Number
    BY ParamsAre
  <2> DEFINE t == [i \in k..Number |-> IF i = k THEN nchoices[j] * s[j] ELSE s[i]]
  <2>3. ASSUME NEW i \in k..Number
        PROVE  t[i] = IF i = Number THEN 1 ELSE nchoices[i + 1] * t[i + 1]
    <3>1. CASE i = k
      <4>1. t[i] = nchoices[j] * s[j] /\ i # Number /\ i + 1 = j
        BY <2>2, <3>1
      <4>2. j \in k..Number /\ j # k
        BY <2>2, ParamsAre
      <4>3. t[j] = s[j]
        BY <4>2
      <4> QED BY <4>1, <4>3
    <3>2. CASE i # k
      <4>1. i \in j..Number
        BY <2>2, <3>2
      <4>2. s[i] = IF i = Number THEN 1 ELSE nchoices[i + 1] * s[i + 1]
        BY <2>1, <4>1 DEF StrideFrom
      <4>3. t[i] = s[i]
        BY <3>2
      <4>4. i # Number => i + 1 \in k..Number /\ i + 1 # k
        BY <2>2, <4>1, ParamsAre
      <4>5. i # Number => t[i + 1] = s[i + 1]
        BY <4>4
      <4> QED BY <4>2, <4>3, <4>5
    <3> QED BY <3>1, <3>2
  <2>4. t = [i \in k..Number |-> t[i]]
    OBVIOUS
  <2> HIDE DEF t, k
  <2>5. StrideFrom(k, t)
    BY <2>3, <2>4, Zenon DEF StrideFrom
  <2> QED BY <2>2, <2>5 DEF k
<1>3. 0..Number \subseteq S
  <2> HIDE DEF S
  <2> QED BY <1>1, <1>2, DownFrom, ParamsAre
<1> QED BY <1>3, ParamsAre

LEMMA StrideIs ==
  /\ Stride[Number] = 1
  /\ \A i \in Params : i # Number => Stride[i] = nchoices[i + 1] * Stride[i + 1]
<1>1. Stride = CHOOSE s : StrideFrom(1, s)
  BY ParamsAre DEF Stride, StrideFrom, Number
<1>2. StrideFrom(1, Stride)
  BY <1>1, StridesExist, ParamsAre
<1>3. Stride = [i \in 1..Number |-> IF i = Number THEN 1 ELSE nchoices[i + 1] * Stride[i + 1]]
  BY <1>2 DEF StrideFrom
<1>4. \A i \in 1..Number : Stride[i] = IF i = Number THEN 1 ELSE nchoices[i + 1] * Stride[i + 1]
  BY <1>3
<1> QED BY <1>4, ParamsAre

LEMMA PositiveProduct ==
  ASSUME NEW a \in Nat \ {0}, NEW b \in Nat \ {0}
  PROVE  a * b \in Nat \ {0}
  OBVIOUS

LEMMA StridePositive == \A i \in Params : Stride[i] \in Nat \ {0}
<1> DEFINE S == {i \in Nat : i = 0 \/ Stride[i] \in Nat \ {0}}
<1>1. Number \in S
  BY ParamsAre, StrideIs
<1>2. ASSUME NEW j \in 1..Number, j \in S
      PROVE  j - 1 \in S
  <2>1. j - 1 \in Nat
    BY ParamsAre
  <2>2. CASE j = 1
    BY <2>2
  <2>3. CASE j # 1
    <3>1. j - 1 \in Params /\ j - 1 # Number /\ (j - 1) + 1 = j /\ j \in Params /\ j # 0
      BY <2>3, ParamsAre
    <3>2. Stride[j - 1] = nchoices[j] * Stride[j]
      BY <3>1, StrideIs
    <3>3. nchoices[j] \in Nat \ {0} /\ Stride[j] \in Nat \ {0}
      BY <1>2, <3>1, ParamsAre
    <3> QED BY <2>1, <3>2, <3>3, PositiveProduct
  <2> QED BY <2>2, <2>3
<1>3. 0..Number \subseteq S
  <2> HIDE DEF S
  <2> QED BY <1>1, <1>2, DownFrom, ParamsAre
<1>4. \A i \in Params : i \in 0..Number /\ i # 0
  BY ParamsAre
<1> QED BY <1>3, <1>4

-----------------------------------------------------------------------------
(* Goedel numbers.                                                         *)

Terms(nths) == [i \in Params |-> nths[i] * Stride[i]]
Partially(nths) == Sums(Number, Terms(nths))

LEMMA NthsAre ==
  ASSUME NEW n \in Nths
  PROVE  /\ DOMAIN n = Params
         /\ \A i \in Params : n[i] \in 0..(nchoices[i] - 1)
<1>1. n \in [Params -> UNION {0..(nchoices[i] - 1) : i \in Params}]
      /\ \A i \in Params : n[i] < nchoices[i]
  BY DEF Nths
<1>2. ASSUME NEW i \in Params
      PROVE  n[i] \in 0..(nchoices[i] - 1)
  <2>1. n[i] \in UNION {0..(nchoices[j] - 1) : j \in Params}
    BY <1>1
  <2>2. n[i] \in Nat
    BY <2>1
  <2>3. n[i] < nchoices[i] /\ nchoices[i] \in Nat \ {0}
    BY <1>1, ParamsAre
  <2> QED BY ONLY <2>2, <2>3
<1> QED BY <1>1, <1>2

LEMMA TermsAre ==
  ASSUME NEW n \in Nths, NEW i \in Params
  PROVE  /\ Terms(n)[i] \in Nat
         /\ Terms(n)[i] <= nchoices[i] * Stride[i] - Stride[i]
<1>1. n[i] \in Nat /\ n[i] <= nchoices[i] - 1 /\ Stride[i] \in Nat \ {0} /\ nchoices[i] \in Nat \ {0}
  BY NthsAre, ParamsAre, StridePositive
<1>2. Terms(n)[i] = n[i] * Stride[i]
  BY DEF Terms
<1>3. ASSUME NEW a \in Nat, NEW c \in Nat \ {0}, NEW s \in Nat \ {0}, a <= c - 1
      PROVE  a * s \in Nat /\ a * s <= c * s - s
  <2>1. PICK d \in Nat : c - 1 = a + d
    <3>1. c - 1 - a \in Nat /\ c - 1 = a + (c - 1 - a)
      BY <1>3
    <3> QED BY <3>1
  <2>2. c * s - s = a * s + d * s
    BY <2>1
  <2>3. a * s \in Nat /\ d * s \in Nat
    OBVIOUS
  <2> QED BY <2>2, <2>3
<1> QED BY <1>1, <1>2, <1>3

LEMMA PartiallyNat ==
  ASSUME NEW n \in Nths
  PROVE  \A i \in 0..Number : Partially(n)[i] \in Nat
  BY TermsAre, ParamsAre, SumsNat DEF Partially

(* What comes behind a parameter amounts to less than its stride.          *)
LEMMA TailBound ==
  ASSUME NEW n \in Nths, NEW i \in Params, NEW j \in i..Number
  PROVE  /\ Partially(n)[i] <= Partially(n)[j]
         /\ Partially(n)[j] <= Partially(n)[i] + Stride[i] - Stride[j]
<1> DEFINE G == Partially(n)
           S == {k \in 0..Number : k >= i => G[i] <= G[k] /\ G[k] <= G[i] + Stride[i] - Stride[k]}
<1>0. i \in Nat \ {0}
  BY ParamsAre
<1>1. 0 \in S
  BY <1>0, ParamsAre
<1>2. ASSUME NEW k \in 1..Number, k - 1 \in S
      PROVE  k \in S
  <2>1. /\ G[k] \in Nat /\ G[k - 1] \in Nat /\ G[i] \in Nat
        /\ Stride[i] \in Nat /\ Stride[k] \in Nat /\ k \in Params
    BY PartiallyNat, StridePositive, ParamsAre
  <2>2. CASE k <= i
    BY <2>1, <2>2, <1>0, ParamsAre
  <2>3. CASE k > i
    <3>1. k - 1 \in Params /\ k - 1 # Number /\ (k - 1) + 1 = k /\ k - 1 >= i
      BY <1>0, <2>3, ParamsAre
    <3>2. Stride[k - 1] = nchoices[k] * Stride[k] /\ Stride[k - 1] \in Nat
      BY <3>1, StrideIs, StridePositive
    <3>3. G[k] = G[k - 1] + Terms(n)[k]
      BY SumsAre, ParamsAre DEF Partially
    <3>4. Terms(n)[k] \in Nat /\ Terms(n)[k] <= Stride[k - 1] - Stride[k]
      BY <2>1, <3>2, TermsAre
    <3>5. G[i] <= G[k - 1] /\ G[k - 1] <= G[i] + Stride[i] - Stride[k - 1]
      BY <1>2, <3>1
    <3> HIDE DEF G
    <3> QED BY <2>1, <3>2, <3>3, <3>4, <3>5
  <2> QED BY <2>2, <2>3, <1>0
<1>3. 0..Number \subseteq S
  <2> HIDE DEF S
  <2> QED BY <1>1, <1>2, UpTo, ParamsAre
<1>4. j \in 0..Number /\ j >= i
  BY <1>0
<1> QED BY <1>3, <1>4

LEMMA GodelIs ==
  ASSUME NEW n
  PROVE  GodelNumber(n) = Partially(n)[Number]
  BY DEF GodelNumber, Partially, Terms, Number

(* Every functional has a place in the table.                              *)
LEMMA GodelInRange ==
  ASSUME NEW n \in Nths
  PROVE  GodelNumber(n) \in Slots
<1>1. 1 \in Params /\ Number \in 1..Number /\ Number \in Params /\ Number \in 0..Number
  BY ParamsAre
<1>2. Partially(n)[Number] <= Partially(n)[1] + Stride[1] - 1
  BY <1>1, TailBound, StrideIs
<1>3. Partially(n)[1] = Terms(n)[1]
  <2>1. Partially(n)[1] = Partially(n)[1 - 1] + Terms(n)[1] /\ Partially(n)[0] = 0
    BY <1>1, SumsAre, ParamsAre DEF Partially
  <2>2. Terms(n)[1] \in Nat
    BY <1>1, TermsAre
  <2> QED BY <2>1, <2>2
<1>4. Terms(n)[1] <= nchoices[1] * Stride[1] - Stride[1]
  BY <1>1, TermsAre
<1>5. /\ Partially(n)[Number] \in Nat /\ Terms(n)[1] \in Nat
      /\ nchoices[1] \in Nat /\ Stride[1] \in Nat
  BY <1>1, TermsAre, PartiallyNat, StridePositive, ParamsAre
<1>6. nchoices[1] * Stride[1] = Stride[1] * nchoices[1] /\ Stride[1] * nchoices[1] \in Nat
  BY <1>5
<1> DEFINE p == Stride[1] * nchoices[1]
<1>7. Partially(n)[Number] <= p - 1
  <2>1. /\ Terms(n)[1] <= p - Stride[1] /\ p \in Nat
        /\ Partially(n)[Number] <= Terms(n)[1] + Stride[1] - 1
    BY <1>2, <1>3, <1>4, <1>6
  <2> HIDE DEF p
  <2> QED BY <1>5, <2>1
<1>8. Partially(n)[Number] \in 0..(p - 1)
  <2> HIDE DEF p
  <2>1. p \in Nat
    BY <1>6 DEF p
  <2> QED BY <1>5, <1>7, <2>1
<1> QED BY <1>8, GodelIs DEF Slots

(* And different ones have different places.                               *)
LEMMA GodelDiffers ==
  ASSUME NEW n \in Nths, NEW m \in Nths, n # m
  PROVE  GodelNumber(n) # GodelNumber(m)
<1>1. \E i \in Params : n[i] # m[i]
  <2>1. n \in [Params -> UNION {0..(nchoices[i] - 1) : i \in Params}]
        /\ m \in [Params -> UNION {0..(nchoices[i] - 1) : i \in Params}]
    BY DEF Nths
  <2> QED BY <2>1
<1>2. {i \in Params : n[i] # m[i]} \in SUBSET Nat
  BY ParamsAre
<1>3. PICK i \in Params : n[i] # m[i] /\ \A j \in Params : n[j] # m[j] => i <= j
  BY <1>1, <1>2, LeastNat
<1>4. i - 1 \in 0..Number /\ i \in 1..Number /\ Number \in i..Number /\ Number \in 0..Number
  BY ParamsAre
<1>5. Partially(n)[i - 1] = Partially(m)[i - 1]
  <2>1. \A j \in 1..(i - 1) : Terms(n)[j] = Terms(m)[j]
    <3> SUFFICES ASSUME NEW j \in 1..(i - 1)
                 PROVE  Terms(n)[j] = Terms(m)[j]
      OBVIOUS
    <3>1. j \in Params /\ ~(i <= j)
      BY ParamsAre
    <3> QED BY <1>3, <3>1 DEF Terms
  <2>2. i - 1 \in 0..Number /\ Number \in Nat /\ i - 1 <= Number
    BY <1>4, ParamsAre
  <2>3. \A j \in 0..(i - 1) : Sums(Number, Terms(n))[j] = Sums(Number, Terms(m))[j]
    <3> DEFINE k == i - 1
               f == Terms(n)
               g == Terms(m)
    <3>1. k \in 0..Number /\ k <= Number /\ \A j \in 1..k : f[j] = g[j]
      BY <2>1, <2>2
    <3> HIDE DEF k, f, g
    <3>2. \A j \in 0..k : Sums(Number, f)[j] = Sums(Number, g)[j]
      <4> DEFINE N == Number
      <4>1. N \in Nat /\ k \in 0..N /\ k <= N
        BY <2>2, <3>1
      <4> HIDE DEF N
      <4>2. ASSUME NEW j \in 0..k
            PROVE  Sums(N, f)[j] = Sums(N, g)[j]
        <5>1. j \in 0..N /\ j <= N /\ \A l \in 1..j : f[l] = g[l]
          BY <3>1, <4>1
        <5> QED BY <4>1, <5>1, SumsAgree
      <4> QED BY <4>2 DEF N
    <3> QED BY <3>2 DEF k, f, g
  <2>4. \A j \in 0..(i - 1) : Partially(n)[j] = Partially(m)[j]
    BY <2>3 DEF Partially
  <2> QED BY <1>4, <2>4
(* The one with the smaller choice has the smaller number.                 *)
<1>6. ASSUME NEW u \in Nths, NEW v \in Nths, u[i] < v[i],
             Partially(u)[i - 1] = Partially(v)[i - 1]
      PROVE  GodelNumber(u) < GodelNumber(v)
  <2>1. /\ Partially(u)[i] = Partially(u)[i - 1] + u[i] * Stride[i]
        /\ Partially(v)[i] = Partially(v)[i - 1] + v[i] * Stride[i]
    <3>1. Terms(u)[i] = u[i] * Stride[i] /\ Terms(v)[i] = v[i] * Stride[i]
      BY DEF Terms
    <3>2. Number \in Nat /\ i \in 1..Number
      BY <1>4, ParamsAre
    <3>3. /\ Partially(u)[i] = Partially(u)[i - 1] + Terms(u)[i]
          /\ Partially(v)[i] = Partially(v)[i - 1] + Terms(v)[i]
      BY <3>2, SumsAre DEF Partially
    <3> QED BY <3>1, <3>3
  <2>2. /\ u[i] \in Nat /\ v[i] \in Nat /\ Stride[i] \in Nat \ {0}
        /\ Partially(u)[i - 1] \in Nat
        /\ Partially(u)[Number] \in Nat /\ Partially(v)[Number] \in Nat
        /\ Partially(u)[i] \in Nat /\ Partially(v)[i] \in Nat
    BY <1>4, NthsAre, StridePositive, PartiallyNat, ParamsAre
  <2>3. v[i] * Stride[i] >= u[i] * Stride[i] + Stride[i]
    <3>1. ASSUME NEW a \in Nat, NEW b \in Nat, NEW s \in Nat, a < b
          PROVE  b * s >= a * s + s
      <4>1. PICK d \in Nat : b = a + 1 + d
        <5>1. b - a - 1 \in Nat /\ b = a + 1 + (b - a - 1)
          BY <3>1
        <5> QED BY <5>1
      <4>2. b * s = a * s + s + d * s
        BY <4>1
      <4>3. d * s \in Nat /\ a * s \in Nat
        OBVIOUS
      <4> QED BY <4>2, <4>3
    <3> QED BY <1>6, <2>2, <3>1
  <2>4. Partially(v)[i] >= Partially(u)[i] + Stride[i]
    <3> DEFINE x == u[i] * Stride[i]
               y == v[i] * Stride[i]
    <3>1. x \in Nat /\ y \in Nat /\ y >= x + Stride[i]
      BY <2>2, <2>3
    <3>2. Partially(u)[i] = Partially(u)[i - 1] + x /\ Partially(v)[i] = Partially(u)[i - 1] + y
      BY <1>6, <2>1
    <3> HIDE DEF x, y
    <3> QED BY <2>2, <3>1, <3>2
  <2>5. /\ Partially(u)[Number] <= Partially(u)[i] + Stride[i] - 1
        /\ Partially(v)[i] <= Partially(v)[Number]
    BY <1>4, TailBound, StrideIs
  <2> QED BY <2>2, <2>4, <2>5, GodelIs
<1>7. n[i] < m[i] \/ m[i] < n[i]
  <2>1. n[i] \in Nat /\ m[i] \in Nat
    BY NthsAre, ParamsAre
  <2> QED BY <1>3, <2>1
<1>8. GodelNumber(n) \in Nat /\ GodelNumber(m) \in Nat
  BY <1>4, PartiallyNat, GodelIs
<1> QED BY <1>5, <1>6, <1>7, <1>8

-----------------------------------------------------------------------------
(* Finite sets of numbers, in a sequence.                                  *)

Below(S, x) == {y \in S : y < x}

LEMMA RankIs ==
  ASSUME NEW S \in SUBSET Int, IsFiniteSet(S), NEW x \in S
  PROVE  /\ Cardinality(Below(S, x)) \in Nat
         /\ Cardinality(Below(S, x)) < Cardinality(S)
         /\ \A y \in S : y < x => Cardinality(Below(S, y)) < Cardinality(Below(S, x))
<1>1. \A T \in SUBSET S : IsFiniteSet(T) /\ Cardinality(T) \in Nat
  BY FS_Subset, FS_CardinalityType
<1>2. ASSUME NEW T \in SUBSET S, NEW R \in SUBSET T, R # T
      PROVE  Cardinality(R) < Cardinality(T)
  <2>1. IsFiniteSet(T) /\ R \in SUBSET S
    BY <1>1
  <2>2. Cardinality(R) <= Cardinality(T) /\ Cardinality(R) # Cardinality(T)
    BY <1>2, <2>1, FS_Subset
  <2> QED BY <1>1, <2>1, <2>2
<1>3. Below(S, x) \in SUBSET S /\ x \notin Below(S, x)
  BY DEF Below
<1>4. ASSUME NEW y \in S, y < x
      PROVE  Below(S, y) \in SUBSET Below(S, x) /\ Below(S, y) # Below(S, x)
  <2>1. y \in Below(S, x) /\ y \notin Below(S, y)
    BY <1>4 DEF Below
  <2>2. \A z \in S : z < y => z < x
    BY <1>4
  <2>3. Below(S, y) \in SUBSET Below(S, x)
    BY <2>2 DEF Below
  <2> QED BY <2>1, <2>3
<1>5. S \in SUBSET S /\ Below(S, x) # S
  BY <1>3
<1> QED BY <1>1, <1>2, <1>3, <1>4, <1>5

LEMMA FiniteMin ==
  ASSUME NEW S \in SUBSET Int, IsFiniteSet(S), S # {}
  PROVE  Min(S) \in S /\ \A y \in S : Min(S) <= y
<1> DEFINE R == {k \in Nat : \E x \in S : k = Cardinality(Below(S, x))}
<1>1. R # {}
  BY RankIs
<1>2. PICK k \in R : \A j \in R : k <= j
  <2>1. R \in SUBSET Nat
    OBVIOUS
  <2> HIDE DEF R
  <2> QED BY <1>1, <2>1, LeastNat
<1>3. PICK x \in S : k = Cardinality(Below(S, x))
  OBVIOUS
<1>4. ASSUME NEW y \in S
      PROVE  x <= y
  <2>1. Cardinality(Below(S, y)) \in R
    BY RankIs
  <2>2. k <= Cardinality(Below(S, y)) /\ Cardinality(Below(S, y)) \in Nat
    BY <1>2, <2>1
  <2>3. ~(y < x)
    BY <1>3, <2>2, RankIs
  <2> QED BY <2>3
<1>5. \E z \in S : \A y \in S : z =< y
  BY <1>4
<1> QED BY <1>5 DEF Min

LEMMA FiniteMax ==
  ASSUME NEW S \in SUBSET Int, IsFiniteSet(S), S # {}
  PROVE  Max(S) \in S /\ \A y \in S : Max(S) >= y
<1> DEFINE Rank(x) == Cardinality(S) - Cardinality(Below(S, x))
           R == {k \in Nat : \E x \in S : k = Rank(x)}
<1>0. Cardinality(S) \in Nat
  BY FS_CardinalityType
<1>1. \A x \in S : Rank(x) \in R
  BY <1>0, RankIs
<1>2. PICK k \in R : \A j \in R : k <= j
  <2>1. R \in SUBSET Nat /\ R # {}
    BY <1>1
  <2> HIDE DEF R
  <2> QED BY <2>1, LeastNat
<1>3. PICK x \in S : k = Rank(x)
  OBVIOUS
<1>4. ASSUME NEW y \in S
      PROVE  x >= y
  <2>1. k <= Rank(y)
    BY <1>1, <1>2
  <2>2. /\ Cardinality(Below(S, y)) \in Nat /\ Cardinality(Below(S, x)) \in Nat
        /\ x < y => Cardinality(Below(S, x)) < Cardinality(Below(S, y))
    BY RankIs
  <2>3. ~(x < y)
    BY <1>0, <1>3, <2>1, <2>2
  <2> QED BY <2>3
<1>5. \E z \in S : \A y \in S : z >= y
  BY <1>4
<1> QED BY <1>5 DEF Max

(* An injection between sets of one size reaches everything.               *)
OneToOne(f, S, T) == f \in [S -> T] /\ \A x, y \in S : f[x] = f[y] => x = y

Onto(f, S, T)     == \A t \in T : \E x \in S : f[x] = t

LEMMA InjectionIsOnto ==
  ASSUME NEW S, NEW T, NEW f, OneToOne(f, S, T),
         IsFiniteSet(S), IsFiniteSet(T), Cardinality(S) = Cardinality(T)
  PROVE  Onto(f, S, T)
<1>1. f \in [S -> T] /\ DOMAIN f = S
  BY DEF OneToOne
<1>2. f \in Injection(S, T)
  BY <1>1 DEF Injection, IsInjective, OneToOne
<1>3. f \in Surjection(S, T)
  BY <1>2, FS_Injection
<1> QED BY <1>1, <1>3 DEF Surjection, Onto

LEMMA NumberedOnto ==
  ASSUME NEW n \in Nat, NEW T, NEW f, OneToOne(f, 1..n, T), IsFiniteSet(T), Cardinality(T) = n
  PROVE  \A t \in T : \E i \in 1..n : f[i] = t
<1> DEFINE D == 1..n
<1>1. IsFiniteSet(D) /\ Cardinality(D) = Cardinality(T)
  BY FS_Interval
<1>2. OneToOne(f, D, T)
  OBVIOUS
<1> HIDE DEF D
<1>3. \A t \in T : \E i \in D : f[i] = t
  BY <1>1, <1>2, InjectionIsOnto DEF Onto
<1> QED BY <1>3 DEF D

LEMMA ImageIsFinite ==
  ASSUME NEW S, IsFiniteSet(S), NEW T, NEW f \in [S -> T], \A t \in T : \E x \in S : f[x] = t
  PROVE  IsFiniteSet(T)
<1>1. f \in Surjection(S, T)
  BY DEF Surjection
<1> QED BY <1>1, FS_Surjection

(* SetToSeq gives every element once.                                      *)
LEMMA SetToSeqIs ==
  ASSUME NEW S, IsFiniteSet(S)
  PROVE  /\ Cardinality(S) \in Nat
         /\ SetToSeq(S) \in [1..Cardinality(S) -> S]
         /\ \A x \in S : \E i \in 1..Cardinality(S) : SetToSeq(S)[i] = x
         /\ Len(SetToSeq(S)) = Cardinality(S)
<1> DEFINE n == Cardinality(S)
           q == SetToSeq(S)
<1>1. n \in Nat /\ ExistsBijection(1..n, S)
  BY FS_CardinalityType
<1>2. \E f \in [1..n -> S] : IsInjective(f)
  BY <1>1 DEF ExistsBijection, Bijection, Injection
<1>3. q \in [1..n -> S] /\ IsInjective(q)
  BY <1>2 DEF SetToSeq
<1> HIDE DEF q, n
<1>4. \A x, y \in 1..n : q[x] = q[y] => x = y
  <2>1. DOMAIN q = 1..n
    BY <1>3
  <2> QED BY <1>3, <2>1 DEF IsInjective
<1>5. Cardinality(S) = n
  BY DEF n
<1>6. \A x \in S : \E i \in 1..n : q[i] = x
  <2>1. OneToOne(q, 1..n, S)
    BY <1>3, <1>4 DEF OneToOne
  <2> QED BY <1>1, <1>5, <2>1, NumberedOnto
<1>7. Len(q) = n
  <2>1. q \in Seq(S) /\ DOMAIN q = 1..n
    BY <1>1, <1>3
  <2> QED BY <1>1, <2>1
<1> QED BY <1>1, <1>3, <1>6, <1>7 DEF n, q

(* The bins of some lengths are these, increasing.                         *)
LEMMA BinsAre ==
  ASSUME NEW S \in SUBSET Int, IsFiniteSet(S), NEW n, n = Cardinality(S)
  PROVE  /\ n \in Nat
         /\ Bins(S) \in [1..n -> S]
         /\ \A i, j \in 1..n : i < j => Bins(S)[i] < Bins(S)[j]
         /\ \A x \in S : \E i \in 1..n : Bins(S)[i] = x
         /\ Len(Bins(S)) = n
<1>1. n \in Nat
  BY FS_CardinalityType
<1> DEFINE rank == [x \in S |-> Cardinality(Below(S, x)) + 1]
<1>2. rank \in [S -> 1..n]
  <2> SUFFICES ASSUME NEW x \in S
               PROVE  Cardinality(Below(S, x)) + 1 \in 1..n
    OBVIOUS
  <2> QED BY <1>1, RankIs
<1>3. \A x, y \in S : y < x => rank[y] < rank[x]
  <2> SUFFICES ASSUME NEW x \in S, NEW y \in S, y < x
               PROVE  Cardinality(Below(S, y)) + 1 < Cardinality(Below(S, x)) + 1
    OBVIOUS
  <2> QED BY RankIs
<1> HIDE DEF rank
<1>4. \A x \in S : rank[x] \in 1..n
  BY <1>2
<1>5. \A x, y \in S : rank[x] = rank[y] => x = y
  <2> SUFFICES ASSUME NEW x \in S, NEW y \in S, rank[x] = rank[y], x # y
               PROVE  FALSE
    OBVIOUS
  <2>1. x < y \/ y < x
    OBVIOUS
  <2>2. rank[x] < rank[y] \/ rank[y] < rank[x]
    BY <1>3, <2>1
  <2>3. rank[x] \in Int
    BY <1>4
  <2> QED BY <2>2, <2>3
<1>6. \A k \in 1..n : \E x \in S : rank[x] = k
  <2> DEFINE D == 1..n
  <2>1. IsFiniteSet(D) /\ Cardinality(S) = Cardinality(D)
    BY <1>1, FS_Interval
  <2>2. OneToOne(rank, S, D)
    BY <1>2, <1>5 DEF OneToOne
  <2> HIDE DEF D
  <2>3. Onto(rank, S, D)
    BY <2>1, <2>2, InjectionIsOnto
  <2> QED BY <2>3 DEF D, Onto
<1> DEFINE b == [k \in 1..n |-> CHOOSE x \in S : rank[x] = k]
           Increasing(c) == \A i, j \in DOMAIN c : i < j => c[i] < c[j]
<1>7. \A k \in 1..n : b[k] \in S /\ rank[b[k]] = k
  BY <1>6
<1>8. b \in [1..n -> S] /\ DOMAIN b = 1..n
  BY <1>7
<1> HIDE DEF b
<1>9. Increasing(b)
  <2> SUFFICES ASSUME NEW i \in 1..n, NEW j \in 1..n, i < j, ~(b[i] < b[j])
               PROVE  FALSE
    BY <1>8
  <2>1. b[i] \in S /\ b[j] \in S /\ rank[b[i]] = i /\ rank[b[j]] = j
    BY <1>7
  <2>2. b[j] < b[i] \/ b[j] = b[i]
    <3>1. b[i] \in Int /\ b[j] \in Int
      BY <2>1
    <3> QED BY <3>1
  <2>3. j < i \/ j = i
    BY <1>3, <2>1, <2>2
  <2> QED BY <2>3
<1> DEFINE c == Bins(S)
<1>10. c \in [1..n -> S] /\ Increasing(c)
  BY <1>8, <1>9 DEF Bins
<1> HIDE DEF c
<1>11. \A i, j \in 1..n : i < j => c[i] < c[j]
  <2>1. DOMAIN c = 1..n
    BY <1>10
  <2> QED BY <1>10, <2>1
<1> HIDE DEF Increasing
<1>12. \A x \in S : \E i \in 1..n : c[i] = x
  <2>1. ASSUME NEW i \in 1..n, NEW j \in 1..n, c[i] = c[j]
        PROVE  i = j
    <3>1. c[i] \in Int /\ c[j] \in Int
      BY <1>10
    <3>2. ~(c[i] < c[j]) /\ ~(c[j] < c[i])
      BY <2>1, <3>1
    <3>3. ~(i < j) /\ ~(j < i)
      BY <1>11, <3>2
    <3> QED BY <3>3
  <2>2. OneToOne(c, 1..n, S)
    BY <1>10, <2>1 DEF OneToOne
  <2> QED BY <1>1, <2>2, NumberedOnto
<1>13. Len(c) = n
  <2>1. c \in Seq(S) /\ DOMAIN c = 1..n
    BY <1>1, <1>10
  <2> QED BY <1>1, <2>1
<1> QED BY <1>1, <1>10, <1>11, <1>12, <1>13 DEF c

(* The bin of a length is the one that serves it.                          *)
LEMMA BinServes ==
  ASSUME NEW S \in SUBSET Int, IsFiniteSet(S), S # {}, NEW x \in Int
  PROVE  /\ Bin(Bins(S), x) \in DOMAIN Bins(S)
         /\ Bins(S)[Bin(Bins(S), x)] = Serving(S, x)
<1> DEFINE n == Cardinality(S)
           b == Bins(S)
<1>1. /\ n \in Nat /\ b \in [1..n -> S] /\ Len(b) = n
      /\ \A i, j \in 1..n : i < j => b[i] < b[j]
      /\ \A y \in S : \E i \in 1..n : b[i] = y
  BY BinsAre
<1> HIDE DEF n, b
<1>2. DOMAIN b = 1..n /\ \A i \in 1..n : b[i] \in S /\ b[i] \in Int
  BY <1>1
<1>3. n \in 1..n
  <2>1. PICK y \in S : TRUE
    OBVIOUS
  <2>2. \E i \in 1..n : b[i] = y
    BY <1>1, <2>1
  <2> QED BY <1>1, <2>2
<1> DEFINE large  == {i \in 1..n : x <= b[i]}
           enough == {y \in S : y >= x}
<1>4. large # {} <=> enough # {}
  <2>1. ASSUME NEW i \in large
        PROVE  b[i] \in enough
    BY <1>2
  <2>2. ASSUME NEW y \in enough
        PROVE  \E i \in 1..n : i \in large
    <3>1. PICK i \in 1..n : b[i] = y
      BY <1>1
    <3> QED BY <3>1
  <2> QED BY <2>1, <2>2
<1>5. CASE large # {}
  <2>1. Min(large) \in large /\ \A i \in large : Min(large) <= i
    <3>1. large \in SUBSET Int /\ large \in SUBSET (1..n) /\ IsFiniteSet(1..n)
      BY <1>1, FS_Interval
    <3>2. IsFiniteSet(large)
      <4> HIDE DEF large
      <4> QED BY <3>1, FS_Subset
    <3> HIDE DEF large
    <3> QED BY <1>5, <3>1, <3>2, FiniteMin
  <2>2. Min(enough) \in enough /\ \A y \in enough : Min(enough) <= y
    <3>1. enough \in SUBSET Int /\ enough \in SUBSET S
      OBVIOUS
    <3>2. IsFiniteSet(enough)
      <4> HIDE DEF enough
      <4> QED BY <3>1, FS_Subset
    <3>3. enough # {}
      BY <1>4, <1>5
    <3> HIDE DEF enough
    <3> QED BY <3>1, <3>2, <3>3, FiniteMin
  <2>3. Bin(b, x) = Min(large)
    BY <1>2, <1>5 DEF Bin
  <2>4. Serving(S, x) = Min(enough)
    BY <1>4, <1>5 DEF Serving
  <2> DEFINE i == Min(large)
             y == Min(enough)
  <2>5. PICK j \in 1..n : b[j] = y
    BY <1>1, <2>2
  <2>6. j \in large /\ b[i] \in enough /\ i \in 1..n
    BY <1>2, <2>1, <2>2, <2>5
  <2>7. i <= j /\ y <= b[i]
    BY <2>1, <2>2, <2>6
  <2> HIDE DEF i, y
  <2>8. b[i] = y
    <3>1. i = j \/ b[i] < b[j]
      BY <1>1, <2>6, <2>7
    <3>2. b[i] \in Int /\ b[j] \in Int
      BY <1>2, <2>6
    <3> QED BY <2>5, <2>7, <3>1, <3>2
  <2> QED BY <1>2, <2>3, <2>4, <2>6, <2>8 DEF i, y, b
<1>6. CASE large = {}
  <2>1. Max(S) \in S /\ \A y \in S : Max(S) >= y
    BY FiniteMax
  <2>2. Bin(b, x) = n
    BY <1>1, <1>2, <1>6 DEF Bin
  <2>3. Serving(S, x) = Max(S)
    BY <1>4, <1>6 DEF Serving
  <2> DEFINE y == Max(S)
  <2>4. PICK j \in 1..n : b[j] = y
    BY <1>1, <2>1
  <2>5. b[n] \in S /\ y >= b[n]
    BY <1>2, <1>3, <2>1
  <2> HIDE DEF y
  <2>6. j = n \/ b[j] < b[n]
    BY <1>1, <1>3
  <2>7. b[n] = y
    <3>1. b[n] \in Int /\ b[j] \in Int
      BY <1>2, <1>3
    <3> QED BY <2>4, <2>5, <2>6, <3>1
  <2> QED BY <1>2, <1>3, <2>2, <2>3, <2>7 DEF y, b
<1> QED BY <1>5, <1>6
-----------------------------------------------------------------------------
(* The functional of a call.                                               *)

Supported(args) == \A i \in Params : nchoices[i] > 1 => args[i] \in Range(ParamChoices[i])
Chosen(args)    == [i \in Params |-> IF nchoices[i] > 1 THEN Max(Matches(args, i)) ELSE 0]

LEMMA MatchesAre ==
  ASSUME NEW args, NEW i \in Params
  PROVE  /\ Matches(args, i) # {} <=> args[i] \in Range(ParamChoices[i])
         /\ Matches(args, i) # {} => Max(Matches(args, i)) \in Matches(args, i)
<1> DEFINE M == Matches(args, i)
<1>1. nchoices[i] \in Nat \ {0} /\ DOMAIN ParamChoices[i] = 1..nchoices[i]
  BY ParamsAre
<1>2. ASSUME args[i] \in Range(ParamChoices[i])
      PROVE  M # {}
  <2>1. PICK j \in 1..nchoices[i] : ParamChoices[i][j] = args[i]
    BY <1>1, <1>2 DEF Range
  <2>2. j - 1 \in 0..(nchoices[i] - 1) /\ (j - 1) + 1 = j
    BY <1>1
  <2>3. j - 1 \in M
    BY <2>1, <2>2 DEF Matches
  <2> QED BY <2>3
<1>3. ASSUME M # {}
      PROVE  args[i] \in Range(ParamChoices[i])
  <2>1. PICK n \in 0..(nchoices[i] - 1) : ParamChoices[i][n + 1] = args[i]
    BY <1>3 DEF Matches
  <2>2. n + 1 \in DOMAIN ParamChoices[i]
    BY <1>1
  <2> QED BY <2>1, <2>2 DEF Range
<1>4. M \in SUBSET Int /\ M \in SUBSET (0..(nchoices[i] - 1)) /\ IsFiniteSet(0..(nchoices[i] - 1))
  <2>1. nchoices[i] - 1 \in Int
    BY <1>1
  <2> QED BY <2>1, FS_Interval DEF Matches
<1>5. IsFiniteSet(M)
  <2> HIDE DEF M
  <2> QED BY <1>4, FS_Subset
<1>6. M # {} => Max(M) \in M
  <2> HIDE DEF M
  <2> QED BY <1>4, <1>5, FiniteMax
<1> QED BY <1>2, <1>3, <1>6

(* A call whose arguments are among the choices comes to the functional it *)
(* stands for, and another to none.                                        *)
LEMMA CallIs ==
  ASSUME NEW args
  PROVE  /\ ~Supported(args) => CallNumber(args) = -1
         /\ Supported(args) => /\ Chosen(args) \in Nths
                               /\ CallNumber(args) = GodelNumber(Chosen(args))
                               /\ \A a : Choice(<<a, Chosen(args)>>) = Understood(args)
<1>1. (\E i \in Params : nchoices[i] > 1 /\ Matches(args, i) = {}) <=> ~Supported(args)
  BY MatchesAre DEF Supported
<1>2. ASSUME ~Supported(args)
      PROVE  CallNumber(args) = -1
  BY <1>1, <1>2 DEF CallNumber
<1>3. ASSUME Supported(args)
      PROVE  /\ Chosen(args) \in Nths
             /\ CallNumber(args) = GodelNumber(Chosen(args))
             /\ \A a : Choice(<<a, Chosen(args)>>) = Understood(args)
  <2>1. CallNumber(args) = GodelNumber(Chosen(args))
    BY <1>1, <1>3 DEF CallNumber, Chosen
  <2>2. ASSUME NEW i \in Params
        PROVE  /\ Chosen(args)[i] \in 0..(nchoices[i] - 1)
               /\ ParamChoices[i][Chosen(args)[i] + 1] = Understood(args)[i]
    <3>1. nchoices[i] \in Nat \ {0}
      BY ParamsAre
    <3>2. CASE nchoices[i] > 1
      <4>1. Max(Matches(args, i)) \in Matches(args, i)
        BY <1>3, <3>2, MatchesAre DEF Supported
      <4>2. /\ Max(Matches(args, i)) \in 0..(nchoices[i] - 1)
            /\ ParamChoices[i][Max(Matches(args, i)) + 1] = args[i]
        BY <4>1 DEF Matches
      <4>3. Chosen(args)[i] = Max(Matches(args, i)) /\ Understood(args)[i] = args[i]
        BY <3>1, <3>2 DEF Chosen, Understood
      <4> QED BY <4>2, <4>3
    <3>3. CASE nchoices[i] = 1
      BY <3>3 DEF Chosen, Understood
    <3> QED BY <3>1, <3>2, <3>3
  <2>3. Chosen(args) \in Nths
    <3> DEFINE c == Chosen(args)
    <3>1. c = [i \in Params |-> c[i]]
      BY DEF Chosen
    <3> HIDE DEF c
    <3>2. \A i \in Params : c[i] \in UNION {0..(nchoices[j] - 1) : j \in Params}
      BY <2>2 DEF c
    <3>3. \A i \in Params : c[i] < nchoices[i]
      BY <2>2, ParamsAre DEF c
    <3> QED BY <3>1, <3>2, <3>3 DEF Nths, c
  <2>4. ASSUME NEW a
        PROVE  Choice(<<a, Chosen(args)>>) = Understood(args)
    <3>1. Choice(<<a, Chosen(args)>>) = [i \in Params |-> ParamChoices[i][Chosen(args)[i] + 1]]
      BY DEF Choice
    <3> QED BY <2>2, <3>1 DEF Understood
  <2> QED BY <2>1, <2>3, <2>4
<1> QED BY <1>2, <1>3

(* Its number is a place of the table.                                     *)
LEMMA CalledNumber ==
  ASSUME NEW args, Supported(args)
  PROVE  CallNumber(args) \in Slots /\ ~(CallNumber(args) < 0)
<1>1. CallNumber(args) \in Slots
  BY CallIs, GodelInRange
<1> QED BY <1>1 DEF Slots
-----------------------------------------------------------------------------
(* The strings, of which every offset is the start of its own text.        *)

Widths(order) == [i \in DOMAIN order |-> Length(order[i]) + 1]
Starts(order) == Sums(Len(order), Widths(order))

StringsOK(reg) ==
  /\ reg.order \in Seq(Texts)
  /\ reg.total = Starts(reg.order)[Len(reg.order)]
  /\ \A s \in DOMAIN reg.offset :
       \E i \in 1..Len(reg.order) : reg.order[i] = s /\ reg.offset[s] = Starts(reg.order)[i - 1]

Grown(old, new) ==
  /\ DOMAIN old.offset \subseteq DOMAIN new.offset
  /\ \A s \in DOMAIN old.offset : new.offset[s] = old.offset[s]

LEMMA WidthsAre ==
  ASSUME NEW order \in Seq(Texts)
  PROVE  /\ Len(order) \in Nat /\ DOMAIN order = 1..Len(order)
         /\ \A i \in 1..Len(order) : /\ Widths(order)[i] = Length(order[i]) + 1
                                     /\ Widths(order)[i] \in Nat \ {0}
<1>1. Len(order) \in Nat /\ DOMAIN order = 1..Len(order)
  OBVIOUS
<1>2. ASSUME NEW i \in 1..Len(order)
      PROVE  Widths(order)[i] = Length(order[i]) + 1 /\ Length(order[i]) \in Nat
  <2>1. order[i] \in Texts
    OBVIOUS
  <2> QED BY <1>1, <2>1, LookupTableAssumption DEF Widths
<1> QED BY <1>1, <1>2

LEMMA RegisterStringOK ==
  ASSUME NEW reg, StringsOK(reg), NEW s \in Texts
  PROVE  /\ StringsOK(RegisterString(reg, s))
         /\ Grown(reg, RegisterString(reg, s))
         /\ s \in DOMAIN RegisterString(reg, s).offset
<1>1. CASE s \in DOMAIN reg.offset
  BY <1>1 DEF RegisterString, Grown
<1>2. CASE s \notin DOMAIN reg.offset
  <2> DEFINE old == reg.order
             new == Append(old, s)
             n == Len(old)
             after == RegisterString(reg, s)
             offset == [x \in DOMAIN reg.offset \cup {s} |-> IF x = s THEN reg.total ELSE reg.offset[x]]
  <2>1. after.order = new /\ after.offset = offset /\ after.total = reg.total + Length(s) + 1
    BY <1>2 DEF RegisterString
  <2>2. old \in Seq(Texts) /\ reg.total = Starts(old)[n]
        /\ \A x \in DOMAIN reg.offset : \E i \in 1..n : old[i] = x /\ reg.offset[x] = Starts(old)[i - 1]
    BY DEF StringsOK
  <2>3. /\ DOMAIN offset = DOMAIN reg.offset \cup {s} /\ offset[s] = reg.total
        /\ \A x \in DOMAIN reg.offset : offset[x] = reg.offset[x]
    BY <1>2
  <2> HIDE DEF old, after, offset
  <2>4. new \in Seq(Texts) /\ Len(new) = n + 1 /\ n \in Nat /\ new[n + 1] = s
        /\ \A i \in 1..n : new[i] = old[i]
    BY <2>2
  <2> HIDE DEF new, n
  <2>5. \A i \in 1..n : Widths(old)[i] = Widths(new)[i]
    <3> SUFFICES ASSUME NEW i \in 1..n
                 PROVE  Widths(old)[i] = Widths(new)[i]
      OBVIOUS
    <3>1. i \in 1..Len(old) /\ i \in 1..Len(new)
      BY <2>4 DEF n
    <3>2. Widths(old)[i] = Length(old[i]) + 1
      BY <2>2, <3>1, WidthsAre
    <3>3. Widths(new)[i] = Length(new[i]) + 1
      BY <2>4, <3>1, WidthsAre
    <3> QED BY <2>4, <3>2, <3>3
  <2>6. \A i \in 0..n : Starts(old)[i] = Starts(new)[i]
    <3>1. n \in 0..n /\ n <= n + 1 /\ n + 1 \in Nat
      BY <2>4
    <3>2. \A i \in 0..n : Sums(n, Widths(old))[i] = Sums(n + 1, Widths(new))[i]
      <4> DEFINE f == Widths(old)
                 g == Widths(new)
                 m == n + 1
      <4>1. n \in Nat /\ m \in Nat /\ n \in 0..n /\ n <= m /\ \A i \in 1..n : f[i] = g[i]
        BY <2>4, <2>5, <3>1
      <4> HIDE DEF f, g, m
      <4>2. \A i \in 0..n : Sums(n, f)[i] = Sums(m, g)[i]
        BY ONLY <4>1, SumsAgree
      <4> QED BY <4>2 DEF f, g, m
    <3> QED BY <2>4, <3>2 DEF Starts, n
  <2>7. Starts(new)[n + 1] = Starts(new)[n] + Length(s) + 1
    <3>1. n + 1 \in 1..Len(new) /\ (n + 1) - 1 = n /\ Len(new) \in Nat
      BY <2>4
    <3>2. Starts(new)[n + 1] = Starts(new)[n] + Widths(new)[n + 1]
      BY <3>1, SumsAre DEF Starts
    <3>3. Widths(new)[n + 1] = Length(s) + 1
      BY <2>4, <3>1, WidthsAre
    <3>4. Length(s) \in Nat /\ Starts(new)[n] \in Nat
      <4>1. \A i \in 1..Len(new) : Widths(new)[i] \in Nat
        BY <2>4, WidthsAre
      <4>2. n \in 0..Len(new)
        BY <2>4
      <4> QED BY <3>1, <4>1, <4>2, SumsNat, LookupTableAssumption DEF Starts
    <3> QED BY <3>2, <3>3, <3>4
  <2>8. after.total = Starts(new)[n + 1]
    <3>1. n \in 0..n
      BY <2>4
    <3> QED BY <2>1, <2>2, <2>6, <2>7, <3>1
  <2>9. ASSUME NEW x \in DOMAIN offset
        PROVE  \E i \in 1..Len(new) : new[i] = x /\ offset[x] = Starts(new)[i - 1]
    <3>1. CASE x = s
      <4>1. n + 1 \in 1..Len(new) /\ (n + 1) - 1 = n /\ n \in 0..n
        BY <2>4
      <4> QED BY <2>2, <2>3, <2>4, <2>6, <3>1, <4>1
    <3>2. CASE x # s
      <4>1. PICK i \in 1..n : old[i] = x /\ reg.offset[x] = Starts(old)[i - 1]
        BY <2>2, <2>3, <3>2
      <4>2. i \in 1..Len(new) /\ i - 1 \in 0..n
        BY <2>4
      <4> QED BY <2>3, <2>4, <2>6, <3>2, <4>1, <4>2
    <3> QED BY <3>1, <3>2
  <2>10. StringsOK(after)
    BY <2>1, <2>4, <2>8, <2>9 DEF StringsOK
  <2>11. Grown(reg, after) /\ s \in DOMAIN after.offset
    BY <2>1, <2>3 DEF Grown
  <2> QED BY <2>10, <2>11 DEF after
<1> QED BY <1>1, <1>2

(* Registering the texts of the signatures one after the other.            *)
Both(reg, sig) == RegisterString(RegisterString(reg, sig[1]), sig[2])
AfterSigs(reg, sigs, k, r) == r = [n \in 0..k |-> IF n = 0 THEN reg ELSE Both(r[n - 1], sigs[n])]

LEMMA AfterSigsExist ==
  ASSUME NEW reg, NEW sigs, NEW n \in Nat
  PROVE  \E r : AfterSigs(reg, sigs, n, r)
<1> DEFINE S == {k \in Nat : \E r : AfterSigs(reg, sigs, k, r)}
<1>1. 0 \in S
  <2> DEFINE r == [i \in 0..0 |-> reg]
  <2>1. AfterSigs(reg, sigs, 0, r)
    BY DEF AfterSigs
  <2> QED BY <2>1
<1>2. ASSUME NEW k \in 1..n, k - 1 \in S
      PROVE  k \in S
  <2>1. PICK r : AfterSigs(reg, sigs, k - 1, r)
    BY <1>2
  <2> DEFINE t == [i \in 0..k |-> IF i = k THEN Both(r[k - 1], sigs[k]) ELSE r[i]]
  <2>2. ASSUME NEW i \in 0..k
        PROVE  t[i] = IF i = 0 THEN reg ELSE Both(t[i - 1], sigs[i])
    <3>1. CASE i = k
      <4>1. t[i] = Both(r[k - 1], sigs[k]) /\ k - 1 \in 0..k /\ k - 1 # k /\ i # 0
        BY <3>1
      <4>2. t[i - 1] = r[k - 1]
        BY <3>1, <4>1
      <4> QED BY <3>1, <4>1, <4>2
    <3>2. CASE i # k
      <4>1. i \in 0..(k - 1)
        BY <3>2
      <4>2. r[i] = IF i = 0 THEN reg ELSE Both(r[i - 1], sigs[i])
        BY <2>1, <4>1 DEF AfterSigs
      <4>3. t[i] = r[i]
        BY <3>2
      <4>4. i # 0 => i - 1 \in 0..k /\ i - 1 # k
        BY <4>1
      <4>5. i # 0 => t[i - 1] = r[i - 1]
        BY <4>4
      <4> QED BY <4>2, <4>3, <4>5
    <3> QED BY <3>1, <3>2
  <2>3. t = [i \in 0..k |-> t[i]]
    OBVIOUS
  <2> HIDE DEF t
  <2>4. AfterSigs(reg, sigs, k, t)
    BY <2>2, <2>3 DEF AfterSigs
  <2> QED BY <2>4
<1>3. 0..n \subseteq S
  <2> HIDE DEF S
  <2> QED BY <1>1, <1>2, UpTo
<1> QED BY <1>3

LEMMA RegisterSigsOK ==
  ASSUME NEW reg, StringsOK(reg), NEW sigs, Len(sigs) \in Nat,
         \A n \in 1..Len(sigs) : sigs[n][1] \in Texts /\ sigs[n][2] \in Texts
  PROVE  /\ StringsOK(RegisterSigs(reg, sigs))
         /\ Grown(reg, RegisterSigs(reg, sigs))
         /\ \A n \in 1..Len(sigs) : /\ sigs[n][1] \in DOMAIN RegisterSigs(reg, sigs).offset
                                    /\ sigs[n][2] \in DOMAIN RegisterSigs(reg, sigs).offset
<1> DEFINE last == Len(sigs)
           r == CHOOSE x : AfterSigs(reg, sigs, last, x)
<1>1. RegisterSigs(reg, sigs) = r[last]
  BY DEF RegisterSigs, AfterSigs, Both
<1>2. AfterSigs(reg, sigs, last, r)
  BY AfterSigsExist
<1> HIDE DEF r, last
<1>3. r = [n \in 0..last |-> IF n = 0 THEN reg ELSE Both(r[n - 1], sigs[n])]
  BY <1>2 DEF AfterSigs
<1>4. \A n \in 0..last : r[n] = IF n = 0 THEN reg ELSE Both(r[n - 1], sigs[n])
  BY <1>3
<1>5. last \in Nat
  BY DEF last
<1> DEFINE Has(n) == \A m \in 1..n : sigs[m][1] \in DOMAIN r[n].offset /\ sigs[m][2] \in DOMAIN r[n].offset
           S == {n \in 0..last : StringsOK(r[n]) /\ Grown(reg, r[n]) /\ Has(n)}
<1>6. 0 \in S
  <2>1. r[0] = reg
    BY <1>4, <1>5
  <2>2. StringsOK(r[0]) /\ Grown(reg, r[0])
    BY <2>1 DEF Grown
  <2> QED BY <1>5, <2>2
<1>7. ASSUME NEW n \in 1..last, n - 1 \in S
      PROVE  n \in S
  <2> DEFINE old == r[n - 1]
             mid == RegisterString(old, sigs[n][1])
             new == RegisterString(mid, sigs[n][2])
  <2>1. r[n] = new
    BY <1>4, <1>5 DEF Both
  <2>2. StringsOK(old) /\ Grown(reg, old) /\ Has(n - 1) /\ sigs[n][1] \in Texts /\ sigs[n][2] \in Texts
    BY <1>7 DEF last
  <2>3. StringsOK(mid) /\ Grown(old, mid) /\ sigs[n][1] \in DOMAIN mid.offset
    BY <2>2, RegisterStringOK
  <2>4. StringsOK(new) /\ Grown(mid, new) /\ sigs[n][2] \in DOMAIN new.offset
    BY <2>2, <2>3, RegisterStringOK
  <2> HIDE DEF mid, new
  <2>5. Grown(reg, new) /\ sigs[n][1] \in DOMAIN new.offset /\ DOMAIN old.offset \subseteq DOMAIN new.offset
    BY <2>2, <2>3, <2>4 DEF Grown
  <2>6. ASSUME NEW m \in 1..n
        PROVE  sigs[m][1] \in DOMAIN new.offset /\ sigs[m][2] \in DOMAIN new.offset
    <3>1. m = n \/ m \in 1..(n - 1)
      OBVIOUS
    <3> QED BY <2>2, <2>4, <2>5, <3>1
  <2>7. Has(n)
    BY <2>1, <2>6
  <2> QED BY <1>5, <2>1, <2>4, <2>5, <2>7
<1>8. last \in S
  <2>1. last \in 0..last
    BY <1>5
  <2> HIDE DEF S
  <2> QED BY <1>5, <1>6, <1>7, <2>1, UpTo
<1> QED BY <1>1, <1>8 DEF last

(* What a registered text's offset is the start of.                        *)
LEMMA StringIs ==
  ASSUME StringsOK(strings), NEW s \in DOMAIN strings.offset
  PROVE  StringAt(strings.offset[s]) = s
<1> DEFINE order == strings.order
           starts == Starts(order)
           here == {j \in DOMAIN order : starts[j - 1] = strings.offset[s]}
<1>1. order \in Seq(Texts) /\ Len(order) \in Nat /\ DOMAIN order = 1..Len(order)
  BY WidthsAre DEF StringsOK
<1>2. PICK i \in 1..Len(order) : order[i] = s /\ strings.offset[s] = starts[i - 1]
  BY DEF StringsOK
<1>3. ASSUME NEW j \in here
      PROVE  j = i
  <2>1. j \in 1..Len(order) /\ starts[j - 1] = starts[i - 1]
    BY <1>1, <1>2
  <2>2. \A k \in 1..Len(order) : Widths(order)[k] \in Nat \ {0}
    BY <1>1, WidthsAre
  <2>3. \A k, l \in 0..Len(order) : k < l => starts[k] < starts[l]
    BY <1>1, <2>2, SumsIncrease DEF Starts
  <2>4. \A k \in 0..Len(order) : starts[k] \in Nat
    BY <1>1, <2>2, SumsNat DEF Starts
  <2>5. i - 1 \in 0..Len(order) /\ j - 1 \in 0..Len(order)
    BY <1>1, <2>1
  <2> HIDE DEF starts
  <2>6. ~(i - 1 < j - 1) /\ ~(j - 1 < i - 1)
    BY <2>1, <2>3, <2>4, <2>5
  <2> QED BY <2>1, <2>6
<1>4. i \in here
  BY <1>1, <1>2
<1>5. StringAt(strings.offset[s]) = IF here = {} THEN None ELSE order[CHOOSE j \in here : TRUE]
  BY DEF StringAt, Starts, Widths
<1> HIDE DEF here
<1>6. (CHOOSE j \in here : TRUE) = i
  BY <1>3, <1>4
<1> QED BY <1>2, <1>4, <1>5, <1>6
-----------------------------------------------------------------------------
(* The lookup functions, of which every place keeps its bins.              *)

FunctionsOK(fns) == \E S : fns \in Seq(S) /\ \A e \in S : e.bins = e.source[2]

LEMMA FunctionIs ==
  ASSUME FunctionsOK(functions), NEW n, NEW bins, NEW source, source = Source(n, bins),
         NEW new, new = RegisterFunction(source, bins)
  PROVE  /\ FunctionsOK(new)
         /\ Place(source, new) \in DOMAIN new /\ new[Place(source, new)].bins = bins
         /\ \A i \in DOMAIN functions : i \in DOMAIN new /\ new[i] = functions[i]
<1>1. PICK S : functions \in Seq(S) /\ \A e \in S : e.bins = e.source[2]
  BY DEF FunctionsOK
<1> DEFINE e == [source |-> source, bins |-> bins]
           p == Place(source, new)
<1>2. source[2] = bins
  BY DEF Source
<1>3. /\ \E i \in DOMAIN new : new[i].source = source
      /\ FunctionsOK(new)
      /\ \A i \in DOMAIN functions : i \in DOMAIN new /\ new[i] = functions[i]
  <2>1. CASE \E i \in DOMAIN functions : functions[i].source = source
    <3>1. new = functions
      BY <2>1 DEF RegisterFunction
    <3> QED BY <2>1, <3>1
  <2>2. CASE ~ \E i \in DOMAIN functions : functions[i].source = source
    <3>1. new = Append(functions, e)
      BY <2>2 DEF RegisterFunction
    <3>2. functions \in Seq(S \cup {e}) /\ e \in S \cup {e}
      BY <1>1
    <3>3. e.source = source /\ e.bins = bins
      OBVIOUS
    <3> HIDE DEF e
    <3>4. new \in Seq(S \cup {e}) /\ Len(new) = Len(functions) + 1 /\ new[Len(functions) + 1] = e
          /\ DOMAIN new = 1..(Len(functions) + 1) /\ DOMAIN functions = 1..Len(functions)
          /\ Len(functions) \in Nat
          /\ \A i \in 1..Len(functions) : new[i] = functions[i]
      BY <3>1, <3>2
    <3>5. \A x \in S \cup {e} : x.bins = x.source[2]
      BY <1>1, <1>2, <3>3
    <3>6. FunctionsOK(new)
      BY <3>4, <3>5 DEF FunctionsOK
    <3>7. Len(functions) + 1 \in DOMAIN new
      BY <3>4
    <3> QED BY <3>3, <3>4, <3>6, <3>7
  <2> QED BY <2>1, <2>2
<1>4. p \in DOMAIN new /\ new[p].source = source
  BY <1>3 DEF Place
<1>5. new[p].bins = bins
  <2>1. PICK T : new \in Seq(T) /\ \A x \in T : x.bins = x.source[2]
    BY <1>3 DEF FunctionsOK
  <2>2. new[p] \in T
    BY <1>4, <2>1
  <2> QED BY <1>2, <1>4, <2>1, <2>2
<1> QED BY <1>3, <1>4, <1>5

-----------------------------------------------------------------------------
(* The rows of a functional, and its table.                                *)

RowsOK == kind \in DOMAIN Databases /\ rows \in Databases[kind]

LEMMA RowsAre ==
  ASSUME RowsOK
  PROVE  /\ kind \in {"kernel", "op"} /\ IsFiniteSet(rows)
         /\ \A r \in rows : /\ r.q \in Int /\ r.k \in Int
                            /\ kind = "op" => r.pick \in Nat
                            /\ kind = "kernel" => /\ r.pick = [s \in 1..2 |-> r.pick[s]]
                                                  /\ \A s \in 1..2 : r.pick[s] \in Texts
<1>1. kind \in {"kernel", "op"} /\ IsFiniteSet(rows)
  BY LookupTableAssumption DEF RowsOK
<1>2. ASSUME NEW r \in rows
      PROVE  r.q \in Int /\ r.k \in Int /\ IF kind = "op" THEN r.pick \in Nat ELSE r.pick \in [1..2 -> Range(r.pick)]
  BY LookupTableAssumption DEF RowsOK
<1>3. ASSUME NEW r \in rows, kind = "kernel"
      PROVE  r.pick = [s \in 1..2 |-> r.pick[s]] /\ \A s \in 1..2 : r.pick[s] \in Texts
  <2>1. r.pick \in [1..2 -> Range(r.pick)]
    BY <1>2, <1>3
  <2>2. r.pick = [s \in 1..2 |-> r.pick[s]] /\ DOMAIN r.pick = 1..2
    BY <2>1
  <2>3. rows \in UNION {Databases[of] : of \in DOMAIN Databases \cap {"kernel"}}
    BY <1>3 DEF RowsOK
  <2>4. r \in UNION UNION {Databases[of] : of \in DOMAIN Databases \cap {"kernel"}}
    BY <2>3
  <2>5. Range(r.pick) \subseteq Texts
    BY <2>4 DEF Texts
  <2>6. \A s \in 1..2 : r.pick[s] \in Range(r.pick)
    BY <2>2 DEF Range
  <2> QED BY <2>2, <2>5, <2>6
<1> QED BY <1>1, <1>2, <1>3

LEMMA DefaultIs ==
  /\ Default = [s \in 1..2 |-> Default[s]]
  /\ \A s \in 1..2 : Default[s] \in Texts
<1>1. Default \in [1..2 -> Range(Default)]
  BY LookupTableAssumption
<1>2. Default = [s \in 1..2 |-> Default[s]] /\ DOMAIN Default = 1..2
  BY <1>1
<1>3. \A s \in 1..2 : Default[s] \in Range(Default)
  BY <1>1
<1> QED BY <1>2, <1>3 DEF Texts

LEMMA ViewAre ==
  ASSUME NEW f
  PROVE  View(f) \in SUBSET rows /\ \A r \in View(f) : r.gpu \in Range(Gpus(f))
  BY DEF View, RowsOf

LEMMA RowsAgree ==
  ASSUME NEW f, NEW c, NEW d, \A i \in Params : nchoices[i] > 1 => c[i] = d[i]
  PROVE  RowsOf(f, c) = Recorded(f[1], d)
<1>1. \A r : r.gpu \in Range(Gpus(f)) <=> \E i \in DOMAIN Targets[f[1]].gpus : r.gpu = Reuse(Targets[f[1]].gpus[i])
  BY DEF Range, Gpus
<1>2. \A r : (\A i \in Params : nchoices[i] > 1 => r.choice[i] = c[i])
             <=> (\A i \in Params : nchoices[i] = 1 \/ r.choice[i] = d[i])
  <2>1. \A i \in Params : nchoices[i] > 1 <=> nchoices[i] # 1
    BY ParamsAre
  <2> QED BY <2>1
<1>3. RowsOf(f, c) \subseteq Recorded(f[1], d)
  BY <1>1, <1>2 DEF RowsOf, Recorded
<1>4. Recorded(f[1], d) \subseteq RowsOf(f, c)
  BY <1>1, <1>2 DEF RowsOf, Recorded
<1> QED BY <1>3, <1>4

(* The generator and a call of this functional look at the same rows.      *)
LEMMA ViewIs ==
  ASSUME NEW f, NEW args, Choice(f) = Understood(args)
  PROVE  View(f) = Usable(f[1], args)
<1>1. \A i \in Params : nchoices[i] > 1 => Choice(f)[i] = args[i]
  <2>1. \A i \in Params : nchoices[i] > 1 => nchoices[i] # 1
    BY ParamsAre
  <2> QED BY <2>1 DEF Understood
<1>2. \A i \in Params : nchoices[i] > 1 => Fallback(Choice(f))[i] = Fallback(args)[i]
  BY <1>1 DEF Fallback
<1>3. RowsOf(f, Choice(f)) = Recorded(f[1], args)
  BY <1>1, RowsAgree
<1>4. RowsOf(f, Fallback(Choice(f))) = Recorded(f[1], Fallback(args))
  BY <1>2, RowsAgree
<1> QED BY <1>3, <1>4 DEF View, Usable
-----------------------------------------------------------------------------
(* What a table made of rows holds.                                        *)

Lengths(df) == <<{r.q : r \in df}, {r.k : r \in df}>>
Sigs(df)    == SetToSeq({r.pick : r \in df})
Own(f, df, i, q, k) == {r \in df : r.gpu = Gpus(f)[i] /\ r.q = q /\ r.k = k}

LEMMA LengthsAre ==
  ASSUME RowsOK, NEW df \in SUBSET rows, NEW d \in 1..2
  PROVE  /\ Lengths(df)[d] \in SUBSET Int /\ IsFiniteSet(Lengths(df)[d])
         /\ df # {} => Lengths(df)[d] # {}
<1>1. IsFiniteSet(df) /\ \A r \in df : r.q \in Int /\ r.k \in Int
  BY RowsAre, FS_Subset
<1>2. CASE d = 1
  <2> DEFINE T == {r.q : r \in df}
             g == [r \in df |-> r.q]
  <2>1. g \in [df -> T] /\ \A t \in T : \E r \in df : g[r] = t
    OBVIOUS
  <2>2. T \in SUBSET Int /\ (df # {} => T # {})
    BY <1>1
  <2> HIDE DEF g, T
  <2>3. IsFiniteSet(T)
    BY <1>1, <2>1, ImageIsFinite
  <2> QED BY <1>2, <2>2, <2>3 DEF Lengths, T
<1>3. CASE d = 2
  <2> DEFINE T == {r.k : r \in df}
             g == [r \in df |-> r.k]
  <2>1. g \in [df -> T] /\ \A t \in T : \E r \in df : g[r] = t
    OBVIOUS
  <2>2. T \in SUBSET Int /\ (df # {} => T # {})
    BY <1>1
  <2> HIDE DEF g, T
  <2>3. IsFiniteSet(T)
    BY <1>1, <2>1, ImageIsFinite
  <2> QED BY <1>3, <2>2, <2>3 DEF Lengths, T
<1> QED BY <1>2, <1>3

(* The signatures are the picks of the rows.                               *)
LEMMA SigsAre ==
  ASSUME RowsOK, NEW df \in SUBSET rows
  PROVE  /\ Len(Sigs(df)) \in Nat /\ DOMAIN Sigs(df) = 1..Len(Sigs(df))
         /\ \A n \in DOMAIN Sigs(df) : \E r \in df : Sigs(df)[n] = r.pick
         /\ \A r \in df : SigNum(r, Sigs(df)) \in DOMAIN Sigs(df) /\ Sigs(df)[SigNum(r, Sigs(df))] = r.pick
<1> DEFINE P == {r.pick : r \in df}
           g == [r \in df |-> r.pick]
<1>1. IsFiniteSet(df)
  BY RowsAre, FS_Subset
<1>2. g \in [df -> P] /\ \A t \in P : \E r \in df : g[r] = t
  OBVIOUS
<1>3. \A r \in df : r.pick \in P
  OBVIOUS
<1>4. \A p \in P : \E r \in df : p = r.pick
  OBVIOUS
<1> HIDE DEF g
<1>5. IsFiniteSet(P)
  <2> HIDE DEF P
  <2> QED BY <1>1, <1>2, ImageIsFinite
<1>6. Sigs(df) = SetToSeq(P)
  BY DEF Sigs
<1> HIDE DEF P
<1> DEFINE q == Sigs(df)
           n == Cardinality(P)
<1>7. n \in Nat /\ q \in [1..n -> P] /\ Len(q) = n /\ \A x \in P : \E i \in 1..n : q[i] = x
  BY <1>5, <1>6, SetToSeqIs
<1> HIDE DEF q, n
<1>8. DOMAIN q = 1..n /\ \A i \in 1..n : q[i] \in P
  BY <1>7
<1>9. ASSUME NEW r \in df
      PROVE  SigNum(r, q) \in DOMAIN q /\ q[SigNum(r, q)] = r.pick
  <2>1. \E i \in DOMAIN q : q[i] = r.pick
    BY <1>3, <1>7, <1>8
  <2> QED BY <2>1 DEF SigNum
<1> QED BY <1>4, <1>7, <1>8, <1>9 DEF q

(* A place is a hole, -1, or it comes from a row of its GPU or, where that *)
(* has none, of the first one.                                             *)
LEMMA CellIs ==
  ASSUME NEW f, NEW df, NEW sigs, NEW i, NEW q, NEW k,
         NEW c, c = Cell(f, df, sigs, i, q, k)
  PROVE  \/ c = -1 /\ Own(f, df, i, q, k) = {} /\ Own(f, df, 1, q, k) = {}
         \/ \E r \in Own(f, df, i, q, k) : c = Stored(r, sigs)
         \/ /\ Own(f, df, i, q, k) = {}
            /\ \E r \in Own(f, df, 1, q, k) : c = Stored(r, sigs)
<1> DEFINE own == Own(f, df, i, q, k)
           first == Own(f, df, 1, q, k)
           written == IF own # {} THEN own ELSE first
<1>1. c = IF written = {} THEN -1 ELSE Stored(CHOOSE r \in written : TRUE, sigs)
  BY DEF Cell, Own
<1> HIDE DEF own, first
<1>2. CASE own # {}
  <2>1. written = own /\ (CHOOSE r \in own : TRUE) \in own
    BY <1>2
  <2> QED BY <1>1, <1>2, <2>1 DEF own
<1>3. CASE own = {} /\ first # {}
  <2>1. written = first /\ (CHOOSE r \in first : TRUE) \in first
    BY <1>3
  <2> QED BY <1>1, <1>3, <2>1 DEF own, first
<1>4. CASE own = {} /\ first = {}
  BY <1>1, <1>4 DEF own, first
<1> QED BY <1>2, <1>3, <1>4

(* A table of rows: which place serves a call.                             *)
Served(df, d, x) == Serving(Lengths(df)[d], x)

LEMMA TranslateIs ==
  ASSUME RowsOK, NEW f, NEW df \in SUBSET rows, df # {}, NEW t, t = Translate(f, df)
  PROVE  /\ t.bins = <<Bins(Lengths(df)[1]), Bins(Lengths(df)[2])>> /\ t.sigs = Sigs(df)
         /\ \A x \in DOMAIN t.lut : x[1] \in DOMAIN Gpus(f) /\ \E q, k \in Int : t.lut[x] = Cell(f, df, Sigs(df), x[1], q, k)
         /\ \A i \in DOMAIN Gpus(f) : \A q, k \in Int :
              LET x == <<i, Bin(t.bins[1], q), Bin(t.bins[2], k)>>
              IN  /\ x \in DOMAIN t.lut
                  /\ t.lut[x] = Cell(f, df, Sigs(df), i, Served(df, 1, q), Served(df, 2, k))
<1> DEFINE b1 == Bins(Lengths(df)[1])
           b2 == Bins(Lengths(df)[2])
           D == (DOMAIN Gpus(f)) \X (DOMAIN b1) \X (DOMAIN b2)
           C(i, q, k) == Cell(f, df, Sigs(df), i, q, k)
<1>1. t = [lut |-> [x \in D |-> C(x[1], b1[x[2]], b2[x[3]])], sigs |-> Sigs(df), bins |-> <<b1, b2>>]
  BY DEF Translate, Lengths, Sigs
<1>2. \A d \in 1..2 : Lengths(df)[d] \in SUBSET Int /\ IsFiniteSet(Lengths(df)[d]) /\ Lengths(df)[d] # {}
  BY LengthsAre
<1>3. \A d \in 1..2 : \A x \in Int :
        /\ Bin(Bins(Lengths(df)[d]), x) \in DOMAIN Bins(Lengths(df)[d])
        /\ Bins(Lengths(df)[d])[Bin(Bins(Lengths(df)[d]), x)] = Served(df, d, x)
  BY <1>2, BinServes DEF Served
<1>4. \A x \in Int : /\ Bin(b1, x) \in DOMAIN b1 /\ b1[Bin(b1, x)] = Served(df, 1, x)
                     /\ Bin(b2, x) \in DOMAIN b2 /\ b2[Bin(b2, x)] = Served(df, 2, x)
  BY <1>3
<1>5. (\A j \in DOMAIN b1 : b1[j] \in Int) /\ (\A j \in DOMAIN b2 : b2[j] \in Int)
  <2>1. \A d \in 1..2 : \A j \in DOMAIN Bins(Lengths(df)[d]) : Bins(Lengths(df)[d])[j] \in Int
    <3> SUFFICES ASSUME NEW d \in 1..2, NEW j \in DOMAIN Bins(Lengths(df)[d])
                 PROVE  Bins(Lengths(df)[d])[j] \in Int
      OBVIOUS
    <3>1. Bins(Lengths(df)[d]) \in [1..Cardinality(Lengths(df)[d]) -> Lengths(df)[d]]
      BY <1>2, BinsAre
    <3> QED BY <1>2, <3>1
  <2> QED BY <2>1
<1> HIDE DEF C, b1, b2
<1>6. t.bins = <<b1, b2>> /\ t.sigs = Sigs(df) /\ DOMAIN t.lut = D
      /\ \A x \in D : t.lut[x] = C(x[1], b1[x[2]], b2[x[3]])
  BY <1>1
<1>7. ASSUME NEW x \in DOMAIN t.lut
      PROVE  x[1] \in DOMAIN Gpus(f) /\ \E q, k \in Int : t.lut[x] = C(x[1], q, k)
  <2>1. x[1] \in DOMAIN Gpus(f) /\ b1[x[2]] \in Int /\ b2[x[3]] \in Int
    BY <1>5, <1>6
  <2> QED BY <1>6, <2>1
<1>8. ASSUME NEW i \in DOMAIN Gpus(f), NEW q \in Int, NEW k \in Int
      PROVE  /\ <<i, Bin(b1, q), Bin(b2, k)>> \in DOMAIN t.lut
             /\ t.lut[<<i, Bin(b1, q), Bin(b2, k)>>] = C(i, Served(df, 1, q), Served(df, 2, k))
  <2>1. <<i, Bin(b1, q), Bin(b2, k)>> \in D
    BY <1>4
  <2> QED BY <1>4, <1>6, <2>1
<1>9. t.bins[1] = b1 /\ t.bins[2] = b2
  BY <1>6
<1> QED BY <1>6, <1>7, <1>8, <1>9 DEF C, b1, b2
-----------------------------------------------------------------------------
(* What a table says is what its call expects.                             *)

ServedOwn(f, df, j, call) == Own(f, df, j, Served(df, 1, call.q), Served(df, 2, call.k))
ServedCell(f, df, j, call) == Cell(f, df, Sigs(df), j, Served(df, 1, call.q), Served(df, 2, call.k))

LEMMA GpusAre ==
  ASSUME NEW f \in Functionals
  PROVE  /\ f[1] \in DOMAIN Targets /\ f[2] \in Nths /\ f = <<f[1], f[2]>>
         /\ 1 \in DOMAIN Gpus(f) /\ DOMAIN Gpus(f) = DOMAIN Targets[f[1]].gpus
         /\ \A j \in DOMAIN Gpus(f) : Gpus(f)[j] = Reuse(Targets[f[1]].gpus[j])
<1>1. f[1] \in DOMAIN Targets /\ f[2] \in Nths /\ f = <<f[1], f[2]>>
  BY DEF Functionals
<1>2. 1 \in DOMAIN Targets[f[1]].gpus
  BY <1>1, LookupTableAssumption
<1> QED BY <1>1, <1>2 DEF Gpus

LEMMA MeasuredIs ==
  ASSUME NEW f \in Functionals, NEW call, Choice(f) = Understood(call.args),
         NEW j \in DOMAIN Gpus(f)
  PROVE  Measured(call, f[1], Targets[f[1]].gpus[j]) = {Found(r.pick) : r \in ServedOwn(f, View(f), j, call)}
<1> DEFINE df == View(f)
           U == Usable(f[1], call.args)
           M == {x \in U : /\ x.gpu = Reuse(Targets[f[1]].gpus[j])
                           /\ x.q = Serving({y.q : y \in U}, call.q)
                           /\ x.k = Serving({y.k : y \in U}, call.k)}
<1>1. df = U
  BY ViewIs
<1>2. Gpus(f)[j] = Reuse(Targets[f[1]].gpus[j])
  BY GpusAre
<1>3. Served(df, 1, call.q) = Serving({y.q : y \in df}, call.q)
      /\ Served(df, 2, call.k) = Serving({y.k : y \in df}, call.k)
  BY DEF Served, Lengths
<1>4. M = ServedOwn(f, df, j, call)
  BY <1>1, <1>2, <1>3 DEF ServedOwn, Own
<1>5. Measured(call, f[1], Targets[f[1]].gpus[j]) = {Found(r.pick) : r \in M}
  BY DEF Measured
<1> QED BY <1>4, <1>5

LEMMA ServedCellIs ==
  ASSUME RowsOK, NEW f \in Functionals, NEW call, Choice(f) = Understood(call.args),
         View(f) # {}, NEW i \in DOMAIN Gpus(f), call.gpu = Targets[f[1]].gpus[i],
         NEW c, c = ServedCell(f, View(f), i, call)
  PROVE  /\ c = -1 => (IF kind = "op" THEN Found(0) ELSE Failure("SymbolNotFound")) \in Expected(call, f[1])
         /\ c # -1 => \E r \in View(f) : c = Stored(r, Sigs(View(f))) /\ Found(r.pick) \in Expected(call, f[1])
<1> DEFINE df == View(f)
           own == ServedOwn(f, df, i, call)
           first == ServedOwn(f, df, 1, call)
           E == Expected(call, f[1])
<1>1. /\ Measured(call, f[1], call.gpu) = {Found(r.pick) : r \in own}
      /\ Measured(call, f[1], Targets[f[1]].gpus[1]) = {Found(r.pick) : r \in first}
  BY MeasuredIs, GpusAre
<1>2. Usable(f[1], call.args) # {}
  BY ViewIs
<1>3. /\ own # {} => E = {Found(r.pick) : r \in own}
      /\ own = {} /\ first # {} => E = {Found(r.pick) : r \in first}
      /\ own = {} /\ first = {} => E = {IF kind = "op" THEN Found(0) ELSE Failure("SymbolNotFound")}
  <2> HIDE DEF own, first
  <2> QED BY <1>1, <1>2 DEF Expected
<1>4. \/ c = -1 /\ own = {} /\ first = {}
      \/ \E r \in own : c = Stored(r, Sigs(df))
      \/ own = {} /\ \E r \in first : c = Stored(r, Sigs(df))
  BY CellIs DEF ServedCell, ServedOwn
<1>5. own \subseteq df /\ first \subseteq df
  BY DEF ServedOwn, Own
<1>6. \A r \in df : Stored(r, Sigs(df)) # -1
  <2> SUFFICES ASSUME NEW r \in df
               PROVE  Stored(r, Sigs(df)) # -1
    OBVIOUS
  <2>1. df \in SUBSET rows /\ r \in rows
    BY ViewAre
  <2>2. CASE kind = "op"
    BY <2>1, <2>2, RowsAre DEF Stored
  <2>3. CASE kind # "op"
    <3>1. SigNum(r, Sigs(df)) \in 1..Len(Sigs(df)) /\ Len(Sigs(df)) \in Nat
      BY <2>1, SigsAre
    <3> QED BY <2>3, <3>1 DEF Stored
  <2> QED BY <2>2, <2>3
<1> HIDE DEF own, first, df, E
<1>7. CASE c = -1
  <2>1. own = {} /\ first = {}
    BY <1>4, <1>5, <1>6, <1>7
  <2> QED BY <1>3, <1>7, <2>1 DEF E
<1>8. CASE c # -1
  <2>1. (\E r \in own : c = Stored(r, Sigs(df))) \/ (own = {} /\ \E r \in first : c = Stored(r, Sigs(df)))
    BY <1>4, <1>8
  <2>2. \E r \in df : c = Stored(r, Sigs(df)) /\ Found(r.pick) \in E
    BY <1>3, <1>5, <2>1
  <2> QED BY <1>8, <2>2 DEF df, E
<1> QED BY <1>7, <1>8

LEMMA ServesItself ==
  ASSUME NEW S \in SUBSET Int, IsFiniteSet(S), NEW y \in S
  PROVE  Serving(S, y) = y
<1> DEFINE enough == {z \in S : z >= y}
<1>1. y \in Int /\ y >= y
  OBVIOUS
<1>2. y \in enough /\ enough \in SUBSET S
  BY <1>1
<1>3. enough \in SUBSET Int
  BY <1>2
<1>4. \A z \in enough : y <= z
  BY <1>1
<1>5. Serving(S, y) = Min(enough)
  BY <1>2 DEF Serving
<1> HIDE DEF enough
<1>6. Min(enough) \in enough /\ \A z \in enough : Min(enough) <= z
  <2>1. IsFiniteSet(enough) /\ enough # {}
    BY <1>2, FS_Subset
  <2> QED BY <1>3, <2>1, FiniteMin
<1>7. Min(enough) <= y /\ y <= Min(enough) /\ Min(enough) \in Int
  BY <1>2, <1>3, <1>4, <1>6
<1> QED BY <1>1, <1>5, <1>7

(* The places of an operator's table are backends or holes, not all holes. *)
LEMMA BackendsOnly ==
  ASSUME RowsOK, kind = "op", NEW f \in Functionals, View(f) # {}, NEW t, t = TableOf(f)
  PROVE  /\ \A x \in DOMAIN t.lut : t.lut[x] = -1 \/ t.lut[x] \in Nat
         /\ \E x \in DOMAIN t.lut : t.lut[x] \in Nat
<1> DEFINE df == View(f)
<1>1. df \in SUBSET rows /\ t = Translate(f, df) /\ \A r \in df : r.gpu \in Range(Gpus(f))
  BY ViewAre DEF TableOf
<1>2. \A r \in df : r.q \in Int /\ r.k \in Int /\ Stored(r, Sigs(df)) \in Nat
  BY <1>1, RowsAre DEF Stored
<1>3. ASSUME NEW i, NEW q, NEW k
      PROVE  /\ Cell(f, df, Sigs(df), i, q, k) = -1 \/ Cell(f, df, Sigs(df), i, q, k) \in Nat
             /\ Own(f, df, i, q, k) # {} => Cell(f, df, Sigs(df), i, q, k) \in Nat
  <2>1. Own(f, df, i, q, k) \subseteq df /\ Own(f, df, 1, q, k) \subseteq df
    BY DEF Own
  <2> DEFINE c == Cell(f, df, Sigs(df), i, q, k)
             own == Own(f, df, i, q, k)
             first == Own(f, df, 1, q, k)
  <2>2. \/ c = -1 /\ own = {} /\ first = {}
        \/ \E r \in own : c = Stored(r, Sigs(df))
        \/ own = {} /\ \E r \in first : c = Stored(r, Sigs(df))
    BY CellIs
  <2> HIDE DEF c, own, first, df
  <2>3. (c = -1 \/ c \in Nat) /\ (own # {} => c \in Nat)
    BY <1>2, <2>1, <2>2 DEF own, first
  <2> QED BY <2>3 DEF c, own, df
<1>4. \A x \in DOMAIN t.lut : t.lut[x] = -1 \/ t.lut[x] \in Nat
  <2> SUFFICES ASSUME NEW x \in DOMAIN t.lut
               PROVE  t.lut[x] = -1 \/ t.lut[x] \in Nat
    OBVIOUS
  <2>1. \E q, k \in Int : t.lut[x] = Cell(f, df, Sigs(df), x[1], q, k)
    BY <1>1, TranslateIs
  <2> QED BY <1>3, <2>1
<1>5. PICK r \in df : TRUE
  OBVIOUS
<1>6. PICK i \in DOMAIN Gpus(f) : r.gpu = Gpus(f)[i]
  BY <1>1 DEF Range
<1> DEFINE q == Served(df, 1, r.q)
           k == Served(df, 2, r.k)
           x == <<i, Bin(t.bins[1], r.q), Bin(t.bins[2], r.k)>>
<1>7. x \in DOMAIN t.lut /\ t.lut[x] = Cell(f, df, Sigs(df), i, q, k)
  BY <1>1, <1>2, TranslateIs
<1>8. q = r.q /\ k = r.k
  <2>1. \A S \in SUBSET Int : IsFiniteSet(S) => \A y \in S : Serving(S, y) = y
    BY ServesItself
  <2>2. r.q \in Lengths(df)[1] /\ r.k \in Lengths(df)[2]
    BY DEF Lengths
  <2> QED BY <1>1, <2>1, <2>2, LengthsAre DEF Served
<1>9. r \in Own(f, df, i, q, k)
  BY <1>6, <1>8 DEF Own
<1> HIDE DEF q, k, x
<1>10. t.lut[x] \in Nat
  BY <1>3, <1>7, <1>9
<1> QED BY <1>4, <1>7, <1>10
-----------------------------------------------------------------------------
(* The inductive invariant of the generator: the functionals it has passed *)
(* have the entries their tables ask for.                                  *)

SharedFunction(e, t) ==
  /\ e.lut = t.lut
  /\ e.function \in DOMAIN functions /\ functions[e.function].bins = t.bins

KernelEntry(e, t) ==
  /\ SharedFunction(e, t)
  /\ DOMAIN e.meta = DOMAIN t.sigs
  /\ \A n \in DOMAIN t.sigs : \A s \in 1..2 :
       t.sigs[n][s] \in DOMAIN strings.offset /\ e.meta[n][s] = strings.offset[t.sigs[n][s]]

OperatorEntry(e, t) ==
  IF Trivial(t) THEN e = [backend |-> CHOOSE b \in Range(t.lut) : TRUE]
  ELSE DOMAIN e = {"lut", "function"} /\ SharedFunction(e, t)

Whole(f) == strict /\ View(f) # {} => -1 \notin Range(TableOf(f).lut)

Settled(f) ==
  IF kind = "kernel" /\ Disabled(f[1], Choice(f)) THEN table[Slot(f)] = {}
  ELSE \E e : /\ table[Slot(f)] = {e}
              /\ kind = "kernel" => KernelEntry(e, TableOf(f)) /\ Whole(f)
              /\ kind # "kernel" => OperatorEntry(e, TableOf(f))

Generated ==
  /\ RowsOK /\ todo \in SUBSET Functionals
  /\ StringsOK(strings) /\ FunctionsOK(functions)
  /\ table = [s \in (DOMAIN Targets) \X Slots |-> table[s]]
  /\ phase = "built" => todo = {}
  /\ \A f \in todo : table[Slot(f)] = {}
  /\ phase # "raised" => \A f \in Functionals \ todo : Settled(f)

(* The tables depend on the database only.                                 *)
LEMMA TablesKept ==
  ASSUME kind' = kind, rows' = rows, NEW f
  PROVE  View(f)' = View(f) /\ TableOf(f)' = TableOf(f)
<1>1. ASSUME NEW c
      PROVE  RowsOf(f, c)' = RowsOf(f, c)
  BY DEF RowsOf
<1>2. View(f)' = View(f)
  BY <1>1 DEF View
<1>3. ASSUME NEW r, NEW sigs
      PROVE  Stored(r, sigs)' = Stored(r, sigs)
  BY DEF Stored, SigNum
<1>4. ASSUME NEW df, NEW sigs, NEW i, NEW q, NEW k
      PROVE  Cell(f, df, sigs, i, q, k)' = Cell(f, df, sigs, i, q, k)
  <2> DEFINE own(j) == {r \in df : r.gpu = Gpus(f)[j] /\ r.q = q /\ r.k = k}
             written == IF own(i) # {} THEN own(i) ELSE own(1)
             r == CHOOSE x \in written : TRUE
  <2>1. Cell(f, df, sigs, i, q, k) = IF written = {} THEN -1 ELSE Stored(r, sigs)
    BY DEF Cell
  <2>2. Cell(f, df, sigs, i, q, k)' = IF written = {} THEN -1 ELSE Stored(r, sigs)'
    BY DEF Cell
  <2>3. Stored(r, sigs)' = Stored(r, sigs)
    <3> HIDE DEF r
    <3> QED BY <1>3
  <2> QED BY <2>1, <2>2, <2>3
<1>5. ASSUME NEW df
      PROVE  Translate(f, df)' = Translate(f, df)
  <2> DEFINE b1 == Bins({r.q : r \in df})
             b2 == Bins({r.k : r \in df})
             sigs == SetToSeq({r.pick : r \in df})
             D == (DOMAIN Gpus(f)) \X (DOMAIN b1) \X (DOMAIN b2)
  <2>1. Translate(f, df) = [lut |-> [x \in D |-> Cell(f, df, sigs, x[1], b1[x[2]], b2[x[3]])],
                            sigs |-> sigs, bins |-> <<b1, b2>>]
    BY DEF Translate
  <2>2. Translate(f, df)' = [lut |-> [x \in D |-> Cell(f, df, sigs, x[1], b1[x[2]], b2[x[3]])'],
                             sigs |-> sigs, bins |-> <<b1, b2>>]
    BY DEF Translate
  <2> HIDE DEF b1, b2, sigs, D
  <2>3. [x \in D |-> Cell(f, df, sigs, x[1], b1[x[2]], b2[x[3]])']
        = [x \in D |-> Cell(f, df, sigs, x[1], b1[x[2]], b2[x[3]])]
    BY <1>4
  <2> QED BY <2>1, <2>2, <2>3
<1>6. TranslateEmpty(f)' = TranslateEmpty(f)
  BY DEF TranslateEmpty
<1>7. Translate(f, View(f))' = Translate(f, View(f))
  BY <1>2, <1>5
<1> QED BY <1>2, <1>6, <1>7 DEF TableOf

LEMMA SlotsDiffer ==
  ASSUME NEW f \in Functionals, NEW g \in Functionals, f # g
  PROVE  Slot(f) # Slot(g)
<1>1. f[1] # g[1] \/ f[2] # g[2]
  BY GpusAre
<1> QED BY <1>1, GodelDiffers, GpusAre DEF Slot

LEMMA SlotIsIn ==
  ASSUME NEW f \in Functionals
  PROVE  Slot(f) \in (DOMAIN Targets) \X Slots
  BY GpusAre, GodelInRange DEF Slot

LEMMA EntriesKept ==
  ASSUME kind' = kind, rows' = rows, strict' = strict, Grown(strings, strings'),
         \A i \in DOMAIN functions : i \in DOMAIN functions' /\ functions'[i] = functions[i],
         NEW f, table'[Slot(f)] = table[Slot(f)], Settled(f)
  PROVE  Settled(f)'
<1>1. TableOf(f)' = TableOf(f) /\ View(f)' = View(f)
  BY TablesKept
<1>2. CASE kind = "kernel" /\ Disabled(f[1], Choice(f))
  BY <1>2 DEF Settled
<1>3. CASE ~(kind = "kernel" /\ Disabled(f[1], Choice(f)))
  <2> DEFINE t == TableOf(f)
  <2>1. PICK e : /\ table[Slot(f)] = {e}
                 /\ kind = "kernel" => KernelEntry(e, t) /\ Whole(f)
                 /\ kind # "kernel" => OperatorEntry(e, t)
    BY <1>3 DEF Settled
  <2> HIDE DEF t
  <2>2. ASSUME NEW u
        PROVE  SharedFunction(e, u) => SharedFunction(e, u)'
    BY DEF SharedFunction
  <2>3. ASSUME NEW u
        PROVE  KernelEntry(e, u) => KernelEntry(e, u)'
    BY <2>2 DEF KernelEntry, Grown
  <2>4. ASSUME NEW u
        PROVE  OperatorEntry(e, u) => OperatorEntry(e, u)'
    BY <2>2 DEF OperatorEntry
  <2>5. Whole(f) => Whole(f)'
    BY <1>1 DEF Whole
  <2>6. KernelEntry(e, t) => KernelEntry(e, TableOf(f))'
    BY <1>1, <2>3 DEF t
  <2>7. OperatorEntry(e, t) => OperatorEntry(e, TableOf(f))'
    BY <1>1, <2>4 DEF t
  <2> QED BY <1>3, <2>1, <2>5, <2>6, <2>7 DEF Settled
<1> QED BY <1>2, <1>3

(* The strings of a kernel's signatures.                                   *)
IsPair(p) == p = [s \in 1..2 |-> p[s]]

LEMMA KernelSigs ==
  ASSUME RowsOK, kind = "kernel", NEW f, NEW sigs, sigs = TableOf(f).sigs
  PROVE  /\ Len(sigs) \in Nat /\ DOMAIN sigs = 1..Len(sigs)
         /\ \A n \in DOMAIN sigs : /\ IsPair(sigs[n])
                                   /\ sigs[n][1] \in Texts /\ sigs[n][2] \in Texts
<1>1. CASE View(f) = {}
  <2>1. sigs = <<Default>>
    BY <1>1 DEF TableOf, TranslateEmpty
  <2> QED BY <2>1, DefaultIs DEF IsPair
<1>2. CASE View(f) # {}
  <2>1. sigs = Sigs(View(f)) /\ View(f) \in SUBSET rows
    BY <1>2, ViewAre DEF TableOf, Translate, Sigs
  <2>2. Len(sigs) \in Nat /\ DOMAIN sigs = 1..Len(sigs)
        /\ \A n \in DOMAIN sigs : \E r \in rows : sigs[n] = r.pick
    BY <2>1, SigsAre
  <2>3. \A r \in rows : IsPair(r.pick) /\ r.pick[1] \in Texts /\ r.pick[2] \in Texts
    BY RowsAre DEF IsPair
  <2>4. ASSUME NEW n \in DOMAIN sigs
        PROVE  IsPair(sigs[n]) /\ sigs[n][1] \in Texts /\ sigs[n][2] \in Texts
    BY <2>2, <2>3
  <2> QED BY <2>2, <2>4
<1> QED BY <1>1, <1>2
-----------------------------------------------------------------------------
(* Every step keeps it.                                                    *)

FunctionsKept == \A i \in DOMAIN functions : i \in DOMAIN functions' /\ functions'[i] = functions[i]

LEMMA GeneratedInit == Init => Generated
<1> SUFFICES ASSUME Init PROVE Generated
  OBVIOUS
<1>1. RowsOK /\ todo \in SUBSET Functionals /\ phase # "built" /\ Functionals \ todo = {}
  BY DEF Init, RowsOK
<1>2. StringsOK(strings)
  <2> DEFINE none == <<>>
  <2>1. strings.order = none /\ DOMAIN strings.offset = {} /\ strings.total = 0
    BY DEF Init
  <2>2. none \in Seq(Texts) /\ Len(none) = 0
    OBVIOUS
  <2> HIDE DEF none
  <2>3. Starts(none)[0] = 0
    BY <2>2, SumsAre DEF Starts
  <2> QED BY <2>1, <2>2, <2>3 DEF StringsOK
<1>3. FunctionsOK(functions)
  <2>1. functions \in Seq({})
    BY DEF Init
  <2> QED BY <2>1 DEF FunctionsOK
<1>4. table = [s \in (DOMAIN Targets) \X Slots |-> table[s]] /\ \A f \in todo : table[Slot(f)] = {}
  <2>1. table = [s \in (DOMAIN Targets) \X Slots |-> {}]
    BY DEF Init
  <2> QED BY <1>1, <2>1, SlotIsIn
<1> QED BY <1>1, <1>2, <1>3, <1>4 DEF Generated

(* A step that settles the functional it takes keeps the others settled.   *)
LEMMA StepSettles ==
  ASSUME Generated, phase = "generate", phase' = phase, NEW f \in todo, todo' = todo \ {f},
         kind' = kind, rows' = rows, strict' = strict,
         StringsOK(strings'), Grown(strings, strings'), FunctionsOK(functions'), FunctionsKept,
         NEW entries, table' = [table EXCEPT ![Slot(f)] = entries],
         Settled(f)'
  PROVE  Generated'
<1>1. f \in Functionals /\ Slot(f) \in (DOMAIN Targets) \X Slots
  BY SlotIsIn DEF Generated
<1>2. \A g \in Functionals : g # f => table'[Slot(g)] = table[Slot(g)]
  <2>1. \A g \in Functionals : g # f => Slot(g) # Slot(f)
    BY <1>1, SlotsDiffer
  <2>2. DOMAIN table = (DOMAIN Targets) \X Slots
    BY DEF Generated
  <2> QED BY <2>1, <2>2, SlotIsIn
<1>3. table' = [s \in (DOMAIN Targets) \X Slots |-> table'[s]]
  BY DEF Generated
<1>4. \A g \in todo' : table'[Slot(g)] = {}
  BY <1>2 DEF Generated
<1>5. ASSUME NEW g \in Functionals \ todo'
      PROVE  Settled(g)'
  <2>1. CASE g = f
    BY <2>1
  <2>2. CASE g # f
    <3>1. Settled(g)
      BY <2>2 DEF Generated
    <3> QED BY <1>2, <2>2, <3>1, EntriesKept DEF FunctionsKept
  <2> QED BY <2>1, <2>2
<1>6. RowsOK' /\ todo' \in SUBSET Functionals /\ phase' # "built"
  BY DEF Generated, RowsOK
<1> QED BY <1>3, <1>4, <1>5, <1>6 DEF Generated

LEMMA GrownSame ==
  ASSUME NEW reg
  PROVE  Grown(reg, reg)
  BY DEF Grown

LEMMA SkipKeeps ==
  ASSUME Generated, phase = "generate", NEW f \in todo, todo' = todo \ {f},
         UNCHANGED <<kind, rows, strict>>, Skip(f)
  PROVE  Generated'
<1>1. /\ strings' = strings /\ functions' = functions /\ table' = table /\ phase' = phase
      /\ kind = "kernel" /\ Disabled(f[1], Choice(f)) /\ table[Slot(f)] = {} /\ kind' = kind
  BY DEF Skip, Generated
<1>2. Settled(f)'
  BY <1>1 DEF Settled
<1>3. table' = [table EXCEPT ![Slot(f)] = table[Slot(f)]]
  BY <1>1 DEF Generated
<1>4. StringsOK(strings') /\ Grown(strings, strings') /\ FunctionsOK(functions') /\ FunctionsKept
  BY <1>1, GrownSame DEF Generated, FunctionsKept
<1> QED BY <1>1, <1>2, <1>3, <1>4, StepSettles

LEMMA KernelSettles ==
  ASSUME NEW f, NEW e, NEW t, kind' = "kernel", TableOf(f)' = t, Whole(f)', table'[Slot(f)] = {e},
         ~Disabled(f[1], Choice(f)),
         e.lut = t.lut, e.function \in DOMAIN functions', functions'[e.function].bins = t.bins,
         e.meta = Compact(t.sigs, strings'),
         \A n \in DOMAIN t.sigs : t.sigs[n][1] \in DOMAIN strings'.offset /\ t.sigs[n][2] \in DOMAIN strings'.offset
  PROVE  Settled(f)'
<1>1. SharedFunction(e, t)'
  BY DEF SharedFunction
<1>2. DOMAIN e.meta = DOMAIN t.sigs
      /\ \A n \in DOMAIN t.sigs : \A s \in 1..2 : e.meta[n][s] = strings'.offset[t.sigs[n][s]]
  BY DEF Compact
<1>3. \A n \in DOMAIN t.sigs : \A s \in 1..2 : t.sigs[n][s] \in DOMAIN strings'.offset
  <2>1. \A s \in 1..2 : s = 1 \/ s = 2
    OBVIOUS
  <2> QED BY <2>1
<1>4. KernelEntry(e, t)'
  BY <1>1, <1>2, <1>3 DEF KernelEntry
<1> QED BY <1>4 DEF Settled

LEMMA OperatorSettles ==
  ASSUME NEW f, NEW e, NEW t, kind' = "op", TableOf(f)' = t, table'[Slot(f)] = {e},
         Trivial(t) => e = [backend |-> CHOOSE b \in Range(t.lut) : TRUE],
         ~Trivial(t) => /\ DOMAIN e = {"lut", "function"} /\ e.lut = t.lut
                        /\ e.function \in DOMAIN functions' /\ functions'[e.function].bins = t.bins
  PROVE  Settled(f)'
<1>1. OperatorEntry(e, t)'
  BY DEF OperatorEntry, SharedFunction
<1> QED BY <1>1 DEF Settled

LEMMA AutotuneKeeps ==
  ASSUME Generated, phase = "generate", NEW f \in todo, todo' = todo \ {f},
         UNCHANGED <<kind, rows, strict>>, Autotune(f)
  PROVE  Generated'
<1> DEFINE t == TableOf(f)
           source == Source(Len(Gpus(f)), t.bins)
           raises == View(f) # {} /\ ~Complete(f, t) /\ strict
<1>1. kind = "kernel" /\ ~Disabled(f[1], Choice(f)) /\ kind' = kind /\ rows' = rows /\ strict' = strict
  BY DEF Autotune
<1>2. CASE raises
  <2>1. phase' = "raised" /\ strings' = strings /\ functions' = functions /\ table' = table
    BY <1>2 DEF Autotune
  <2>2. todo' \in SUBSET todo
    OBVIOUS
  <2> QED BY <1>1, <2>1, <2>2 DEF Generated, RowsOK
<1>3. CASE ~raises
  <2> DEFINE e == [lut |-> t.lut, function |-> Place(source, functions'), meta |-> Compact(t.sigs, strings')]
  <2>1. /\ strings' = RegisterSigs(strings, t.sigs) /\ functions' = RegisterFunction(source, t.bins)
        /\ table' = [table EXCEPT ![Slot(f)] = {e}] /\ phase' = phase
    BY <1>3 DEF Autotune
  <2>2. Len(t.sigs) \in Nat /\ DOMAIN t.sigs = 1..Len(t.sigs)
        /\ \A n \in DOMAIN t.sigs : t.sigs[n][1] \in Texts /\ t.sigs[n][2] \in Texts
    BY <1>1, KernelSigs DEF Generated
  <2>3. /\ StringsOK(strings') /\ Grown(strings, strings')
        /\ \A n \in DOMAIN t.sigs : t.sigs[n][1] \in DOMAIN strings'.offset /\ t.sigs[n][2] \in DOMAIN strings'.offset
    <3> DEFINE sigs == t.sigs
    <3> HIDE DEF sigs
    <3>1. StringsOK(strings) /\ Len(sigs) \in Nat /\ DOMAIN sigs = 1..Len(sigs)
          /\ \A n \in 1..Len(sigs) : sigs[n][1] \in Texts /\ sigs[n][2] \in Texts
      BY <2>2 DEF sigs, Generated
    <3>2. /\ StringsOK(RegisterSigs(strings, sigs)) /\ Grown(strings, RegisterSigs(strings, sigs))
          /\ \A n \in 1..Len(sigs) : /\ sigs[n][1] \in DOMAIN RegisterSigs(strings, sigs).offset
                                     /\ sigs[n][2] \in DOMAIN RegisterSigs(strings, sigs).offset
      BY <3>1, RegisterSigsOK
    <3> QED BY <2>1, <3>1, <3>2 DEF sigs
  <2>4. FunctionsOK(functions') /\ FunctionsKept
        /\ Place(source, functions') \in DOMAIN functions' /\ functions'[Place(source, functions')].bins = t.bins
    BY <2>1, FunctionIs DEF Generated, FunctionsKept
  <2>5. table'[Slot(f)] = {e}
    <3>1. Slot(f) \in DOMAIN table
      BY SlotIsIn DEF Generated
    <3> QED BY <2>1, <3>1
  <2>6. e.lut = t.lut /\ e.function = Place(source, functions') /\ e.meta = Compact(t.sigs, strings')
    OBVIOUS
  <2>7. Whole(f)
    BY <1>3 DEF Complete, Whole
  <2>8. TableOf(f)' = t /\ Whole(f)'
    BY <1>1, <2>7, TablesKept DEF Whole
  <2> HIDE DEF e, t, source
  <2>9. Settled(f)'
    BY <1>1, <2>3, <2>4, <2>5, <2>6, <2>8, KernelSettles
  <2> QED BY <1>1, <2>1, <2>3, <2>4, <2>9, StepSettles
<1> QED BY <1>2, <1>3

LEMMA OptuneKeeps ==
  ASSUME Generated, phase = "generate", NEW f \in todo, todo' = todo \ {f},
         UNCHANGED <<kind, rows, strict>>, Optune(f)
  PROVE  Generated'
<1> DEFINE t == TableOf(f)
           source == Source(Len(Gpus(f)), t.bins)
           e == IF Trivial(t) THEN [backend |-> CHOOSE b \in Range(t.lut) : TRUE]
                ELSE [lut |-> t.lut, function |-> Place(source, functions')]
<1>1. /\ kind = "op" /\ kind' = kind /\ rows' = rows /\ strict' = strict
      /\ functions' = IF Trivial(t) THEN functions ELSE RegisterFunction(source, t.bins)
      /\ table' = [table EXCEPT ![Slot(f)] = {e}]
      /\ strings' = strings /\ phase' = phase
  BY DEF Optune
<1>2. /\ FunctionsOK(functions') /\ FunctionsKept
      /\ ~Trivial(t) => /\ Place(source, functions') \in DOMAIN functions'
                        /\ functions'[Place(source, functions')].bins = t.bins
  <2>1. CASE Trivial(t)
    BY <1>1, <2>1 DEF Generated, FunctionsKept
  <2>2. CASE ~Trivial(t)
    <3>1. functions' = RegisterFunction(source, t.bins)
      BY <1>1, <2>2
    <3> QED BY <2>2, <3>1, FunctionIs DEF Generated, FunctionsKept
  <2> QED BY <2>1, <2>2
<1>3. table'[Slot(f)] = {e}
  <2>1. Slot(f) \in DOMAIN table
    BY SlotIsIn DEF Generated
  <2> QED BY <1>1, <2>1
<1>4. /\ Trivial(t) => e = [backend |-> CHOOSE b \in Range(t.lut) : TRUE]
      /\ ~Trivial(t) => /\ DOMAIN e = {"lut", "function"} /\ e.lut = t.lut
                        /\ e.function = Place(source, functions')
  <2> HIDE DEF t
  <2> QED OBVIOUS
<1>5. TableOf(f)' = t
  BY <1>1, TablesKept
<1>6. StringsOK(strings') /\ Grown(strings, strings')
  BY <1>1, GrownSame DEF Generated
<1> HIDE DEF e, t, source
<1>7. Settled(f)'
  BY <1>1, <1>2, <1>3, <1>4, <1>5, OperatorSettles
<1> QED BY <1>1, <1>2, <1>6, <1>7, StepSettles

(* The generator's variables apart from the answer.                        *)
Made == <<kind, rows, strict, todo, strings, functions, table>>

LEMMA UnmovedKeeps ==
  ASSUME Generated, UNCHANGED Made, phase' = phase \/ (phase = "generate" /\ todo = {})
  PROVE  Generated'
<1>1. /\ kind' = kind /\ rows' = rows /\ strict' = strict /\ todo' = todo
      /\ strings' = strings /\ functions' = functions /\ table' = table
  BY DEF Made
<1>2. RowsOK' /\ StringsOK(strings') /\ FunctionsOK(functions')
  BY <1>1 DEF Generated, RowsOK
<1>3. ASSUME NEW f \in Functionals \ todo, phase # "raised"
      PROVE  Settled(f)'
  <2>1. Settled(f)
    BY <1>3 DEF Generated
  <2>2. \A i \in DOMAIN functions : i \in DOMAIN functions' /\ functions'[i] = functions[i]
    BY <1>1
  <2>3. Grown(strings, strings')
    BY <1>1, GrownSame
  <2> QED BY <1>1, <2>1, <2>2, <2>3, EntriesKept
<1>4. phase' # "raised" => phase # "raised"
  BY <1>1
<1>5. phase' = "built" => todo' = {}
  BY <1>1 DEF Generated
<1> QED BY <1>1, <1>2, <1>3, <1>4, <1>5 DEF Generated
-----------------------------------------------------------------------------
(* What a call makes of its entry.                                         *)

(* An empty table has one place, whatever the lengths.                     *)
LEMMA EmptyIs ==
  ASSUME NEW f \in Functionals, View(f) = {}, NEW t, t = TableOf(f)
  PROVE  /\ \A i \in DOMAIN Gpus(f) : \A q, k \in Int :
              LET x == <<i, Bin(t.bins[1], q), Bin(t.bins[2], k)>>
              IN  x \in DOMAIN t.lut /\ t.lut[x] = IF kind = "op" THEN 0 ELSE 1
         /\ t.sigs = <<IF kind = "op" THEN 0 ELSE Default>>
         /\ Range(t.lut) = {IF kind = "op" THEN 0 ELSE 1}
<1> DEFINE v == IF kind = "op" THEN 0 ELSE 1
           D == (DOMAIN Gpus(f)) \X {1} \X {1}
           b == <<0>>
<1>1. t = [lut |-> [x \in D |-> v], sigs |-> <<IF kind = "op" THEN 0 ELSE Default>>, bins |-> <<b, b>>]
  BY DEF TableOf, TranslateEmpty
<1>2. ASSUME NEW x \in Int
      PROVE  Bin(b, x) = 1
  <2>1. DOMAIN b = {1} /\ Len(b) = 1 /\ b[1] = 0
    OBVIOUS
  <2> HIDE DEF b
  <2>2. CASE x <= 0
    <3> DEFINE S == {j \in DOMAIN b : x <= b[j]}
    <3>1. S = {1}
      BY <2>1, <2>2
    <3>2. Bin(b, x) = Min(S)
      BY <2>1, <2>2 DEF Bin
    <3> HIDE DEF S
    <3>3. Min(S) = 1
      BY <3>1 DEF Min
    <3> QED BY <3>2, <3>3
  <2>3. CASE ~(x <= 0)
    BY <2>1, <2>3 DEF Bin
  <2> QED BY <2>2, <2>3
<1> HIDE DEF b, v
<1>3. t.bins[1] = b /\ t.bins[2] = b /\ t.lut = [x \in D |-> v] /\ t.sigs = <<IF kind = "op" THEN 0 ELSE Default>>
  BY <1>1
<1>4. ASSUME NEW i \in DOMAIN Gpus(f), NEW q \in Int, NEW k \in Int
      PROVE  /\ <<i, Bin(b, q), Bin(b, k)>> \in DOMAIN t.lut
             /\ t.lut[<<i, Bin(b, q), Bin(b, k)>>] = v
  <2>1. <<i, Bin(b, q), Bin(b, k)>> \in D
    BY <1>2
  <2> QED BY <1>3, <2>1
<1>5. Range(t.lut) = {v}
  <2>1. <<1, 1, 1>> \in D
    BY GpusAre
  <2>2. DOMAIN t.lut = D /\ \A x \in D : t.lut[x] = v
    BY <1>3
  <2> HIDE DEF D
  <2> QED BY <2>1, <2>2 DEF Range
<1> QED BY <1>3, <1>4, <1>5 DEF v

LEMMA TextsAnswer ==
  ASSUME StringsOK(strings), NEW e, NEW t, KernelEntry(e, t), NEW n \in DOMAIN t.sigs,
         NEW p, p = t.sigs[n], IsPair(p)
  PROVE  n \in DOMAIN e.meta /\ [s \in 1..2 |-> StringAt(e.meta[n][s])] = p
<1>1. n \in DOMAIN e.meta /\ \A s \in 1..2 : p[s] \in DOMAIN strings.offset /\ e.meta[n][s] = strings.offset[p[s]]
  BY DEF KernelEntry
<1>2. \A s \in 1..2 : StringAt(e.meta[n][s]) = p[s]
  BY <1>1, StringIs
<1>3. [s \in 1..2 |-> StringAt(e.meta[n][s])] = [s \in 1..2 |-> p[s]]
  BY <1>2
<1> QED BY <1>1, <1>3 DEF IsPair

LEMMA KernelAnswer ==
  ASSUME Generated, kind = "kernel", NEW f \in Functionals, NEW call \in Calls,
         Choice(f) = Understood(call.args),
         NEW i \in DOMAIN Gpus(f), call.gpu = Targets[f[1]].gpus[i],
         NEW e, KernelEntry(e, TableOf(f)), Whole(f)
  PROVE  /\ TakeVariant(e, i, call) \in Expected(call, f[1])
         /\ strict => TakeVariant(e, i, call) # Failure("SymbolNotFound")
<1> DEFINE t == TableOf(f)
           x == <<i, Bin(t.bins[1], call.q), Bin(t.bins[2], call.k)>>
           n == t.lut[x]
           E == Expected(call, f[1])
           a == TakeVariant(e, i, call)
<1>1. call.q \in Int /\ call.k \in Int
  BY LookupTableAssumption
<1>2. Lookup(e, i, call) = n
  BY DEF Lookup, KernelEntry, SharedFunction
<1>3. /\ a = IF n \notin DOMAIN e.meta THEN Failure("SymbolNotFound")
             ELSE Found([s \in 1..2 |-> StringAt(e.meta[n][s])])
      /\ DOMAIN e.meta = DOMAIN t.sigs
  BY <1>2 DEF TakeVariant, KernelEntry
<1>4. ASSUME n \in DOMAIN t.sigs
      PROVE  a = Found(t.sigs[n]) /\ a # Failure("SymbolNotFound")
  <2>0. RowsOK /\ StringsOK(strings)
    BY DEF Generated
  <2>1. \A j \in DOMAIN t.sigs : IsPair(t.sigs[j])
    BY <2>0, KernelSigs
  <2>2. [s \in 1..2 |-> StringAt(e.meta[n][s])] = t.sigs[n]
    <3> DEFINE p == t.sigs[n]
    <3>1. IsPair(p) /\ p = t.sigs[n]
      BY <1>4, <2>1
    <3> HIDE DEF n, p, t
    <3>2. [s \in 1..2 |-> StringAt(e.meta[n][s])] = p
      BY <1>4, <2>0, <3>1, TextsAnswer DEF t
    <3> QED BY <3>1, <3>2
  <2>3. a = Found(t.sigs[n])
    BY <1>3, <1>4, <2>2
  <2>4. \A p : Found(p) # Failure("SymbolNotFound")
    BY DEF Found, Failure
  <2> QED BY <2>3, <2>4
<1>5. CASE View(f) = {}
  <2>1. n = 1 /\ t.sigs = <<Default>>
    BY <1>1, <1>5, EmptyIs
  <2>2. n \in DOMAIN t.sigs /\ t.sigs[n] = Default
    BY <2>1
  <2>3. E = {Found(Default)}
    <3>1. Usable(f[1], call.args) = {}
      BY <1>5, ViewIs
    <3> QED BY <3>1 DEF Expected
  <2> QED BY <1>4, <2>2, <2>3
<1>6. CASE View(f) # {}
  <2> DEFINE df == View(f)
  <2>1. RowsOK /\ df \in SUBSET rows /\ t = Translate(f, df)
    BY <1>6, ViewAre DEF TableOf, Generated
  <2>2. x \in DOMAIN t.lut /\ n = ServedCell(f, df, i, call) /\ t.sigs = Sigs(df)
    BY <1>1, <1>6, <2>1, TranslateIs DEF ServedCell
  <2>3. /\ n = -1 => Failure("SymbolNotFound") \in E
        /\ n # -1 => \E r \in df : n = SigNum(r, Sigs(df)) /\ Found(r.pick) \in E
    <3>1. /\ n = -1 => (IF kind = "op" THEN Found(0) ELSE Failure("SymbolNotFound")) \in E
          /\ n # -1 => \E r \in df : n = Stored(r, Sigs(df)) /\ Found(r.pick) \in E
      <4> HIDE DEF n
      <4> QED BY <1>6, <2>1, <2>2, ServedCellIs
    <3> QED BY <3>1 DEF Stored
  <2>4. strict => n # -1
    BY <1>6, <2>2 DEF Whole, Range
  <2>5. DOMAIN Sigs(df) = 1..Len(Sigs(df)) /\ Len(Sigs(df)) \in Nat
        /\ \A r \in df : SigNum(r, Sigs(df)) \in DOMAIN Sigs(df) /\ Sigs(df)[SigNum(r, Sigs(df))] = r.pick
    BY <2>1, SigsAre
  <2> HIDE DEF n, E, a, df, t
  <2>6. CASE n = -1
    BY <1>3, <2>2, <2>3, <2>4, <2>5, <2>6 DEF a, E
  <2>7. CASE n # -1
    <3>1. PICK r \in df : n = SigNum(r, Sigs(df)) /\ Found(r.pick) \in E
      BY <2>3, <2>7
    <3>2. n \in DOMAIN t.sigs /\ t.sigs[n] = r.pick
      BY <2>2, <2>5, <3>1
    <3> QED BY <1>4, <3>1, <3>2 DEF a, E
  <2> QED BY <2>6, <2>7
<1> QED BY <1>5, <1>6
LEMMA AtMostOne ==
  ASSUME NEW S, IsFiniteSet(S), Cardinality(S) <= 1, NEW x \in S, NEW y \in S
  PROVE  x = y
<1> SUFFICES ASSUME x # y PROVE FALSE
  OBVIOUS
<1>1. IsFiniteSet({x}) /\ Cardinality({x}) = 1
  BY FS_Singleton
<1>2. {x} \in SUBSET S /\ {x} # S
  OBVIOUS
<1>3. Cardinality({x}) <= Cardinality(S) /\ Cardinality({x}) # Cardinality(S)
  BY <1>2, FS_Subset
<1>4. Cardinality(S) \in Nat
  BY FS_CardinalityType
<1> QED BY <1>1, <1>3, <1>4

(* A table has finitely many places.                                       *)
LEMMA LutFinite ==
  ASSUME RowsOK, NEW f \in Functionals, View(f) # {}, NEW t, t = TableOf(f)
  PROVE  IsFiniteSet(Range(t.lut))
<1> DEFINE df == View(f)
           b1 == Bins(Lengths(df)[1])
           b2 == Bins(Lengths(df)[2])
           D == (DOMAIN Gpus(f)) \X (DOMAIN b1) \X (DOMAIN b2)
<1>1. df \in SUBSET rows /\ t = Translate(f, df)
  BY ViewAre DEF TableOf
<1>2. DOMAIN t.lut = D
  BY <1>1 DEF Translate, Lengths
<1>3. ASSUME NEW d \in 1..2
      PROVE  IsFiniteSet(DOMAIN Bins(Lengths(df)[d]))
  <2> DEFINE n == Cardinality(Lengths(df)[d])
  <2>1. n \in Nat /\ Bins(Lengths(df)[d]) \in [1..n -> Lengths(df)[d]]
    BY <1>1, LengthsAre, BinsAre
  <2>2. DOMAIN Bins(Lengths(df)[d]) = 1..n
    BY <2>1
  <2> HIDE DEF n
  <2> QED BY <2>1, <2>2, FS_Interval
<1>4. IsFiniteSet(DOMAIN Gpus(f))
  <2> DEFINE n == Len(Targets[f[1]].gpus)
  <2>1. n \in Nat /\ DOMAIN Gpus(f) = 1..n
    BY GpusAre, LookupTableAssumption
  <2> QED BY <2>1, FS_Interval
<1>5. IsFiniteSet(D)
  <2>1. IsFiniteSet(DOMAIN b1) /\ IsFiniteSet(DOMAIN b2)
    BY <1>3
  <2> DEFINE A == DOMAIN Gpus(f)
             B == DOMAIN b1
             C == DOMAIN b2
             P == (A \X B) \X C
             g == [p \in P |-> <<p[1][1], p[1][2], p[2]>>]
  <2>2. IsFiniteSet(P)
    <3> HIDE DEF A, B, C
    <3> QED BY <1>4, <2>1, FS_Product DEF A, B, C
  <2>3. g \in [P -> A \X B \X C]
    OBVIOUS
  <2>4. \A x \in A \X B \X C : \E p \in P : g[p] = x
    <3> SUFFICES ASSUME NEW x \in A \X B \X C
                 PROVE  \E p \in P : g[p] = x
      OBVIOUS
    <3>1. <<<<x[1], x[2]>>, x[3]>> \in P
      OBVIOUS
    <3>2. g[<<<<x[1], x[2]>>, x[3]>>] = x
      BY <3>1
    <3> QED BY <3>1, <3>2
  <2> HIDE DEF g, P
  <2>5. IsFiniteSet(A \X B \X C)
    <3> DEFINE T == A \X B \X C
    <3>1. g \in [P -> T] /\ \A x \in T : \E p \in P : g[p] = x
      BY <2>3, <2>4
    <3> HIDE DEF T
    <3>2. IsFiniteSet(T)
      BY <2>2, <3>1, ImageIsFinite
    <3> QED BY <3>2 DEF T
  <2> QED BY <2>5
<1> DEFINE R == Range(t.lut)
           h == [x \in D |-> t.lut[x]]
<1>6. h \in [D -> R] /\ \A y \in R : \E x \in D : h[x] = y
  BY <1>2 DEF Range
<1> HIDE DEF h, D
<1>7. IsFiniteSet(R)
  <2> HIDE DEF R
  <2> QED BY <1>5, <1>6, ImageIsFinite
<1> QED BY <1>7

LEMMA OperatorAnswer ==
  ASSUME Generated, kind = "op", NEW f \in Functionals, NEW call \in Calls,
         Choice(f) = Understood(call.args),
         NEW i \in DOMAIN Gpus(f), call.gpu = Targets[f[1]].gpus[i],
         NEW e, OperatorEntry(e, TableOf(f))
  PROVE  TakeBackend(e, i, call) \in Expected(call, f[1])
<1> DEFINE t == TableOf(f)
           x == <<i, Bin(t.bins[1], call.q), Bin(t.bins[2], call.k)>>
           n == t.lut[x]
           E == Expected(call, f[1])
           a == TakeBackend(e, i, call)
<1>1. call.q \in Int /\ call.k \in Int /\ RowsOK
  BY LookupTableAssumption DEF Generated
<1>2. CASE View(f) = {}
  <2>1. Range(t.lut) = {0}
    BY <1>2, EmptyIs
  <2>2. Trivial(t)
    BY <2>1, FS_Singleton DEF Trivial
  <2>3. e = [backend |-> 0]
    BY <2>1, <2>2 DEF OperatorEntry
  <2>4. a = Found(0)
    BY <2>3 DEF TakeBackend
  <2>5. Usable(f[1], call.args) = {}
    BY <1>2, ViewIs
  <2> QED BY <2>4, <2>5 DEF Expected
<1>3. CASE View(f) # {}
  <2> DEFINE df == View(f)
  <2>1. df \in SUBSET rows /\ t = Translate(f, df)
    BY <1>3, ViewAre DEF TableOf
  <2>2. x \in DOMAIN t.lut /\ n = ServedCell(f, df, i, call)
    BY <1>1, <1>3, <2>1, TranslateIs DEF ServedCell
  <2>3. /\ n = -1 => Found(0) \in E
        /\ n # -1 => \E r \in df : n = r.pick /\ Found(r.pick) \in E
    <3>1. /\ n = -1 => (IF kind = "op" THEN Found(0) ELSE Failure("SymbolNotFound")) \in E
          /\ n # -1 => \E r \in df : n = Stored(r, Sigs(df)) /\ Found(r.pick) \in E
      <4> HIDE DEF n
      <4> QED BY <1>1, <1>3, <2>1, <2>2, ServedCellIs
    <3> QED BY <3>1 DEF Stored
  <2>4. n = -1 \/ n \in Nat
    BY <1>1, <1>3, <2>2, BackendsOnly
  <2>5. CASE Trivial(t)
    <3> DEFINE v == CHOOSE b \in Range(t.lut) : TRUE
    <3>1. PICK y \in DOMAIN t.lut : t.lut[y] \in Nat
      BY <1>1, <1>3, BackendsOnly
    <3>2. t.lut[y] \in Range(t.lut) /\ n \in Range(t.lut)
      BY <2>2 DEF Range
    <3>3. v \in Range(t.lut)
      BY <3>2
    <3>4. IsFiniteSet(Range(t.lut)) /\ Cardinality(Range(t.lut)) <= 1
      BY <1>1, <1>3, <2>5, LutFinite DEF Trivial
    <3>5. v = n /\ n \in Nat
      <4> HIDE DEF n, v, t
      <4> QED BY <3>1, <3>2, <3>3, <3>4, AtMostOne
    <3>6. e = [backend |-> v]
      BY <2>5 DEF OperatorEntry
    <3> HIDE DEF v, n
    <3>7. a = Found(n)
      BY <3>5, <3>6 DEF TakeBackend
    <3> QED BY <2>3, <3>5, <3>7
  <2>6. CASE ~Trivial(t)
    <3>1. "backend" \notin DOMAIN e /\ Lookup(e, i, call) = n
      BY <2>6 DEF OperatorEntry, SharedFunction, Lookup
    <3>2. a = Found(Max({0, n}))
      BY <3>1 DEF TakeBackend
    <3> HIDE DEF n, a, E
    <3>3. Max({0, n}) = IF n = -1 THEN 0 ELSE n
      <4> DEFINE m == IF n = -1 THEN 0 ELSE n
      <4>1. m \in {0, n} /\ \A y \in {0, n} : m >= y
        BY <2>4
      <4>2. \A z \in {0, n} : (\A y \in {0, n} : z >= y) => z = m
        BY <2>4
      <4> HIDE DEF m
      <4>3. Max({0, n}) = m
        BY <4>1, <4>2 DEF Max
      <4> QED BY <4>3 DEF m
    <3> QED BY <2>3, <3>2, <3>3 DEF E, a
  <2> QED BY <2>5, <2>6
<1> QED BY <1>2, <1>3
-----------------------------------------------------------------------------
(* A call gets what the rows say.                                          *)

Built(call) == {a \in DOMAIN Targets : call.gpu \in Range(Targets[a].gpus)}

Right(call, result) ==
  CASE Built(call) = {} -> result = Failure("NoBinaryForGpu")
    [] Built(call) # {} /\ ~Supported(call.args) -> result = Failure("NotSupported")
    [] OTHER -> \A a \in Built(call) :
         IF kind = "kernel" /\ Disabled(a, Understood(call.args))
         THEN result = Failure("ProfilerNotInitialized")
         ELSE result \in Expected(call, a)

LEMMA ArchModIs ==
  ASSUME NEW call
  PROVE  /\ ArchMod(call.gpu) = {} <=> Built(call) = {}
         /\ \A x \in ArchMod(call.gpu) :
              /\ x[1] \in Built(call) /\ x[2] \in DOMAIN Targets[x[1]].gpus
              /\ Targets[x[1]].gpus[x[2]] = call.gpu
              /\ \A a \in Built(call) : a = x[1]
<1>1. ASSUME NEW x \in ArchMod(call.gpu)
      PROVE  /\ x[1] \in DOMAIN Targets /\ x[2] \in DOMAIN Targets[x[1]].gpus
             /\ Targets[x[1]].gpus[x[2]] = call.gpu
  BY DEF ArchMod
<1>2. ASSUME NEW a \in DOMAIN Targets, NEW i \in DOMAIN Targets[a].gpus, Targets[a].gpus[i] = call.gpu
      PROVE  <<a, i>> \in ArchMod(call.gpu)
  BY <1>2 DEF ArchMod
<1>3. \A a \in Built(call) : a \in DOMAIN Targets /\ \E i \in DOMAIN Targets[a].gpus : Targets[a].gpus[i] = call.gpu
  BY DEF Built, Range
<1>4. \A x \in ArchMod(call.gpu) : x[1] \in Built(call)
  BY <1>1 DEF Built, Range
<1>5. ASSUME NEW x \in ArchMod(call.gpu), NEW a \in Built(call)
      PROVE  a = x[1]
  <2>1. PICK i \in DOMAIN Targets[a].gpus : Targets[a].gpus[i] = call.gpu
    BY <1>3
  <2> QED BY <1>1, <1>3, <2>1, LookupTableAssumption
<1> QED BY <1>1, <1>2, <1>3, <1>4, <1>5

LEMMA OptimalRight ==
  ASSUME Generated, phase = "built", NEW call \in Calls, NEW result, result = Optimal(call)
  PROVE  /\ Right(call, result)
         /\ strict /\ kind = "kernel" => result # Failure("SymbolNotFound")
<1> DEFINE number == CallNumber(call.args)
           am == CHOOSE x \in ArchMod(call.gpu) : TRUE
           a == am[1]
           f == <<a, Chosen(call.args)>>
           e == CHOOSE x \in table[<<a, number>>] : TRUE
<1>1. result = IF ArchMod(call.gpu) = {} THEN Failure("NoBinaryForGpu")
               ELSE IF number < 0 THEN Failure("NotSupported")
               ELSE IF table[<<a, number>>] = {} THEN Failure("ProfilerNotInitialized")
               ELSE IF kind = "op" THEN TakeBackend(e, am[2], call)
               ELSE TakeVariant(e, am[2], call)
  BY DEF Optimal
<1> HIDE DEF number, am
<1>2. kind \in {"kernel", "op"} /\ \A g \in Functionals : Settled(g)
  BY RowsAre DEF Generated
<1>3. /\ Failure("NoBinaryForGpu") # Failure("SymbolNotFound")
      /\ Failure("NotSupported") # Failure("SymbolNotFound")
      /\ Failure("ProfilerNotInitialized") # Failure("SymbolNotFound")
  <2>1. \A w : Failure(w).failure = w
    BY DEF Failure
  <2> QED BY <2>1
<1>4. CASE Built(call) = {}
  <2>1. result = Failure("NoBinaryForGpu")
    BY <1>1, <1>4, ArchModIs
  <2> QED BY <1>3, <1>4, <2>1 DEF Right
<1>5. CASE Built(call) # {} /\ ~Supported(call.args)
  <2>1. number < 0
    BY <1>5, CallIs DEF number
  <2>2. result = Failure("NotSupported")
    BY <1>1, <1>5, <2>1, ArchModIs
  <2> QED BY <1>3, <1>5, <2>2 DEF Right
<1>6. CASE Built(call) # {} /\ Supported(call.args)
  <2>1. am \in ArchMod(call.gpu)
    BY <1>6, ArchModIs DEF am
  <2>2. /\ a \in Built(call) /\ am[2] \in DOMAIN Targets[a].gpus /\ Targets[a].gpus[am[2]] = call.gpu
        /\ \A b \in Built(call) : b = a
    BY <2>1, ArchModIs
  <2>3. Chosen(call.args) \in Nths /\ number = GodelNumber(Chosen(call.args)) /\ ~(number < 0)
        /\ \A b : Choice(<<b, Chosen(call.args)>>) = Understood(call.args)
    BY <1>6, CallIs, CalledNumber DEF number
  <2> HIDE DEF a
  <2>4. f \in Functionals /\ f[1] = a /\ Slot(f) = <<a, number>> /\ Choice(f) = Understood(call.args)
    <3>1. a \in DOMAIN Targets
      BY <2>2 DEF Built
    <3> QED BY <2>3, <3>1 DEF Functionals, Slot
  <2> HIDE DEF f
  <2>5. am[2] \in DOMAIN Gpus(f) /\ call.gpu = Targets[f[1]].gpus[am[2]]
    BY <2>2, <2>4, GpusAre
  <2>6. Settled(f)
    BY <1>2, <2>4
  <2>7. CASE kind = "kernel" /\ Disabled(a, Understood(call.args))
    <3>1. table[<<a, number>>] = {}
      BY <2>4, <2>6, <2>7 DEF Settled
    <3>2. result = Failure("ProfilerNotInitialized")
      BY <1>1, <2>1, <2>3, <3>1
    <3> QED BY <1>3, <1>6, <2>2, <2>7, <3>2 DEF Right
  <2>8. CASE ~(kind = "kernel" /\ Disabled(a, Understood(call.args)))
    <3>1. PICK entry : /\ table[<<a, number>>] = {entry}
                       /\ kind = "kernel" => KernelEntry(entry, TableOf(f)) /\ Whole(f)
                       /\ kind # "kernel" => OperatorEntry(entry, TableOf(f))
      BY <2>4, <2>6, <2>8 DEF Settled
    <3>2. e = entry
      BY <3>1
    <3> HIDE DEF e
    <3>3. result = IF kind = "op" THEN TakeBackend(entry, am[2], call) ELSE TakeVariant(entry, am[2], call)
      BY <1>1, <2>1, <2>3, <3>1, <3>2
    <3>4. result \in Expected(call, a) /\ (strict /\ kind = "kernel" => result # Failure("SymbolNotFound"))
      <4>1. CASE kind = "op"
        BY <2>4, <2>5, <3>1, <3>3, <4>1, OperatorAnswer
      <4>2. CASE kind = "kernel"
        BY <2>4, <2>5, <3>1, <3>3, <4>2, KernelAnswer
      <4> QED BY <1>2, <4>1, <4>2
    <3> QED BY <1>6, <2>2, <2>8, <3>4 DEF Right
  <2> QED BY <2>7, <2>8
<1> QED BY <1>4, <1>5, <1>6

LEMMA RightKept ==
  ASSUME kind' = kind, rows' = rows, NEW call, NEW result
  PROVE  Right(call, result) => Right(call, result)'
<1>1. ASSUME NEW a, NEW args
      PROVE  Recorded(a, args)' = Recorded(a, args)
  BY DEF Recorded
<1>2. ASSUME NEW a, NEW args
      PROVE  Usable(a, args)' = Usable(a, args)
  BY <1>1 DEF Usable
<1>3. ASSUME NEW a, NEW gpu
      PROVE  Measured(call, a, gpu)' = Measured(call, a, gpu)
  <2>1. Usable(a, call.args)' = Usable(a, call.args)
    BY <1>2
  <2> QED BY <2>1 DEF Measured
<1>4. ASSUME NEW a
      PROVE  Expected(call, a)' = Expected(call, a)
  BY <1>2, <1>3 DEF Expected
<1> QED BY <1>4 DEF Right
-----------------------------------------------------------------------------
(* Theorems about the lookup.                                              *)

Answered ==
  answer # None => /\ phase = "built"
                   /\ Right(answer.call, answer.result)
                   /\ strict /\ kind = "kernel" => answer.result # Failure("SymbolNotFound")

LookupInv == Generated /\ Answered

LEMMA LookupInit == Init => LookupInv
  BY GeneratedInit DEF Init, LookupInv, Answered

LEMMA GenerateKeeps ==
  ASSUME LookupInv, Generate
  PROVE  LookupInv'
<1>1. PICK f \in todo : todo' = todo \ {f} /\ (Skip(f) \/ Autotune(f) \/ Optune(f))
  BY DEF Generate
<1>2. phase = "generate" /\ UNCHANGED <<kind, rows, strict>> /\ answer' = answer
  BY DEF Generate
<1>3. Generated'
  BY <1>1, <1>2, SkipKeeps, AutotuneKeeps, OptuneKeeps DEF LookupInv
<1>4. Answered'
  BY <1>2 DEF LookupInv, Answered
<1> QED BY <1>3, <1>4 DEF LookupInv

LEMMA WriteKeeps ==
  ASSUME LookupInv, Write
  PROVE  LookupInv'
<1>1. Generated'
  BY UnmovedKeeps DEF Write, Made, LookupInv
<1>2. Answered'
  BY DEF Write, LookupInv, Answered
<1> QED BY <1>1, <1>2 DEF LookupInv

LEMMA CallKeeps ==
  ASSUME LookupInv, NEW call \in Calls, Call(call)
  PROVE  LookupInv'
<1>1. /\ phase = "built" /\ phase' = phase /\ kind' = kind /\ rows' = rows /\ strict' = strict
      /\ UNCHANGED Made /\ answer'.call = call /\ answer'.result = Optimal(call)
  BY DEF Call, Made
<1>2. Generated'
  BY <1>1, UnmovedKeeps DEF LookupInv
<1>3. PICK result : result = Optimal(call)
  OBVIOUS
<1>4. Right(call, result) /\ (strict /\ kind = "kernel" => result # Failure("SymbolNotFound"))
  BY <1>1, <1>3, OptimalRight DEF LookupInv
<1>5. Right(call, result)'
  BY <1>1, <1>4, RightKept
<1>6. Answered'
  BY <1>1, <1>3, <1>4, <1>5 DEF Answered
<1> QED BY <1>2, <1>6 DEF LookupInv

LEMMA StutterKeeps ==
  ASSUME LookupInv, UNCHANGED vars
  PROVE  LookupInv'
<1>1. UNCHANGED Made /\ phase' = phase /\ answer' = answer /\ kind' = kind /\ rows' = rows /\ strict' = strict
  BY DEF vars, Made
<1>2. Generated'
  BY <1>1, UnmovedKeeps DEF LookupInv
<1>3. Answered'
  BY <1>1, RightKept DEF LookupInv, Answered
<1> QED BY <1>2, <1>3 DEF LookupInv

LEMMA LookupStep == LookupInv /\ [Next]_vars => LookupInv'
  BY GenerateKeeps, WriteKeeps, CallKeeps, StutterKeeps DEF Next

(* A step of the operator is one of the lookup, or none.                   *)
LEMMA LaunchIsLookup == [LaunchNext]_<<vars, launchVars>> => [Next]_vars
<1> SUFFICES ASSUME [LaunchNext]_<<vars, launchVars>> PROVE [Next]_vars
  OBVIOUS
<1>1. CASE Generate \/ Write \/ \E call \in Calls : Call(call)
  BY <1>1 DEF Next
<1>2. CASE \E call \in Calls, in \in Inputs, opt \in Options : attn_bwd(call, in, opt)
  BY <1>2 DEF Next, attn_bwd
<1>3. CASE LookupKernel \/ LookupAffine \/ LaunchKernel \/ LaunchAffine
  BY <1>3 DEF LookupKernel, LookupAffine, LaunchKernel, LaunchAffine
<1>4. CASE UNCHANGED <<vars, launchVars>>
  BY <1>4
<1> QED BY <1>1, <1>2, <1>3, <1>4 DEF LaunchNext

LEMMA AnswerIs == LookupInv => LookupRight /\ ChecksSuffice
<1> SUFFICES ASSUME LookupInv PROVE LookupRight /\ ChecksSuffice
  OBVIOUS
<1>1. LookupRight
  BY DEF LookupInv, Answered, Right, LookupRight, Built, Supported
<1>2. ChecksSuffice
  BY DEF LookupInv, Answered, ChecksSuffice
<1> QED BY <1>1, <1>2

(* Whatever the parameters, the architectures, the database and the calls: *)
(* a call gets the variant or the backend that the database recorded for   *)
(* its arguments, its GPU and the nearest recorded lengths.                *)
THEOREM LookupsAreRight == LaunchSpec => []LookupRight
<1>1. LaunchInit => LookupInv
  BY LookupInit DEF LaunchInit
<1>2. LookupInv /\ [LaunchNext]_<<vars, launchVars>> => LookupInv'
  BY LookupStep, LaunchIsLookup
<1>3. LookupInv => LookupRight
  BY AnswerIs
<1> QED BY <1>1, <1>2, <1>3, PTL DEF LaunchSpec

(* And no call comes to a hole of a table that the strict check let pass.  *)
THEOREM ChecksAreEnough == LaunchSpec => []ChecksSuffice
<1>1. LaunchInit => LookupInv
  BY LookupInit DEF LaunchInit
<1>2. LookupInv /\ [LaunchNext]_<<vars, launchVars>> => LookupInv'
  BY LookupStep, LaunchIsLookup
<1>3. LookupInv => ChecksSuffice
  BY AnswerIs
<1> QED BY <1>1, <1>2, <1>3, PTL DEF LaunchSpec
-----------------------------------------------------------------------------
(* The kernels of the backends, in order.                                  *)

Index    == 0..(Len(Backends) - 1)
Names(b) == UNION {{e.yes, e.no} : e \in Range(Backends[b + 1].kernels)}

LEMMA BackendsAre ==
  /\ 0 \in Index /\ ~Affine(0)
  /\ \A b \in Index : /\ Affine(b) \in BOOLEAN
                      /\ Affine(b) => Names(b) \cap Names(0) = {}
                      /\ ~Affine(b) => \A k \in Names(b) : Uses(k) \cap Lazies \subseteq {"D"}
<1>1. Len(Backends) \in Nat \ {0} /\ DOMAIN Backends = 1..Len(Backends)
  BY OperatorLaunchAssumption
<1>2. \A b \in Index : b + 1 \in DOMAIN Backends
  BY <1>1 DEF Index
<1>3. \A b \in Index : Backends[b + 1] \in Range(Backends)
  BY <1>2 DEF Range
<1>4. \A b : Affine(b) = Backends[b + 1].affine
  BY DEF Affine
<1>5. 0 + 1 = 1
  OBVIOUS
<1>6. /\ \A b \in Range(Backends) : b.affine \in BOOLEAN
      /\ ~Backends[1].affine
  BY OperatorLaunchAssumption
<1> DEFINE names(b) == UNION {{e.yes, e.no} : e \in Range(b.kernels)}
<1>7. /\ \A b \in Range(Backends) : b.affine => names(b) \cap names(Backends[1]) = {}
      /\ \A b \in Range(Backends) : ~b.affine => \A k \in names(b) : Uses(k) \cap Lazies \subseteq {"D"}
  BY OperatorLaunchAssumption
<1>8. \A b : Names(b) = names(Backends[b + 1])
  BY DEF Names
<1>9. Names(0) = names(Backends[1])
  BY <1>5, <1>8
<1> HIDE DEF names
<1>10. 0 \in Index /\ ~Affine(0)
  BY <1>1, <1>4, <1>5, <1>6 DEF Index
<1> QED BY <1>3, <1>4, <1>6, <1>7, <1>8, <1>9, <1>10

LEMMA KernelsAre ==
  ASSUME NEW b \in Index
  PROVE  /\ Len(Kernels(b)) \in Nat \ {0} /\ DOMAIN Kernels(b) = 1..Len(Kernels(b))
         /\ Kernels(b) \in Seq(Names(b))
<1> DEFINE es == Backends[b + 1].kernels
           n == Len(es)
           K == Kernels(b)
<1>1. Backends[b + 1] \in Range(Backends)
  <2>1. b + 1 \in DOMAIN Backends
    BY OperatorLaunchAssumption DEF Index
  <2> QED BY <2>1 DEF Range
<1>2. n \in Nat \ {0} /\ DOMAIN es = 1..n
  BY <1>1, OperatorLaunchAssumption
<1>3. ASSUME NEW i \in DOMAIN es
      PROVE  Taken(es[i]) \in Names(b)
  <2>1. es[i] \in Range(es)
    BY DEF Range
  <2>2. Taken(es[i]) \in {es[i].yes, es[i].no}
    BY DEF Taken
  <2> QED BY <2>1, <2>2 DEF Names
<1>4. K = [i \in DOMAIN es |-> Taken(es[i])]
  BY DEF Kernels
<1> HIDE DEF es, n, K
<1>5. K \in [1..n -> Names(b)]
  BY <1>2, <1>3, <1>4
<1>6. K \in Seq(Names(b)) /\ DOMAIN K = 1..n
  BY <1>2, <1>5
<1>7. Len(K) = n
  BY <1>2, <1>6
<1> QED BY <1>2, <1>6, <1>7 DEF K

LEMMA KernelsKept ==
  ASSUME inputs' = inputs, NEW b
  PROVE  Kernels(b)' = Kernels(b)
<1>1. \A e : Taken(e)' = Taken(e)
  BY DEF Taken
<1> QED BY <1>1 DEF Kernels

-----------------------------------------------------------------------------
(* What was launched: something before, and the first m of some kernels.   *)

Launched(pre, k, m) == pre \o SubSeq(k, 1, m)

LEMMA LaunchedNone ==
  ASSUME NEW S, NEW k \in Seq(S), NEW T, NEW pre \in Seq(T)
  PROVE  Launched(pre, k, 0) = pre
<1>1. SubSeq(k, 1, 0) = <<>>
  OBVIOUS
<1> QED BY <1>1 DEF Launched

LEMMA LaunchedNext ==
  ASSUME NEW S, NEW k \in Seq(S), NEW pre \in Seq(S), NEW i \in 1..Len(k)
  PROVE  Launched(pre, k, i) = Append(Launched(pre, k, i - 1), k[i])
<1> DEFINE s == SubSeq(k, 1, i - 1)
           t == SubSeq(k, 1, i)
<1>1. Len(k) \in Nat /\ i - 1 \in 0..Len(k)
  OBVIOUS
<1>2. s \in Seq(S) /\ Len(s) = i - 1 /\ \A j \in 1..(i - 1) : s[j] = k[j]
  BY <1>1
<1>3. t \in Seq(S) /\ Len(t) = i /\ \A j \in 1..i : t[j] = k[j]
  BY <1>1
<1>4. k[i] \in S
  OBVIOUS
<1> HIDE DEF s, t
<1>5. t = Append(s, k[i])
  <2>1. Append(s, k[i]) \in Seq(S) /\ Len(Append(s, k[i])) = i
    BY <1>2, <1>4
  <2>2. ASSUME NEW j \in 1..i
        PROVE  t[j] = Append(s, k[i])[j]
    BY <1>2, <1>3, <1>4
  <2> QED BY <1>3, <2>1, <2>2
<1>6. pre \o Append(s, k[i]) = Append(pre \o s, k[i])
  BY <1>2, <1>4
<1> QED BY <1>5, <1>6 DEF Launched, s, t

LEMMA LaunchedAll ==
  ASSUME NEW S, NEW k \in Seq(S), NEW pre
  PROVE  Launched(pre, k, Len(k)) = pre \o k
<1>1. SubSeq(k, 1, Len(k)) = k
  OBVIOUS
<1> QED BY <1>1 DEF Launched

LEMMA LaunchedRange ==
  ASSUME NEW S, NEW k \in Seq(S), NEW T, NEW pre \in Seq(T), NEW m \in 0..Len(k)
  PROVE  /\ Range(Launched(pre, k, m)) \subseteq Range(pre) \cup Range(k)
         /\ Range(pre) \subseteq T /\ Range(k) \subseteq S
<1> DEFINE s == SubSeq(k, 1, m)
<1>1. s \in Seq(S) /\ Len(s) = m /\ m \in Nat /\ \A j \in 1..m : s[j] = k[j]
  OBVIOUS
<1> HIDE DEF s
<1>2. \A j \in DOMAIN s : s[j] \in Range(k)
  <2>1. DOMAIN s = 1..m /\ DOMAIN k = 1..Len(k) /\ Len(k) \in Nat
    BY <1>1
  <2>2. \A j \in 1..m : j \in DOMAIN k
    BY <2>1
  <2> QED BY <1>1, <2>1, <2>2 DEF Range
<1>3. ASSUME NEW j \in DOMAIN (pre \o s)
      PROVE  (pre \o s)[j] \in Range(pre) \cup Range(k)
  <2>1. Len(pre) \in Nat /\ DOMAIN pre = 1..Len(pre) /\ DOMAIN s = 1..m
        /\ j \in 1..(Len(pre) + m)
    BY <1>1
  <2>2. CASE j <= Len(pre)
    <3>1. j \in DOMAIN pre /\ (pre \o s)[j] = pre[j]
      BY <1>1, <2>1, <2>2
    <3> QED BY <3>1 DEF Range
  <2>3. CASE ~(j <= Len(pre))
    <3>1. j - Len(pre) \in DOMAIN s /\ (pre \o s)[j] = s[j - Len(pre)]
      BY <1>1, <2>1, <2>3
    <3> QED BY <1>2, <3>1
  <2> QED BY <2>2, <2>3
<1>4. Range(Launched(pre, k, m)) \subseteq Range(pre) \cup Range(k)
  BY <1>3 DEF Launched, s, Range
<1>5. (\A j \in DOMAIN pre : pre[j] \in T) /\ \A j \in DOMAIN k : k[j] \in S
  OBVIOUS
<1> QED BY <1>4, <1>5 DEF Range
LEMMA NothingBefore ==
  ASSUME NEW S, NEW s \in Seq(S)
  PROVE  <<>> \o s = s
<1> DEFINE e == <<>>
<1>1. e \in Seq(S) /\ Len(e) = 0
  OBVIOUS
<1> HIDE DEF e
<1>2. e \o s \in Seq(S) /\ Len(e \o s) = Len(s) /\ Len(s) \in Nat
  BY <1>1
<1>3. ASSUME NEW j \in 1..Len(s)
      PROVE  (e \o s)[j] = s[j]
  BY <1>1, <1>2
<1>4. e \o s = s
  BY <1>2, <1>3
<1> QED BY <1>4 DEF e

RunBy(pre, k, l, p, i, o) ==
  \E m \in 0..Len(k) :
    /\ l = Launched(pre, k, m)
    /\ p = "lookup" => m = 0
    /\ p = "launch" => i \in 1..Len(k) /\ m = i - 1
    /\ o = "success" => m = Len(k)
    /\ o = "missing" => m = 0

LEMMA RunLookup ==
  ASSUME NEW S, NEW k \in Seq(S), Len(k) # 0, NEW pre, NEW l, NEW i, NEW o,
         RunBy(pre, k, l, "lookup", i, o),
         NEW p, NEW j, NEW w, p = "launch" => j = 1, w # "success"
  PROVE  RunBy(pre, k, l, p, j, w)
<1>1. Len(k) \in Nat \ {0} /\ 0 \in 0..Len(k)
  OBVIOUS
<1>2. l = Launched(pre, k, 0)
  BY DEF RunBy
<1> QED BY <1>1, <1>2 DEF RunBy

LEMMA RunStops ==
  ASSUME NEW S, NEW k \in Seq(S), NEW pre, NEW l, NEW i, NEW o, NEW p,
         RunBy(pre, k, l, p, i, o),
         NEW j, NEW w, w \notin {"success", "missing"}
  PROVE  RunBy(pre, k, l, "over", j, w)
  BY DEF RunBy

LEMMA RunLaunch ==
  ASSUME NEW S, NEW k \in Seq(S), NEW pre \in Seq(S), NEW l, NEW i, NEW o,
         RunBy(pre, k, l, "launch", i, o)
  PROVE  /\ i \in 1..Len(k) /\ Append(l, k[i]) = Launched(pre, k, i)
         /\ \A w : w \notin {"success", "missing"} /\ i < Len(k)
                   => RunBy(pre, k, Append(l, k[i]), "launch", i + 1, w)
         /\ \A j : i = Len(k) => RunBy(pre, k, Append(l, k[i]), "over", j, "success")
         /\ \A j, w : w \notin {"success", "missing"} => RunBy(pre, k, Append(l, k[i]), "over", j, w)
<1>1. i \in 1..Len(k) /\ l = Launched(pre, k, i - 1) /\ Len(k) \in Nat
  BY DEF RunBy
<1>2. Append(l, k[i]) = Launched(pre, k, i) /\ i \in 0..Len(k)
  BY <1>1, LaunchedNext
<1>3. ASSUME NEW w, w \notin {"success", "missing"}, i < Len(k)
      PROVE  RunBy(pre, k, Append(l, k[i]), "launch", i + 1, w)
  <2>1. i + 1 \in 1..Len(k) /\ i = (i + 1) - 1
    BY <1>1, <1>3
  <2> QED BY <1>2, <1>3, <2>1 DEF RunBy
<1>4. ASSUME NEW j, i = Len(k)
      PROVE  RunBy(pre, k, Append(l, k[i]), "over", j, "success")
  BY <1>2, <1>4 DEF RunBy
<1>5. ASSUME NEW j, NEW w, w \notin {"success", "missing"}
      PROVE  RunBy(pre, k, Append(l, k[i]), "over", j, w)
  BY <1>2, <1>5 DEF RunBy
<1> QED BY <1>1, <1>2, <1>3, <1>4, <1>5

-----------------------------------------------------------------------------
(* The inductive invariant of a call of the operator.                      *)

AllNames   == UNION {Names(b) : b \in Index}
Earlier(n) == IF backend = Wanted THEN <<>> ELSE SubSeq(Kernels(Wanted), 1, n)

Running ==
  /\ Wanted \in Index /\ backend \in Index
  /\ backend # Wanted => backend = 0 /\ ~Forced /\ Affine(Wanted)
  /\ \E n \in 0..Len(Kernels(Wanted)) : RunBy(Earlier(n), Kernels(backend), launched, pc, at, outcome)

(* A call for which the lookup of the backend itself failed.               *)
FailedEarly ==
  /\ pc = "over" /\ launched = <<>> /\ outcome \in {"NoBinaryForGpu", "NotSupported"}
  /\ ~Forced /\ ~option.deterministic

Buffers ==
  /\ freed \in BOOLEAN
  /\ outcome \in {"success", "error", "missing", "unsupported"} <=> freed
  /\ \A l \in Lazies : acquired[l] \in {0, 1} /\ (acquired[l] = 1 => l \in inputs)
  /\ \A k \in Range(launched) : \A l \in Lazies \cap Uses(k) : acquired[l] = 1
  /\ pc = "launch" /\ Affine(backend) => \A l \in Lazies : acquired[l] = 1

LaunchInv ==
  /\ pc \in {"idle", "lookup", "launch", "over"}
  /\ kind # "op" => pc = "idle"
  /\ pc # "over" => outcome = None
  /\ pc = "idle" => launched = <<>> /\ \A l \in Lazies : acquired[l] = 0
  /\ pc # "idle" => inputs \in Inputs /\ option \in Options
  /\ pc \in {"lookup", "launch"} => Running
  /\ pc = "over" => Running \/ FailedEarly
  /\ Buffers

LEMMA NamesAre ==
  ASSUME NEW b \in Index
  PROVE  /\ Names(b) \subseteq AllNames /\ Kernels(b) \in Seq(AllNames) /\ Len(Kernels(b)) \in Nat \ {0}
         /\ \A n \in 0..Len(Kernels(b)) : SubSeq(Kernels(b), 1, n) \in Seq(AllNames)
<1>1. Names(b) \subseteq AllNames
  BY DEF AllNames
<1>2. Kernels(b) \in Seq(AllNames) /\ Len(Kernels(b)) \in Nat \ {0}
  BY <1>1, KernelsAre
<1>3. \A n \in 0..Len(Kernels(b)) : SubSeq(Kernels(b), 1, n) \in Seq(AllNames)
  BY <1>2
<1> QED BY <1>1, <1>2, <1>3

LEMMA EarlierAre ==
  ASSUME Running, NEW n \in 0..Len(Kernels(Wanted))
  PROVE  Earlier(n) \in Seq(AllNames)
<1>1. <<>> \in Seq(AllNames)
  OBVIOUS
<1>2. SubSeq(Kernels(Wanted), 1, n) \in Seq(AllNames)
  BY NamesAre DEF Running
<1> QED BY <1>1, <1>2 DEF Earlier

(* Steps that stay with a backend, and the one that leaves it.             *)
LEMMA RunningKept ==
  ASSUME Running, UNCHANGED <<backend, option, inputs, answer>>,
         \A pre \in Seq(AllNames) :
           RunBy(pre, Kernels(backend), launched, pc, at, outcome)
           => RunBy(pre, Kernels(backend), launched', pc', at', outcome')
  PROVE  Running'
<1>1. /\ backend' = backend /\ Wanted' = Wanted /\ Forced' = Forced /\ Affine(Wanted)' = Affine(Wanted)
      /\ Kernels(backend)' = Kernels(backend) /\ Kernels(Wanted)' = Kernels(Wanted)
  <2>1. backend' = backend /\ Wanted' = Wanted /\ Forced' = Forced /\ inputs' = inputs
    BY DEF Wanted, Forced
  <2>2. Affine(Wanted)' = Affine(Wanted)
    BY <2>1 DEF Affine
  <2> QED BY <2>1, <2>2, KernelsKept
<1>2. PICK n \in 0..Len(Kernels(Wanted)) : RunBy(Earlier(n), Kernels(backend), launched, pc, at, outcome)
  BY DEF Running
<1>3. Earlier(n)' = Earlier(n)
  BY <1>1 DEF Earlier
<1>4. RunBy(Earlier(n), Kernels(backend), launched', pc', at', outcome')
  BY <1>2, EarlierAre
<1>5. RunBy(Earlier(n), Kernels(backend), launched, pc, at, outcome)'
  BY <1>1, <1>3, <1>4
<1> QED BY <1>1, <1>2, <1>5 DEF Running

LEMMA FallsBack ==
  ASSUME Running, UNCHANGED <<option, inputs, answer>>, Affine(backend), ~Forced,
         pc' = "lookup", backend' = 0, outcome' = None,
         NEW m \in 0..Len(Kernels(backend)), launched' = Launched(<<>>, Kernels(backend), m)
  PROVE  Running'
<1>1. backend = Wanted /\ Wanted \in Index /\ Affine(Wanted) /\ Wanted # 0 /\ 0 \in Index
  BY BackendsAre DEF Running
<1>2. /\ Wanted' = Wanted /\ Forced' = Forced
      /\ Kernels(0)' = Kernels(0) /\ Kernels(Wanted)' = Kernels(Wanted)
  <2>1. Wanted' = Wanted /\ Forced' = Forced /\ inputs' = inputs
    BY DEF Wanted, Forced
  <2> QED BY <2>1, KernelsKept
<1>3. Affine(Wanted)'
  BY <1>1, <1>2 DEF Affine
<1> DEFINE pre == SubSeq(Kernels(Wanted), 1, m)
<1>4. pre \in Seq(AllNames) /\ m \in 0..Len(Kernels(Wanted))
  BY <1>1, NamesAre
<1>5. launched' = pre
  <2>1. launched' = <<>> \o pre
    BY <1>1 DEF Launched
  <2> HIDE DEF pre
  <2> QED BY <1>4, <2>1, NothingBefore
<1>6. Earlier(m)' = pre
  BY <1>1, <1>2 DEF Earlier
<1>7. launched' = Launched(pre, Kernels(0), 0) /\ 0 \in 0..Len(Kernels(0))
  <2>1. Kernels(0) \in Seq(AllNames) /\ Len(Kernels(0)) \in Nat
    BY <1>1, NamesAre
  <2> HIDE DEF pre
  <2>2. Launched(pre, Kernels(0), 0) = pre
    BY <1>4, <2>1, LaunchedNone
  <2> QED BY <1>5, <2>1, <2>2
<1> HIDE DEF pre
<1>8. None # "success" /\ None # "missing"
  BY OperatorLaunchAssumption
<1>9. RunBy(pre, Kernels(0), launched', pc', at', outcome')
  BY <1>7, <1>8 DEF RunBy
<1>10. RunBy(Earlier(m), Kernels(backend), launched, pc, at, outcome)'
  <2>1. Kernels(backend)' = Kernels(0)
    BY <1>2
  <2> QED BY <1>6, <1>9, <2>1
<1> QED BY <1>1, <1>2, <1>3, <1>4, <1>10 DEF Running
-----------------------------------------------------------------------------
(* Every step keeps it.                                                    *)

(* What the lookup of a backend gives.                                     *)
LEMMA PickIs ==
  ASSUME RowsOK, kind = "op", NEW call, NEW result, Right(call, result)
  PROVE  \/ result = Failure("NoBinaryForGpu") \/ result = Failure("NotSupported")
         \/ \E b \in Index : result = Found(b)
<1>1. CASE Built(call) = {}
  BY <1>1 DEF Right
<1>2. CASE Built(call) # {} /\ ~Supported(call.args)
  BY <1>2 DEF Right
<1>3. CASE Built(call) # {} /\ Supported(call.args)
  <2>1. PICK a \in Built(call) : TRUE
    BY <1>3
  <2>2. result \in Expected(call, a)
    BY <1>3, <2>1 DEF Right
  <2>3. ASSUME NEW args
        PROVE  Usable(a, args) \subseteq rows
    BY DEF Usable, Recorded
  <2>4. ASSUME NEW gpu, NEW x \in Measured(call, a, gpu)
        PROVE  \E r \in rows : x = Found(r.pick)
    BY <2>3 DEF Measured
  <2>5. \A r \in rows : r.pick \in Index
    <3>1. \A r \in rows : r.pick \in Nat
      BY RowsAre
    <3>2. \A r \in rows : r.pick < Len(Backends)
      BY OperatorLaunchAssumption DEF RowsOK
    <3>3. Len(Backends) \in Nat
      BY OperatorLaunchAssumption
    <3> QED BY <3>1, <3>2, <3>3 DEF Index
  <2>6. result = Found(0) \/ \E r \in rows : result = Found(r.pick)
    BY <2>2, <2>4 DEF Expected
  <2> QED BY <2>5, <2>6, BackendsAre
<1> QED BY <1>1, <1>2, <1>3

LEMMA FailuresDiffer ==
  /\ \A b : Found(b).pick = b /\ DOMAIN Found(b) = {"pick"}
  /\ \A w : Failure(w).failure = w /\ DOMAIN Failure(w) = {"failure"}
  BY DEF Found, Failure

LEMMA EmptyRange == Range(<<>>) = {}
  BY DEF Range

NoneDiffers == None \notin {"success", "error", "missing", "unsupported"}

LEMMA NoneIs == NoneDiffers
  BY OperatorLaunchAssumption DEF NoneDiffers

LEMMA BuffersEmpty ==
  ASSUME Range(launched) = {}, \A l \in Lazies : acquired[l] = 0, freed = FALSE,
         outcome \notin {"success", "error", "missing", "unsupported"}, pc # "launch"
  PROVE  Buffers
<1>1. freed \in BOOLEAN
  OBVIOUS
<1>2. outcome \in {"success", "error", "missing", "unsupported"} <=> freed
  OBVIOUS
<1>3. \A l \in Lazies : acquired[l] \in {0, 1} /\ (acquired[l] = 1 => l \in inputs)
  OBVIOUS
<1>4. \A k \in Range(launched) : \A l \in Lazies \cap Uses(k) : acquired[l] = 1
  OBVIOUS
<1>5. pc = "launch" /\ Affine(backend) => \A l \in Lazies : acquired[l] = 1
  OBVIOUS
<1> QED BY <1>1, <1>2, <1>3, <1>4, <1>5 DEF Buffers

LEMMA IdleIs ==
  ASSUME Idle
  PROVE  LaunchInv
<1>1. /\ pc = "idle" /\ launched = <<>> /\ outcome = None /\ freed = FALSE
      /\ \A l \in Lazies : acquired[l] = 0
  BY DEF Idle
<1>2. Range(launched) = {}
  BY <1>1, EmptyRange
<1>3. Buffers
  <2>1. outcome \notin {"success", "error", "missing", "unsupported"}
    BY <1>1, NoneIs DEF NoneDiffers
  <2> QED BY <1>1, <1>2, <2>1, BuffersEmpty
<1> QED BY <1>1, <1>3 DEF LaunchInv

(* A call begins with a backend of those there are, or ends there.         *)
Starting ==
  /\ kind = "op" /\ inputs \in Inputs /\ option \in Options /\ launched = <<>>
  /\ \A l \in Lazies : acquired[l] = 0
  /\ freed = FALSE

Started == Starting /\ pc = "lookup" /\ Wanted \in Index /\ backend = Wanted /\ outcome = None

LEMMA StartingIs ==
  ASSUME Starting, outcome \notin {"success", "error", "missing", "unsupported"}, pc # "launch"
  PROVE  Buffers
<1>1. Range(launched) = {}
  BY EmptyRange DEF Starting
<1> QED BY <1>1, BuffersEmpty DEF Starting

LEMMA StartedIs == Started => LaunchInv
<1> SUFFICES ASSUME Started PROVE LaunchInv
  OBVIOUS
<1>1. Buffers
  BY StartingIs, NoneIs DEF Started, NoneDiffers
<1>2. RunBy(Earlier(0), Kernels(backend), launched, pc, at, outcome)
  <2> DEFINE e == <<>>
             k == Kernels(backend)
  <2>1. e \in Seq(AllNames) /\ k \in Seq(AllNames) /\ Len(k) \in Nat
    BY NamesAre DEF Started
  <2>2. Earlier(0) = e /\ launched = e
    BY DEF Earlier, Started, Starting
  <2> HIDE DEF e, k
  <2>3. e = Launched(e, k, 0) /\ 0 \in 0..Len(k)
    BY <2>1, LaunchedNone
  <2>4. pc = "lookup" /\ outcome # "success"
    BY NoneIs DEF Started, NoneDiffers
  <2>5. RunBy(e, k, e, pc, at, outcome)
    BY <2>3, <2>4 DEF RunBy
  <2> QED BY <2>2, <2>5 DEF k
<1>3. 0 \in 0..Len(Kernels(Wanted))
  BY NamesAre DEF Started
<1>4. Running
  BY <1>2, <1>3 DEF Running, Started
<1> QED BY <1>1, <1>4 DEF LaunchInv, Started, Starting

Ended == Starting /\ FailedEarly

LEMMA EndedIs == Ended => LaunchInv
<1> SUFFICES ASSUME Ended PROVE LaunchInv
  OBVIOUS
<1>1. Buffers
  BY StartingIs DEF Ended, FailedEarly
<1> QED BY <1>1 DEF LaunchInv, Ended, Starting, FailedEarly

LEMMA StartKeeps ==
  ASSUME LookupInv, LaunchInv, NEW call \in Calls, NEW in \in Inputs, NEW opt \in Options, attn_bwd(call, in, opt)
  PROVE  LaunchInv'
<1>1. /\ kind = "op" /\ phase = "built" /\ pc = "idle" /\ inputs' = in /\ option' = opt
      /\ launched' = launched /\ acquired' = acquired
  BY DEF attn_bwd
<1>2. launched = <<>> /\ (\A l \in Lazies : acquired[l] = 0) /\ outcome = None
  BY <1>1 DEF LaunchInv
<1>3. freed = FALSE
  BY <1>2, NoneIs DEF LaunchInv, Buffers, NoneDiffers
<1>4. CASE opt.force # None \/ opt.deterministic
  <2>1. /\ backend' = IF opt.force # None THEN opt.force ELSE 0
        /\ pc' = "lookup" /\ freed' = freed /\ outcome' = outcome /\ kind' = kind
    BY <1>4 DEF attn_bwd, vars
  <2>2. Wanted' = IF opt.force # None THEN opt.force ELSE 0
    BY <1>1, <1>4 DEF Wanted, Forced
  <2>3. Wanted' \in Index
    BY <2>2, OperatorLaunchAssumption, BackendsAre DEF Index
  <2>4. Started'
    BY <1>1, <1>2, <1>3, <2>1, <2>2, <2>3 DEF Started, Starting
  <2> QED BY <2>4, StartedIs, PTL
<1>5. CASE ~(opt.force # None \/ opt.deterministic)
  <2> DEFINE r == answer'.result
  <2>1. /\ Call(call)
        /\ IF "failure" \in DOMAIN r THEN Leave(r.failure)
           ELSE backend' = r.pick /\ pc' = "lookup" /\ freed' = freed /\ outcome' = outcome
    BY <1>5 DEF attn_bwd
  <2>2. r = Optimal(call) /\ kind' = kind
    BY <2>1 DEF Call
  <2>3. PICK result : result = Optimal(call)
    OBVIOUS
  <2>4. Right(call, result) /\ RowsOK
    BY <1>1, <2>3, OptimalRight DEF LookupInv, Generated
  <2>5. \/ result = Failure("NoBinaryForGpu") \/ result = Failure("NotSupported")
        \/ \E b \in Index : result = Found(b)
    BY <1>1, <2>4, PickIs
  <2>6. r = result
    BY <2>2, <2>3
  <2>7. ~Forced' /\ ~option'.deterministic /\ Wanted' = r.pick
    BY <1>1, <1>5 DEF Forced, Wanted
  <2> HIDE DEF r
  <2>8. CASE result = Failure("NoBinaryForGpu") \/ result = Failure("NotSupported")
    <3>1. "failure" \in DOMAIN r /\ r.failure \in {"NoBinaryForGpu", "NotSupported"}
      BY <2>6, <2>8, FailuresDiffer
    <3>2. pc' = "over" /\ outcome' = r.failure /\ freed' = freed
      BY <2>1, <3>1 DEF Leave
    <3>3. Ended'
      BY <1>1, <1>2, <1>3, <2>2, <2>7, <3>1, <3>2 DEF Ended, Starting, FailedEarly
    <3> QED BY <3>3, EndedIs, PTL
  <2>9. CASE \E b \in Index : result = Found(b)
    <3>1. PICK b \in Index : r = Found(b)
      BY <2>6, <2>9
    <3>2. "failure" \notin DOMAIN r /\ r.pick = b
      BY <3>1, FailuresDiffer
    <3>3. backend' = b /\ pc' = "lookup" /\ freed' = freed /\ outcome' = outcome
      BY <2>1, <3>2
    <3>4. Started'
      BY <1>1, <1>2, <1>3, <2>2, <2>7, <3>2, <3>3 DEF Started, Starting
    <3> QED BY <3>4, StartedIs, PTL
  <2> QED BY <2>5, <2>8, <2>9
<1> QED BY <1>4, <1>5

(* The buffers: acquired when a pointer is taken, disposed when the call returns. *)
Taking(ls) == acquired' = acquired \/ Acquire(ls)

LEMMA TakingIs ==
  ASSUME NEW ls, Taking(ls), \A l \in Lazies : acquired[l] \in {0, 1}
  PROVE  \A l \in Lazies : /\ acquired'[l] \in {0, 1}
                           /\ acquired[l] = 1 => acquired'[l] = 1
                           /\ acquired'[l] = 1 => acquired[l] = 1 \/ l \in ls
                           /\ Acquire(ls) /\ l \in ls => acquired'[l] = 1
<1>1. ASSUME NEW l \in Lazies, Acquire(ls)
      PROVE  acquired'[l] = IF l \in ls /\ acquired[l] = 0 THEN 1 ELSE acquired[l]
  BY <1>1 DEF Acquire
<1>2. CASE Acquire(ls)
  BY <1>1, <1>2
<1>3. CASE acquired' = acquired /\ ~Acquire(ls)
  BY <1>3
<1> QED BY <1>2, <1>3 DEF Taking

Reports ==
  \/ UNCHANGED <<outcome, freed>>
  \/ outcome' \in {"success", "error", "missing", "unsupported"} /\ freed' = TRUE
  \/ outcome' = "thrown" /\ UNCHANGED freed

LEMMA ReportsKeep ==
  ASSUME Buffers, outcome = None, Reports
  PROVE  /\ freed' \in BOOLEAN
         /\ outcome' \in {"success", "error", "missing", "unsupported"} <=> freed'
<1>1. outcome \notin {"success", "error", "missing", "unsupported"}
  BY NoneIs DEF NoneDiffers
<1>2. freed = FALSE
  BY <1>1 DEF Buffers
<1>3. CASE UNCHANGED <<outcome, freed>>
  BY <1>1, <1>2, <1>3
<1>4. CASE outcome' \in {"success", "error", "missing", "unsupported"} /\ freed' = TRUE
  BY <1>4
<1>5. CASE outcome' = "thrown" /\ UNCHANGED freed
  <2>1. outcome' \notin {"success", "error", "missing", "unsupported"}
    BY <1>5
  <2> QED BY <1>2, <1>5, <2>1
<1> QED BY <1>3, <1>4, <1>5 DEF Reports

LEMMA BuffersKept ==
  ASSUME Buffers, outcome = None, Reports, inputs' = inputs,
         NEW ls, Taking(ls), ls \cap Lazies \subseteq inputs,
         \A k \in Range(launched)' : k \in Range(launched) \/ \A l \in Lazies \cap Uses(k) : acquired'[l] = 1,
         pc' = "launch" /\ Affine(backend)' => \A l \in Lazies : acquired'[l] = 1
  PROVE  Buffers'
<1>1. \A l \in Lazies : acquired[l] \in {0, 1} /\ (acquired[l] = 1 => l \in inputs)
  BY DEF Buffers
<1>2. \A l \in Lazies : /\ acquired'[l] \in {0, 1}
                        /\ acquired[l] = 1 => acquired'[l] = 1
                        /\ acquired'[l] = 1 => acquired[l] = 1 \/ l \in ls
  BY <1>1, TakingIs
<1>3. \A l \in Lazies : acquired'[l] \in {0, 1} /\ (acquired'[l] = 1 => l \in inputs')
  BY <1>1, <1>2
<1>4. \A k \in Range(launched)' : \A l \in Lazies \cap Uses(k) : acquired'[l] = 1
  BY <1>2 DEF Buffers
<1>5. freed' \in BOOLEAN /\ (outcome' \in {"success", "error", "missing", "unsupported"} <=> freed')
  BY ReportsKeep
<1> QED BY <1>3, <1>4, <1>5 DEF Buffers

(* What the steps of a call have in common.                                *)
Same == UNCHANGED <<inputs, option, vars>>

LEMMA SameIs == Same => UNCHANGED <<inputs, option, kind, answer>>
  BY DEF Same, vars

LEMMA GoesOn ==
  ASSUME LaunchInv, pc \in {"lookup", "launch"}, Same, Running', Buffers',
         pc' \in {"lookup", "launch", "over"}, pc' # "over" => outcome' = None
  PROVE  LaunchInv'
<1>1. UNCHANGED <<inputs, option, kind, answer>>
  BY SameIs
<1>2. kind = "op" /\ inputs \in Inputs /\ option \in Options
  BY DEF LaunchInv
<1>3. pc' # "idle" /\ kind' = "op" /\ inputs' \in Inputs /\ option' \in Options
  BY <1>1, <1>2
<1> QED BY <1>3 DEF LaunchInv

LEMMA IsRunning ==
  ASSUME LaunchInv, pc \in {"lookup", "launch"}
  PROVE  /\ Running /\ Buffers /\ outcome = None /\ inputs \in Inputs /\ backend \in Index
         /\ Kernels(backend) \in Seq(AllNames) /\ Len(Kernels(backend)) \in Nat \ {0}
<1>1. Running /\ Buffers /\ outcome = None /\ inputs \in Inputs
  BY DEF LaunchInv
<1>2. backend \in Index
  BY <1>1 DEF Running
<1> QED BY <1>1, <1>2, NamesAre

LEMMA AtLaunch ==
  ASSUME LaunchInv, pc = "launch"
  PROVE  at \in 1..Len(Kernels(backend)) /\ Kernels(backend)[at] \in Names(backend)
         /\ \E S : launched \in Seq(S) /\ Kernels(backend)[at] \in S
<1>1. Running /\ backend \in Index /\ Kernels(backend) \in Seq(AllNames)
  BY IsRunning
<1>2. PICK n \in 0..Len(Kernels(Wanted)) : RunBy(Earlier(n), Kernels(backend), launched, pc, at, outcome)
  BY <1>1 DEF Running
<1>3. Earlier(n) \in Seq(AllNames)
  BY <1>1, EarlierAre
<1>4. PICK m \in 0..Len(Kernels(backend)) : launched = Launched(Earlier(n), Kernels(backend), m)
  BY <1>2 DEF RunBy
<1>5. at \in 1..Len(Kernels(backend))
  BY <1>2 DEF RunBy
<1>6. Kernels(backend) \in Seq(Names(backend))
  BY <1>1, KernelsAre
<1>7. Kernels(backend)[at] \in Names(backend) /\ Kernels(backend)[at] \in AllNames
  BY <1>1, <1>5, <1>6
<1>8. launched \in Seq(AllNames)
  <2>1. SubSeq(Kernels(backend), 1, m) \in Seq(AllNames)
    BY <1>1, NamesAre
  <2> QED BY <1>3, <1>4, <2>1 DEF Launched
<1> QED BY <1>5, <1>7, <1>8

LEMMA RangeAppend ==
  ASSUME NEW S, NEW s \in Seq(S), NEW e \in S
  PROVE  Range(Append(s, e)) \subseteq Range(s) \cup {e}
<1>1. \A i \in DOMAIN Append(s, e) : Append(s, e)[i] = e \/ (i \in DOMAIN s /\ Append(s, e)[i] = s[i])
  OBVIOUS
<1> QED BY <1>1 DEF Range

LEMMA LookupRuns ==
  ASSUME LaunchInv, pc = "lookup", Same, UNCHANGED <<backend, launched>>,
         pc' = "launch" => at' = 1, outcome' # "success"
  PROVE  Running'
<1>1. Running /\ Kernels(backend) \in Seq(AllNames) /\ Len(Kernels(backend)) # 0
  BY IsRunning
<1>2. UNCHANGED <<backend, option, inputs, answer>>
  BY SameIs
<1>3. ASSUME NEW pre \in Seq(AllNames), RunBy(pre, Kernels(backend), launched, pc, at, outcome)
      PROVE  RunBy(pre, Kernels(backend), launched', pc', at', outcome')
  <2> DEFINE k == Kernels(backend)
  <2>1. RunBy(pre, k, launched, "lookup", at, outcome) /\ k \in Seq(AllNames) /\ Len(k) # 0
    BY <1>1, <1>3
  <2> HIDE DEF k
  <2>2. RunBy(pre, k, launched, pc', at', outcome')
    BY <2>1, RunLookup
  <2> QED BY <2>2 DEF k
<1> QED BY <1>1, <1>2, <1>3, RunningKept

LEMMA StopRuns ==
  ASSUME LaunchInv, pc \in {"lookup", "launch"}, Same, UNCHANGED <<backend, launched>>,
         pc' = "over", outcome' \notin {"success", "missing"}
  PROVE  Running'
<1>1. Running /\ Kernels(backend) \in Seq(AllNames)
  BY IsRunning
<1>2. UNCHANGED <<backend, option, inputs, answer>>
  BY SameIs
<1>3. ASSUME NEW pre \in Seq(AllNames), RunBy(pre, Kernels(backend), launched, pc, at, outcome)
      PROVE  RunBy(pre, Kernels(backend), launched', pc', at', outcome')
  BY <1>1, <1>3, RunStops
<1> QED BY <1>1, <1>2, <1>3, RunningKept

LEMMA LaunchRuns ==
  ASSUME LaunchInv, pc = "launch", Same, UNCHANGED backend,
         launched' = Append(launched, Kernels(backend)[at]),
         \/ pc' = "launch" /\ at < Len(Kernels(backend)) /\ at' = at + 1 /\ outcome' \notin {"success", "missing"}
         \/ pc' = "over" /\ at = Len(Kernels(backend)) /\ outcome' = "success"
         \/ pc' = "over" /\ outcome' \notin {"success", "missing"}
  PROVE  Running'
<1>1. Running /\ Kernels(backend) \in Seq(AllNames)
  BY IsRunning
<1>2. UNCHANGED <<backend, option, inputs, answer>>
  BY SameIs
<1>3. ASSUME NEW pre \in Seq(AllNames), RunBy(pre, Kernels(backend), launched, pc, at, outcome)
      PROVE  RunBy(pre, Kernels(backend), launched', pc', at', outcome')
  <2> DEFINE k == Kernels(backend)
  <2>1. RunBy(pre, k, launched, "launch", at, outcome) /\ k \in Seq(AllNames)
    BY <1>1, <1>3
  <2>2. launched' = Append(launched, k[at])
    OBVIOUS
  <2>3. \/ pc' = "launch" /\ at < Len(k) /\ at' = at + 1 /\ outcome' \notin {"success", "missing"}
        \/ pc' = "over" /\ at = Len(k) /\ outcome' = "success"
        \/ pc' = "over" /\ outcome' \notin {"success", "missing"}
    OBVIOUS
  <2> HIDE DEF k
  <2> DEFINE l == Append(launched, k[at])
  <2>4. /\ \A w : w \notin {"success", "missing"} /\ at < Len(k)
                  => RunBy(pre, k, l, "launch", at + 1, w)
        /\ \A j : at = Len(k) => RunBy(pre, k, l, "over", j, "success")
        /\ \A j, w : w \notin {"success", "missing"} => RunBy(pre, k, l, "over", j, w)
    BY <2>1, RunLaunch
  <2>5. PICK p, i, o : p = pc' /\ i = at' /\ o = outcome'
    OBVIOUS
  <2>6. launched' = l
    BY <2>2
  <2> HIDE DEF l
  <2>7. p = "launch" /\ at < Len(k) /\ i = at + 1 /\ o \notin {"success", "missing"} => RunBy(pre, k, l, p, i, o)
    BY <2>4
  <2>8. p = "over" /\ at = Len(k) /\ o = "success" => RunBy(pre, k, l, p, i, o)
    BY <2>4
  <2>9. p = "over" /\ o \notin {"success", "missing"} => RunBy(pre, k, l, p, i, o)
    BY <2>4
  <2>10. RunBy(pre, k, launched', pc', at', outcome')
    BY <2>3, <2>5, <2>6, <2>7, <2>8, <2>9
  <2> QED BY <2>10 DEF k
<1> QED BY <1>1, <1>2, <1>3, RunningKept

LEMMA AffineKept ==
  ASSUME backend' = backend
  PROVE  Affine(backend)' = Affine(backend)
  BY DEF Affine

LEMMA LookupKernelKeeps ==
  ASSUME LaunchInv, LookupKernel
  PROVE  LaunchInv'
<1>1. /\ pc = "lookup" /\ ~Affine(backend) /\ Same /\ UNCHANGED <<launched, acquired>>
      /\ AfterLookup \/ Return("missing")
  BY DEF LookupKernel, Same
<1>2. \/ GoTo("lookup", at + 1) \/ GoTo("launch", 1) \/ Return("missing")
  BY <1>1 DEF AfterLookup
<1>3. Buffers /\ outcome = None /\ UNCHANGED <<inputs, option, kind, answer>>
  BY <1>1, IsRunning, SameIs
<1>4. /\ UNCHANGED backend /\ Reports
      /\ pc' \in {"lookup", "launch", "over"} /\ (pc' # "over" => outcome' = None)
      /\ (pc' = "launch" => at' = 1) /\ outcome' # "success"
  <2>1. CASE GoTo("lookup", at + 1) \/ GoTo("launch", 1)
    BY <1>3, <2>1, NoneIs DEF GoTo, Reports, NoneDiffers
  <2>2. CASE Return("missing")
    BY <2>2 DEF Return, Reports
  <2> QED BY <1>2, <2>1, <2>2
<1>5. Running'
  BY <1>1, <1>4, LookupRuns
<1>6. Buffers'
  <2>1. Taking({}) /\ ~Affine(backend)'
    BY <1>1, <1>4, AffineKept DEF Taking
  <2> QED BY <1>1, <1>3, <1>4, <2>1, BuffersKept
<1> QED BY <1>1, <1>4, <1>5, <1>6, GoesOn

(* Leaving an affine backend, in a lookup or after a kernel.               *)
LEMMA FirstIsWanted ==
  ASSUME LaunchInv, pc \in {"lookup", "launch"}, Affine(backend)
  PROVE  /\ backend = Wanted /\ \A n : Earlier(n) = <<>>
         /\ \E m \in 0..Len(Kernels(backend)) :
              /\ launched = Launched(<<>>, Kernels(backend), m)
              /\ pc = "launch" => at \in 1..Len(Kernels(backend)) /\ m = at - 1
<1>1. Running
  BY IsRunning
<1>2. backend = Wanted
  BY <1>1, BackendsAre DEF Running
<1>3. \A n : Earlier(n) = <<>>
  BY <1>2 DEF Earlier
<1>4. PICK n \in 0..Len(Kernels(Wanted)) : RunBy(Earlier(n), Kernels(backend), launched, pc, at, outcome)
  BY <1>1 DEF Running
<1>5. RunBy(<<>>, Kernels(backend), launched, pc, at, outcome)
  BY <1>3, <1>4
<1> QED BY <1>2, <1>3, <1>5 DEF RunBy

LEMMA UnsupportedRuns ==
  ASSUME LaunchInv, pc \in {"lookup", "launch"}, Affine(backend), Same, Unsupported,
         \/ launched' = launched
         \/ pc = "launch" /\ launched' = Append(launched, Kernels(backend)[at])
  PROVE  /\ Running' /\ Reports /\ pc' \in {"lookup", "over"} /\ (pc' # "over" => outcome' = None)
<1>1. /\ Running /\ outcome = None /\ Kernels(backend) \in Seq(AllNames)
      /\ UNCHANGED <<inputs, option, kind, answer>>
  BY IsRunning, SameIs
<1>2. CASE Forced /\ Return("unsupported")
  <2>1. pc' = "over" /\ outcome' = "unsupported" /\ freed' = TRUE /\ UNCHANGED backend
    BY <1>2 DEF Return
  <2>2. outcome' \notin {"success", "missing"}
    BY <2>1
  <2>3. CASE launched' = launched
    BY <2>1, <2>2, <2>3, StopRuns DEF Reports
  <2>4. CASE pc = "launch" /\ launched' = Append(launched, Kernels(backend)[at])
    BY <2>1, <2>2, <2>4, LaunchRuns DEF Reports
  <2> QED BY <2>3, <2>4
<1>3. CASE ~Forced /\ pc' = "lookup" /\ backend' = 0 /\ at' = 1 /\ UNCHANGED <<freed, outcome>>
  <2> DEFINE k == Kernels(backend)
  <2>1. PICK m \in 0..Len(k) : /\ launched = Launched(<<>>, k, m)
                               /\ pc = "launch" => at \in 1..Len(k) /\ m = at - 1
    BY FirstIsWanted
  <2>2. PICK n \in 0..Len(k) : launched' = Launched(<<>>, k, n)
    <3>1. CASE launched' = launched
      BY <2>1, <3>1
    <3>2. CASE pc = "launch" /\ launched' = Append(launched, k[at])
      <4>1. <<>> \in Seq(AllNames) /\ at \in 1..Len(k) /\ k \in Seq(AllNames)
        BY <1>1, <2>1, <3>2
      <4>2. launched' = Append(Launched(<<>>, k, at - 1), k[at])
        BY <2>1, <3>2
      <4>3. at \in 0..Len(k)
        BY <4>1
      <4> DEFINE e == <<>>
      <4>4. e \in Seq(AllNames)
        BY <4>1
      <4> HIDE DEF k, e
      <4>5. Launched(e, k, at) = Append(Launched(e, k, at - 1), k[at])
        BY <4>1, <4>4, LaunchedNext
      <4>6. launched' = Launched(e, k, at)
        BY <4>2, <4>5 DEF e
      <4> QED BY <4>3, <4>6 DEF e
    <3> QED BY <3>1, <3>2
  <2>3. Running'
    BY <1>1, <1>3, <2>2, FallsBack
  <2> QED BY <1>1, <1>3, <2>3 DEF Reports
<1> QED BY <1>2, <1>3 DEF Unsupported

LEMMA LookupAffineKeeps ==
  ASSUME LaunchInv, LookupAffine
  PROVE  LaunchInv'
<1>1. /\ pc = "lookup" /\ Affine(backend) /\ Same /\ launched' = launched
      /\ \/ Return("missing") /\ UNCHANGED acquired
         \/ Rejects /\ Unsupported /\ UNCHANGED acquired
         \/ ~Rejects /\ Acquire(Lazies) /\ (Unsupported \/ GoTo("launch", 1))
  BY DEF LookupAffine, Same
<1>2. Buffers /\ outcome = None /\ UNCHANGED <<inputs, option, kind, answer>> /\ inputs \in Inputs
  BY <1>1, IsRunning, SameIs
<1>3. Taking({}) \/ (Taking(Lazies) /\ Acquire(Lazies) /\ ~Rejects)
  BY <1>1 DEF Taking
<1>4. ~Rejects => Lazies \subseteq inputs
  BY <1>2, OperatorLaunchAssumption DEF Rejects
<1>5. Return("missing") \/ Unsupported \/ (Acquire(Lazies) /\ GoTo("launch", 1))
  BY <1>1
<1>6. /\ Running' /\ Reports /\ pc' \in {"lookup", "launch", "over"} /\ (pc' # "over" => outcome' = None)
      /\ (pc' = "launch" => Acquire(Lazies))
  <2>1. CASE Return("missing")
    <3>1. /\ pc' = "over" /\ outcome' = "missing" /\ freed' = TRUE /\ UNCHANGED backend
          /\ pc' # "launch" /\ outcome' # "success"
      BY <2>1 DEF Return
    <3>2. Running'
      BY <1>1, <3>1, LookupRuns
    <3> QED BY <3>1, <3>2 DEF Reports
  <2>2. CASE Unsupported
    <3>1. Running' /\ Reports /\ pc' \in {"lookup", "over"} /\ (pc' # "over" => outcome' = None)
      BY <1>1, <2>2, UnsupportedRuns
    <3> QED BY <3>1
  <2>3. CASE Acquire(Lazies) /\ GoTo("launch", 1)
    <3>1. pc' = "launch" /\ at' = 1 /\ UNCHANGED <<backend, freed, outcome>>
      BY <2>3 DEF GoTo
    <3>2. outcome' = None /\ outcome' # "success"
      BY <1>2, <3>1, NoneIs DEF NoneDiffers
    <3>3. Running'
      BY <1>1, <3>1, <3>2, LookupRuns
    <3> QED BY <2>3, <3>1, <3>2, <3>3 DEF Reports
  <2> QED BY <1>5, <2>1, <2>2, <2>3
<1>7. Buffers'
  <2>1. Acquire(Lazies) => \A l \in Lazies : acquired'[l] = 1
    <3>1. SUFFICES ASSUME Acquire(Lazies) PROVE \A l \in Lazies : acquired'[l] = 1
      OBVIOUS
    <3>2. Taking(Lazies) /\ \A l \in Lazies : acquired[l] \in {0, 1}
      BY <1>2, <3>1 DEF Taking, Buffers
    <3> QED BY <3>1, <3>2, TakingIs
  <2>2. CASE Taking({})
    BY <1>1, <1>2, <1>6, <2>1, <2>2, BuffersKept
  <2>3. CASE Taking(Lazies) /\ ~Rejects
    BY <1>1, <1>2, <1>4, <1>6, <2>1, <2>3, BuffersKept
  <2> QED BY <1>3, <2>2, <2>3
<1> QED BY <1>1, <1>6, <1>7, GoesOn

LEMMA LaunchedMore ==
  ASSUME LaunchInv, pc = "launch", launched' = Append(launched, Kernels(backend)[at])
  PROVE  \A k \in Range(launched)' : k \in Range(launched) \/ k = Kernels(backend)[at]
<1>1. PICK S : launched \in Seq(S) /\ Kernels(backend)[at] \in S
  BY AtLaunch
<1>2. Range(launched') \subseteq Range(launched) \cup {Kernels(backend)[at]}
  BY <1>1, RangeAppend
<1> QED BY <1>2

LEMMA AfterLaunchRuns ==
  ASSUME LaunchInv, pc = "launch", Same, launched' = Append(launched, Kernels(backend)[at]), AfterLaunch
  PROVE  /\ Running' /\ Reports /\ pc' \in {"launch", "over"} /\ (pc' # "over" => outcome' = None)
         /\ UNCHANGED backend
<1>1. outcome = None /\ Len(Kernels(backend)) \in Nat /\ at \in 1..Len(Kernels(backend))
  BY IsRunning, AtLaunch
<1>2. CASE at < Len(Kernels(backend)) /\ GoTo("launch", at + 1)
  <2>1. pc' = "launch" /\ at' = at + 1 /\ UNCHANGED <<backend, freed, outcome>>
    BY <1>2 DEF GoTo
  <2>2. outcome' = None /\ outcome' \notin {"success", "missing"}
    BY <1>1, <2>1, NoneIs DEF NoneDiffers
  <2>3. Running'
    BY <1>2, <2>1, <2>2, LaunchRuns
  <2> QED BY <2>1, <2>2, <2>3 DEF Reports
<1>3. CASE at = Len(Kernels(backend)) /\ Return("success")
  <2>1. pc' = "over" /\ outcome' = "success" /\ freed' = TRUE /\ UNCHANGED <<backend, at>>
    BY <1>3 DEF Return
  <2>2. Running'
    BY <1>3, <2>1, LaunchRuns
  <2> QED BY <2>1, <2>2 DEF Reports
<1>4. (at < Len(Kernels(backend)) /\ GoTo("launch", at + 1)) \/ (at = Len(Kernels(backend)) /\ Return("success"))
  BY <1>1 DEF AfterLaunch
<1> QED BY <1>2, <1>3, <1>4

LEMMA LaunchKernelKeeps ==
  ASSUME LaunchInv, LaunchKernel
  PROVE  LaunchInv'
<1> DEFINE k == Kernels(backend)[at]
<1>1. /\ pc = "launch" /\ ~Affine(backend) /\ Same /\ Acquire(Uses(k))
      /\ \/ launched' = Append(launched, k) /\ AfterLaunch
         \/ Return("error") /\ UNCHANGED launched
  BY DEF LaunchKernel, Same
<1>2. /\ Buffers /\ outcome = None /\ UNCHANGED <<inputs, option, kind, answer>> /\ inputs \in Inputs
      /\ backend \in Index /\ k \in Names(backend)
  BY <1>1, IsRunning, SameIs, AtLaunch
<1>3. Uses(k) \cap Lazies \subseteq inputs
  <2>1. Uses(k) \cap Lazies \subseteq {"D"} /\ "D" \in inputs
    BY <1>1, <1>2, BackendsAre, OperatorLaunchAssumption
  <2> QED BY <2>1
<1>4. /\ Running' /\ Reports /\ pc' \in {"launch", "over"} /\ (pc' # "over" => outcome' = None)
      /\ UNCHANGED backend
      /\ \A x \in Range(launched)' : x \in Range(launched) \/ x = k
  <2>1. CASE launched' = Append(launched, k) /\ AfterLaunch
    BY <1>1, <2>1, AfterLaunchRuns, LaunchedMore
  <2>2. CASE Return("error") /\ UNCHANGED launched
    <3>1. pc' = "over" /\ outcome' = "error" /\ freed' = TRUE /\ UNCHANGED backend
          /\ outcome' \notin {"success", "missing"}
      BY <2>2 DEF Return
    <3>2. Running'
      BY <1>1, <2>2, <3>1, StopRuns
    <3> QED BY <2>2, <3>1, <3>2 DEF Reports
  <2> QED BY <1>1, <2>1, <2>2
<1>5. Buffers'
  <2>1. Taking(Uses(k)) /\ ~Affine(backend)'
    BY <1>1, <1>4, AffineKept DEF Taking
  <2>2. \A l \in Lazies \cap Uses(k) : acquired'[l] = 1
    <3>1. \A l \in Lazies : acquired[l] \in {0, 1}
      BY <1>2 DEF Buffers
    <3> HIDE DEF k
    <3> QED BY <1>1, <2>1, <3>1, TakingIs
  <2>3. \A x \in Range(launched)' : x \in Range(launched) \/ \A l \in Lazies \cap Uses(x) : acquired'[l] = 1
    BY <1>4, <2>2
  <2> HIDE DEF k
  <2> QED BY <1>2, <1>3, <1>4, <2>1, <2>3, BuffersKept
<1> QED BY <1>1, <1>4, <1>5, GoesOn

LEMMA LaunchAffineKeeps ==
  ASSUME LaunchInv, LaunchAffine
  PROVE  LaunchInv'
<1> DEFINE k == Kernels(backend)[at]
<1>1. /\ pc = "launch" /\ Affine(backend) /\ Same /\ UNCHANGED acquired
      /\ \/ launched' = Append(launched, k) /\ Peek
         \/ Leave("thrown") /\ UNCHANGED launched
  BY DEF LaunchAffine, Same
<1>2. /\ Buffers /\ outcome = None /\ UNCHANGED <<inputs, option, kind, answer>>
      /\ \A l \in Lazies : acquired[l] = 1
  <2>1. Buffers /\ outcome = None /\ UNCHANGED <<inputs, option, kind, answer>>
    BY <1>1, IsRunning, SameIs
  <2> QED BY <1>1, <2>1 DEF Buffers
<1>3. /\ Running' /\ Reports /\ pc' \in {"lookup", "launch", "over"} /\ (pc' # "over" => outcome' = None)
      /\ \A x \in Range(launched)' : x \in Range(launched) \/ x = k
  <2>1. CASE launched' = Append(launched, k) /\ AfterLaunch
    <3>1. /\ Running' /\ Reports /\ pc' \in {"launch", "over"} /\ (pc' # "over" => outcome' = None)
          /\ \A x \in Range(launched)' : x \in Range(launched) \/ x = k
      BY <1>1, <2>1, AfterLaunchRuns, LaunchedMore
    <3> QED BY <3>1
  <2>2. CASE launched' = Append(launched, k) /\ Unsupported
    <3>1. /\ Running' /\ Reports /\ pc' \in {"lookup", "over"} /\ (pc' # "over" => outcome' = None)
          /\ \A x \in Range(launched)' : x \in Range(launched) \/ x = k
      BY <1>1, <2>2, UnsupportedRuns, LaunchedMore
    <3> QED BY <3>1
  <2>3. CASE Leave("thrown") /\ UNCHANGED launched
    <3>1. pc' = "over" /\ outcome' = "thrown" /\ freed' = freed /\ UNCHANGED backend
          /\ outcome' \notin {"success", "missing"}
      BY <2>3 DEF Leave
    <3>2. Running'
      BY <1>1, <2>3, <3>1, StopRuns
    <3> QED BY <2>3, <3>1, <3>2 DEF Reports
  <2> QED BY <1>1, <2>1, <2>2, <2>3 DEF Peek
<1>4. Buffers'
  <2>1. Taking({}) /\ \A l \in Lazies : acquired'[l] = 1
    BY <1>1, <1>2 DEF Taking
  <2> QED BY <1>2, <1>3, <2>1, BuffersKept
<1> QED BY <1>1, <1>3, <1>4, GoesOn

LEMMA ElsewhereKeeps ==
  ASSUME LaunchInv, UNCHANGED launchVars, kind' = kind, pc = "idle" \/ answer' = answer
  PROVE  LaunchInv'
<1>1. /\ pc' = pc /\ inputs' = inputs /\ option' = option /\ backend' = backend /\ at' = at
      /\ launched' = launched /\ acquired' = acquired /\ freed' = freed /\ outcome' = outcome
  BY DEF launchVars
<1>2. Affine(backend)' = Affine(backend)
  BY <1>1, AffineKept
<1>3. Buffers'
  <2>1. Range(launched)' = Range(launched)
    BY <1>1
  <2> QED BY <1>1, <1>2, <2>1 DEF LaunchInv, Buffers
<1>4. CASE pc = "idle"
  BY <1>1, <1>3, <1>4 DEF LaunchInv
<1>5. CASE pc # "idle"
  <2>1. Running => Running'
    BY <1>1, <1>5, RunningKept
  <2>2. FailedEarly => FailedEarly'
    BY <1>1 DEF FailedEarly, Forced
  <2> QED BY <1>1, <1>3, <1>5, <2>1, <2>2 DEF LaunchInv
<1> QED BY <1>4, <1>5

LEMMA LaunchStep ==
  ASSUME LookupInv, LaunchInv, [LaunchNext]_<<vars, launchVars>>
  PROVE  LaunchInv'
<1>1. CASE (Generate \/ Write) /\ UNCHANGED launchVars
  BY <1>1, ElsewhereKeeps DEF Generate, Write
<1>2. CASE \E call \in Calls : kind = "kernel" /\ Call(call) /\ UNCHANGED launchVars
  <2>1. kind = "kernel" /\ kind' = kind /\ UNCHANGED launchVars
    BY <1>2 DEF Call
  <2>2. pc = "idle"
    BY <2>1 DEF LaunchInv
  <2> QED BY <2>1, <2>2, ElsewhereKeeps
<1>3. CASE \E call \in Calls, in \in Inputs, opt \in Options : attn_bwd(call, in, opt)
  BY <1>3, StartKeeps
<1>4. CASE LookupKernel \/ LookupAffine \/ LaunchKernel \/ LaunchAffine
  BY <1>4, LookupKernelKeeps, LookupAffineKeeps, LaunchKernelKeeps, LaunchAffineKeeps
<1>5. CASE UNCHANGED <<vars, launchVars>>
  BY <1>5, ElsewhereKeeps DEF vars
<1> QED BY <1>1, <1>2, <1>3, <1>4, <1>5 DEF LaunchNext

LEMMA LaunchInvHolds == LaunchSpec => []LaunchInv
<1>1. LaunchInit => LookupInv /\ LaunchInv
  BY LookupInit, IdleIs DEF LaunchInit
<1>2. LookupInv /\ LaunchInv /\ [LaunchNext]_<<vars, launchVars>> => LookupInv' /\ LaunchInv'
  BY LookupStep, LaunchIsLookup, LaunchStep
<1> QED BY <1>1, <1>2, PTL DEF LaunchSpec

-----------------------------------------------------------------------------
(* What the invariant says of a call that is over.                         *)

LEMMA OverIs ==
  ASSUME LaunchInv, outcome \in {"success", "missing"}
  PROVE  Running
<1>1. pc = "over"
  BY NoneIs DEF LaunchInv, NoneDiffers
<1>2. ~FailedEarly
  BY DEF FailedEarly
<1> QED BY <1>1, <1>2 DEF LaunchInv

LEMMA PrefixIs ==
  ASSUME NEW b \in Index, NEW n \in 0..Len(Kernels(b))
  PROVE  /\ Launched(<<>>, Kernels(b), n) = SubSeq(Kernels(b), 1, n)
         /\ Range(SubSeq(Kernels(b), 1, n)) \subseteq Range(Kernels(b))
         /\ Range(Kernels(b)) \subseteq Names(b)
<1> DEFINE k == Kernels(b)
           s == SubSeq(k, 1, n)
           e == <<>>
<1>1. k \in Seq(Names(b)) /\ s \in Seq(AllNames)
  BY KernelsAre, NamesAre
<1>2. Launched(e, k, n) = e \o s
  BY DEF Launched
<1>3. e \o s = s
  <2> HIDE DEF s
  <2> QED BY <1>1, NothingBefore
<1>4. e \in Seq(AllNames) /\ Range(e) = {}
  BY EmptyRange
<1>5. n \in 0..Len(k)
  OBVIOUS
<1> HIDE DEF e, s, k
<1>6. Range(Launched(e, k, n)) \subseteq Range(e) \cup Range(k) /\ Range(k) \subseteq Names(b)
  BY <1>1, <1>4, <1>5, LaunchedRange
<1>7. Range(s) \subseteq Range(k)
  BY <1>2, <1>3, <1>4, <1>6
<1> QED BY <1>2, <1>3, <1>6, <1>7 DEF k, s, e

LEMMA SuccessIs ==
  ASSUME LaunchInv, outcome = "success"
  PROVE  \/ launched = Kernels(Wanted)
         \/ /\ ~Forced /\ Affine(Wanted)
            /\ \E n \in 0..Len(Kernels(Wanted)) : launched = SubSeq(Kernels(Wanted), 1, n) \o Kernels(0)
<1>1. Running
  BY OverIs
<1>2. PICK n \in 0..Len(Kernels(Wanted)) : RunBy(Earlier(n), Kernels(backend), launched, pc, at, outcome)
  BY <1>1 DEF Running
<1>3. backend \in Index /\ Kernels(backend) \in Seq(AllNames)
  BY <1>1, NamesAre DEF Running
<1>4. launched = Earlier(n) \o Kernels(backend)
  <2>1. launched = Launched(Earlier(n), Kernels(backend), Len(Kernels(backend)))
    BY <1>2 DEF RunBy
  <2> QED BY <1>3, <2>1, LaunchedAll
<1>5. CASE backend = Wanted
  <2>1. launched = <<>> \o Kernels(backend)
    BY <1>4, <1>5 DEF Earlier
  <2>2. <<>> \o Kernels(backend) = Kernels(backend)
    BY <1>3, NothingBefore
  <2> QED BY <1>5, <2>1, <2>2
<1>6. CASE backend # Wanted
  <2>1. backend = 0 /\ ~Forced /\ Affine(Wanted)
    BY <1>1, <1>6 DEF Running
  <2>2. launched = SubSeq(Kernels(Wanted), 1, n) \o Kernels(0)
    BY <1>4, <1>6, <2>1 DEF Earlier
  <2> QED BY <1>2, <2>1, <2>2
<1> QED BY <1>5, <1>6

LEMMA MissingIs ==
  ASSUME LaunchInv, outcome = "missing"
  PROVE  Range(launched) \cap Range(Kernels(backend)) = {}
<1>1. Running
  BY OverIs
<1>2. PICK n \in 0..Len(Kernels(Wanted)) : RunBy(Earlier(n), Kernels(backend), launched, pc, at, outcome)
  BY <1>1 DEF Running
<1>3. Wanted \in Index /\ backend \in Index /\ Kernels(backend) \in Seq(AllNames) /\ Earlier(n) \in Seq(AllNames)
  BY <1>1, NamesAre, EarlierAre DEF Running
<1>4. launched = Earlier(n)
  <2>1. launched = Launched(Earlier(n), Kernels(backend), 0)
    BY <1>2 DEF RunBy
  <2> QED BY <1>3, <2>1, LaunchedNone
<1>5. CASE backend = Wanted
  BY <1>4, <1>5, EmptyRange DEF Earlier
<1>6. CASE backend # Wanted
  <2>1. backend = 0 /\ Affine(Wanted) /\ launched = SubSeq(Kernels(Wanted), 1, n)
    BY <1>1, <1>4, <1>6 DEF Running, Earlier
  <2>2. Range(launched) \subseteq Names(Wanted)
    BY <1>3, <2>1, PrefixIs
  <2>3. Range(Kernels(backend)) \subseteq Names(0)
    <3>1. 0 \in 0..Len(Kernels(backend))
      BY <1>3
    <3> QED BY <1>3, <2>1, <3>1, PrefixIs
  <2> QED BY <1>3, <2>1, <2>2, <2>3, BackendsAre
<1> QED BY <1>5, <1>6

LEMMA StaysIs ==
  ASSUME LaunchInv, pc # "idle", Forced \/ option.deterministic
  PROVE  Range(launched) \subseteq Range(Kernels(Wanted))
<1>1. CASE FailedEarly
  BY <1>1, EmptyRange DEF FailedEarly
<1>2. CASE ~FailedEarly
  <2>1. Running
    BY <1>2 DEF LaunchInv
  <2>2. backend = Wanted
    BY <2>1, BackendsAre DEF Running, Wanted
  <2>3. PICK n \in 0..Len(Kernels(Wanted)) : RunBy(Earlier(n), Kernels(backend), launched, pc, at, outcome)
    BY <2>1 DEF Running
  <2>4. Earlier(n) = <<>>
    BY <2>2 DEF Earlier
  <2>5. PICK m \in 0..Len(Kernels(Wanted)) : launched = Launched(<<>>, Kernels(Wanted), m)
    BY <2>2, <2>3, <2>4 DEF RunBy
  <2>6. Wanted \in Index
    BY <2>1 DEF Running
  <2> QED BY <2>5, <2>6, PrefixIs
<1> QED BY <1>1, <1>2

(* Whatever the backends, their kernels and the inputs: a call that        *)
(* succeeds launched all kernels of one backend in their order, of the one *)
(* it was to use or of the fallback; one that misses a kernel launched none*)
(* of that backend; a forced or deterministic one never leaves its own.    *)
THEOREM LaunchesAreRight == LaunchSpec => []LaunchRight
<1>1. LaunchInv => LaunchRight
  BY SuccessIs, MissingIs, StaysIs DEF LaunchRight
<1> QED BY <1>1, LaunchInvHolds, PTL

(* No lazy tensor is acquired twice in a call, through a backend and its   *)
(* fallback, or although the caller gave none; and they are disposed of    *)
(* exactly by the calls that report how their launch ended.                *)
THEOREM BuffersAreOnce == LaunchSpec => []BuffersOnce
<1>1. ASSUME LaunchInv
      PROVE  BuffersOnce
  <2>1. Buffers
    BY <1>1 DEF LaunchInv
  <2>2. \A l \in Lazies : acquired[l] <= (IF l \in inputs THEN 1 ELSE 0)
    BY <2>1 DEF Buffers
  <2>3. outcome \in {"success", "error", "missing", "unsupported"} <=> freed
    BY <2>1 DEF Buffers
  <2>4. \A l \in Lazies : outcome = "success" /\ (\E k \in Range(launched) : l \in Uses(k)) => acquired[l] = 1
    BY <2>1 DEF Buffers
  <2> QED BY <2>2, <2>3, <2>4 DEF BuffersOnce
<1> QED BY <1>1, LaunchInvHolds, PTL
=============================================================================
