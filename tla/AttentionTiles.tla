--------------------------- MODULE AttentionTiles ---------------------------
(***************************************************************************)
(* The tile arithmetic every attention kernel of tritonsrc/ shares: which  *)
(* blocks of keys a tile of query rows visits, which of them are masked    *)
(* element by element, where a row of the log-sum-exp lies and which       *)
(* random number drops an element.  Pure operators; the kernels that use   *)
(* them are AttnForward and AttnBackward.                                  *)
(*                                                                         *)
(* A closed interval of block indices is a pair <<lo, hi>>.  `window` is   *)
(* [causal, left, right]; without causal the two bounds are not read.      *)
(***************************************************************************)
EXTENDS Integers

Smaller(a, b) == IF a <= b THEN a ELSE b
Larger(a, b) == IF a >= b THEN a ELSE b

cdiv(x, y) == (x + y - 1) \div y

(* The // of Triton truncates towards zero. *)
TruncDiv(x, y) == IF x >= 0 THEN x \div y ELSE -((-x) \div y)

div_rd(x, y) ==
  LET d == TruncDiv(x, y)
  IN  IF d * y > x THEN d - 1 ELSE d

closed_interval_isect(a, b) ==
  IF b[1] > a[2] \/ a[1] > b[2] \/ a[1] > a[2]
    THEN <<-114, -514>>
    ELSE <<Larger(a[1], b[1]), Smaller(a[2], b[2])>>

is_closed_interval_empty(a) == a[1] > a[2]

Blocks(a) == a[1]..a[2]

-----------------------------------------------------------------------------
(* Windows.  Two values of a bound stand for the bounds of a causal mask   *)
(* aligned top left or bottom right, which differ per sequence.            *)
TopLeft == -2147483647
BottomRight == -2147483646

parse_window(window, sq, sk) ==
  [causal |-> window.causal,
   left   |-> IF window.left \in {TopLeft, BottomRight} THEN sq
                                                        ELSE window.left,
   right  |-> CASE window.right = TopLeft -> 0
                [] window.right = BottomRight -> sk - sq
                [] OTHER -> window.right]

\* Fault: the columns keep the window of the rows.
TransposedNot(window) == window

(* dk and dv walk the columns: rows and keys, left and right change place. *)
Transposed(window) ==
  [causal |-> window.causal, left |-> window.right, right |-> window.left]

(* The element mask of the inner loops. *)
Allowed(window, m, n) ==
  window.causal => /\ m + window.right >= n
                   /\ m - window.left <= n

-----------------------------------------------------------------------------
(* What a tile of rows start..start+BM-1 of sq visits of the sk keys:      *)
(* lb and rb block by block under the mask, fb without any.                *)

(* A last block the keys do not fill moves from fb to rb. *)
Trailing(iv, sk, BN) ==
  IF iv.fb[1] * BN < sk /\ sk < iv.fb[2] * BN + BN
    THEN [iv EXCEPT !.fb = <<iv.fb[1], (sk \div BN) - 1>>,
                    !.rb = <<sk \div BN, sk \div BN>>]
    ELSE iv

\* Fault: the full blocks begin at the last left-masked one.
CausalIntervalsOverlap(window, start, sq, sk, mask_on_seq_q, BM, BN) ==
  LET end  == Smaller(start + BM, sq)
      lsec == <<div_rd(start - window.left, BN),
                div_rd(end - window.left - 1, BN)>>
      rsec == <<div_rd(start + window.right, BN),
                div_rd(end + window.right - 1, BN)>>
      vb   == <<0, TruncDiv(sk - 1, BN)>>
  IN  IF is_closed_interval_empty(closed_interval_isect(lsec, rsec)) /\ ~mask_on_seq_q
        THEN [lb |-> closed_interval_isect(lsec, vb),
              fb |-> closed_interval_isect(<<lsec[2], rsec[1] - 1>>, vb),
              rb |-> closed_interval_isect(rsec, vb)]
        ELSE [lb |-> closed_interval_isect(<<lsec[1], rsec[2]>>, vb),
              fb |-> <<-3, -4>>, rb |-> <<-3, -4>>]

CausalIntervals(window, start, sq, sk, mask_on_seq_q, BM, BN) ==
  LET end  == Smaller(start + BM, sq)
      lsec == <<div_rd(start - window.left, BN),
                div_rd(end - window.left - 1, BN)>>
      rsec == <<div_rd(start + window.right, BN),
                div_rd(end + window.right - 1, BN)>>
      vb   == <<0, TruncDiv(sk - 1, BN)>>
  IN  IF /\ is_closed_interval_empty(closed_interval_isect(lsec, rsec))
         /\ ~mask_on_seq_q
        THEN [lb |-> closed_interval_isect(lsec, vb),
              fb |-> closed_interval_isect(<<lsec[2] + 1, rsec[1] - 1>>, vb),
              rb |-> closed_interval_isect(rsec, vb)]
        ELSE [lb |-> closed_interval_isect(<<lsec[1], rsec[2]>>, vb),
              fb |-> <<-3, -4>>,
              rb |-> <<-3, -4>>]

PlainIntervals(sk, mask_on_seq_q, BN) ==
  IF mask_on_seq_q
    THEN [lb |-> <<0, cdiv(sk, BN) - 1>>, fb |-> <<-1, -2>>, rb |-> <<-1, -2>>]
    ELSE [lb |-> <<-1, -2>>,
          fb |-> <<0, sk \div BN>>,
          rb |-> <<(sk \div BN) + 1, cdiv(sk, BN) - 1>>]

calculate_intervals(window, start, sq, sk, BM, BN) ==
  LET mask_on_seq_q == start + BM > sq
  IN  Trailing(IF window.causal
                 THEN CausalIntervals(window, start, sq, sk, mask_on_seq_q, BM, BN)
                 ELSE PlainIntervals(sk, mask_on_seq_q, BN), sk, BN)

NothingToDo(iv) == /\ is_closed_interval_empty(iv.lb)
                   /\ is_closed_interval_empty(iv.fb)
                   /\ is_closed_interval_empty(iv.rb)

(* How often the inner loops add element (m, n) to the accumulator. *)
Times(iv, window, m, n, sq, sk, BN) ==
  LET b == n \div BN
      masked == m < sq /\ n < sk /\ Allowed(window, m, n)
  IN    (IF b \in Blocks(iv.fb) THEN 1 ELSE 0)
      + (IF masked /\ b \in Blocks(iv.lb) THEN 1 ELSE 0)
      + (IF masked /\ b \in Blocks(iv.rb) THEN 1 ELSE 0)

(* The columns a tile may touch at all, those past the keys included. *)
Columns(iv, BN) ==
  {n \in 0..((Larger(iv.lb[2], Larger(iv.fb[2], iv.rb[2])) + 1) * BN - 1) :
     n \div BN \in Blocks(iv.lb) \cup Blocks(iv.fb) \cup Blocks(iv.rb)}

-----------------------------------------------------------------------------
(* Deals consecutive program ids, which the hardware sends round robin to  *)
(* the XCDs, so that each XCD gets a run of consecutive heads.             *)
remap_xcd(pid, grid, xcds) ==
  IF xcds = 1 THEN pid ELSE
  LET per_xcd == cdiv(grid, xcds)
      tall    == IF grid % xcds = 0 THEN xcds ELSE grid % xcds
      xcd     == pid % xcds
      local   == pid \div xcds
  IN  IF xcd < tall
        THEN xcd * per_xcd + local
        ELSE tall * per_xcd + (xcd - tall) * (per_xcd - 1) + local

lse_offset(b, h, s, H, S) == (b * H + h) * S + s

(* The random number of element (i, j) of the tile at (x, y): an offset of *)
(* the Philox stream, which yields `per` numbers, and the one of those.    *)
dropout_number(base, x, y, i, j, stride, per) ==
  <<base + x * stride + y \div per + i * stride + j \div per, j % per>>
=============================================================================
