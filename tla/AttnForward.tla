----------------------------- MODULE AttnForward -----------------------------
(***************************************************************************)
(* One launch of the forward attention kernel (tritonsrc/fwd_kernel.py,    *)
(* grid of v3src/flash/attn_fwd.cc): the grid of workgroups, their loop    *)
(* over tiles, and what they store.  Tensors are functions from the rows   *)
(* written so far; a row of the output is the set of the terms summed into *)
(* it, one per key, so that a wrong address, mask or block shows.          *)
(***************************************************************************)
EXTENDS AttentionTiles, FiniteSets

CONSTANTS
  Launches,           \* the launches considered: records of arguments
  Slots,              \* workgroups that are resident at a time
  BLOCK_M, BLOCK_N,   \* rows and keys of a tile
  NUM_CU,             \* Num_CU * GRID_CU_MULTIP of a persistent grid
  PHILOX_RN_PER_OFFSET

(* A launch: num is Num_seqlens, > 0 for compact varlen, < 0 for padded    *)
(* varlen, 0 otherwise; cu and strides hold functions on 0..|num|, the     *)
(* latter None unless the compact sequences lie apart; dynamic says that   *)
(* the kernel was built with PERSISTENT_TYPE 2.                            *)
None == <<>>

(* The window a caller's `causal` stands for, of sq queries and sk keys:   *)
(* [causal, left, right] for a pair, TRUE or FALSE, or a CausalType.       *)
TOP_LEFT == 1
BOTTOM_RIGHT == 2

translate_causal(causal, sq, sk) ==
  CASE causal.type = "pair" -> [causal |-> TRUE, left |-> causal.left, right |-> causal.right]
    [] causal.type = "bool" /\ ~causal.is -> [causal |-> FALSE, left |-> 0, right |-> 0]
    [] \/ causal.type = "bool" /\ causal.is
       \/ causal.type = "enum" /\ causal.is = TOP_LEFT
         -> [causal |-> TRUE, left |-> sq, right |-> 0]
    [] causal.type = "enum" /\ causal.is = BOTTOM_RIGHT
         -> [causal |-> TRUE, left |-> sq - sk, right |-> sk]

(* What the caller vouches for: lengths that add up, compact sequences     *)
(* that do not overlap, the end of the last one bounding the tensor, heads *)
(* in whole groups, a row of Out for every query, and a bias only for      *)
(* kernels that are built with one: not causal, not for compact sequences. *)
Positive == Nat \ {0}

WellFormed(l) ==
  LET n == IF l.num < 0 THEN -l.num ELSE l.num
  IN  /\ l.num \in Int
      /\ {l.batch, l.max_q, l.max_k, l.Hq, l.Hk, l.xcds} \subseteq Positive
      /\ l.window \in [causal : BOOLEAN, left : Int, right : Int]
      /\ l.Hq % l.Hk = 0
      /\ l.bias => ~l.window.causal /\ l.num <= 0
      /\ IF l.num = 0 THEN l.max_q <= l.out_rows
         ELSE \A z \in 0..(n - 1) : l.cu_q[z+1] - l.cu_q[z] <= l.out_rows
      /\ l.out_rows \in Positive
      /\ l.num # 0 =>
           /\ \A cu \in {l.cu_q, l.cu_k} :
                /\ cu \in [0..n -> Nat]
                /\ \A i, j \in 0..n : i <= j => cu[i] <= cu[j]
           /\ \A z \in 0..(n - 1) : /\ l.cu_q[z+1] - l.cu_q[z] <= l.max_q
                                   /\ l.cu_k[z+1] - l.cu_k[z] <= l.max_k
      /\ l.num > 0 /\ l.strides_q # None =>
           /\ l.strides_q \in [0..n -> Nat] /\ l.strides_k \in [0..n -> Nat]
           /\ \A z, y \in 0..n : z < y =>
                /\ l.strides_q[z] + l.cu_q[z+1] - l.cu_q[z] <= l.strides_q[y]
                /\ l.strides_k[z] + l.cu_k[z+1] - l.cu_k[z] <= l.strides_k[y]

(* The blocks of keys hold whole groups of random numbers. *)
ASSUME AttnForwardAssumption ==
  /\ {BLOCK_M, BLOCK_N, NUM_CU, PHILOX_RN_PER_OFFSET} \subseteq Positive
  /\ BLOCK_M % PHILOX_RN_PER_OFFSET = 0 /\ BLOCK_N % PHILOX_RN_PER_OFFSET = 0
  /\ \A l \in Launches : WellFormed(l)

VARIABLES
  launch,    \* the arguments of this launch
  grid,      \* programs that have not started
  wg,        \* [Slots -> program]
  counter,   \* persistent_atomic_counter
  Out,       \* rows of the output written so far
  L          \* log-sum-exp, by address

forward == <<launch, grid, wg, counter, Out, L>>

-----------------------------------------------------------------------------
(* Addresses. *)

Batch == IF launch.num = 0 THEN launch.batch
         ELSE IF launch.num > 0 THEN launch.num ELSE -launch.num

SeqlenQ(z) == IF launch.num = 0 THEN launch.max_q ELSE launch.cu_q[z+1] - launch.cu_q[z]
SeqlenK(z) == IF launch.num = 0 THEN launch.max_k ELSE launch.cu_k[z+1] - launch.cu_k[z]

batch_index(z) == IF launch.num > 0 THEN 0 ELSE z

StartQ(z) == IF launch.num <= 0 THEN 0
             ELSE IF launch.strides_q # None THEN launch.strides_q[z] ELSE launch.cu_q[z]
StartK(z) == IF launch.num <= 0 THEN 0
             ELSE IF launch.strides_q # None THEN launch.strides_k[z] ELSE launch.cu_k[z]

lse_stride == IF launch.num <= 0 THEN launch.max_q
              ELSE IF launch.strides_q # None THEN launch.strides_q[launch.num]
              ELSE launch.cu_q[launch.num]

GroupSize == launch.Hq \div launch.Hk

RowAddr(z, h, m) == <<batch_index(z), h, StartQ(z) + m>>
KeyAddr(z, h, n) == <<batch_index(z), h, StartK(z) + n>>
LseAddr(z, h, m) ==
  lse_offset(batch_index(z), h, StartQ(z), launch.Hq, lse_stride) + m

Window(z) == parse_window(launch.window, SeqlenQ(z), SeqlenK(z))

(* The element of the bias added to element (m, n); also of its gradient. *)
BiasAddr(z, h, m, n) == <<batch_index(z), h, m, n>>

(* What is loaded for element (m, n): a row of Q, of K and V, the bias. *)
Operands(z, h, m, n) ==
  [row  |-> RowAddr(z, h, m),
   key  |-> KeyAddr(z, h \div GroupSize, n),
   bias |-> IF launch.bias THEN BiasAddr(z, h, m, n) ELSE None]

batch_philox_offset(z, h, stride) == (z * launch.Hq + h) * launch.max_q * stride

\* Fault: the stride of a row is rounded down.
DropoutNumberShort(z, h, x, y, m, n) ==
  LET stride == launch.max_k \div PHILOX_RN_PER_OFFSET
  IN  dropout_number(batch_philox_offset(z, h, stride),
                     x, y, m - x, n - y, stride, PHILOX_RN_PER_OFFSET)

(* Element (m, n) of head h, met in the tile of rows from x, keys from y. *)
DropoutNumber(z, h, x, y, m, n) ==
  LET stride == cdiv(launch.max_k, PHILOX_RN_PER_OFFSET)
  IN  dropout_number(batch_philox_offset(z, h, stride),
                     x, y, m - x, n - y, stride, PHILOX_RN_PER_OFFSET)

-----------------------------------------------------------------------------
(* The grid and the tile of a program. *)

Persistent == launch.dynamic /\ launch.num = 0
TilesPerHead == cdiv(launch.max_q, BLOCK_M)
NumTiles == IF Persistent THEN TilesPerHead * launch.Hq * launch.batch ELSE 1

\* Fault: the rows behind the last whole tile get no program.
GridRoundedDown ==
  IF Persistent THEN (0..(Smaller(NUM_CU, NumTiles) - 1)) \X {0} \X {0}
  ELSE IF launch.xcds > 1
    THEN (0..(launch.Hq - 1)) \X (0..(launch.max_q \div BLOCK_M - 1)) \X (0..(Batch - 1))
    ELSE (0..(launch.max_q \div BLOCK_M - 1)) \X (0..(launch.Hq - 1)) \X (0..(Batch - 1))

Grid ==
  IF Persistent THEN (0..(Smaller(NUM_CU, NumTiles) - 1)) \X {0} \X {0}
  ELSE IF launch.xcds > 1
    THEN (0..(launch.Hq - 1)) \X (0..(TilesPerHead - 1)) \X (0..(Batch - 1))
    ELSE (0..(TilesPerHead - 1)) \X (0..(launch.Hq - 1)) \X (0..(Batch - 1))

Tile(w) ==
  IF Persistent
    THEN LET per_sample == TilesPerHead * launch.Hq
         IN  [z |-> w.tile \div per_sample,
              h |-> (w.tile % per_sample) \div TilesPerHead,
              start |-> ((w.tile % per_sample) % TilesPerHead) * BLOCK_M]
    ELSE [z |-> w.pid[3],
          h |-> IF launch.xcds > 1 THEN remap_xcd(w.pid[1], launch.Hq, launch.xcds)
                                   ELSE w.pid[2],
          start |-> (IF launch.xcds > 1 THEN w.pid[2] ELSE w.pid[1]) * BLOCK_M]

(* The rows a masked load or store of `regs` rows from `start` reaches. *)
InBounds(start, regs, rows) == {m \in start..(start + regs - 1) : m < rows}

\* Fault: the store of a last, partial tile is not bounded.
TileRowsUnbounded(t) == t.start..(t.start + BLOCK_M - 1)

TileRows(t) == InBounds(t.start, BLOCK_M, SeqlenQ(t.z))

Intervals(t) == calculate_intervals(Window(t.z), t.start, SeqlenQ(t.z), SeqlenK(t.z),
                                    BLOCK_M, BLOCK_N)

(* What row m of tile t adds for key n: v of that key, weighted by p unless *)
(* the random number of the element drops it.                              *)
Summand(t, m, n, times) ==
  LET o == Operands(t.z, t.h, m, n)
  IN  [row |-> o.row, key |-> o.key, bias |-> o.bias, times |-> times,
       number |-> DropoutNumber(t.z, t.h, t.start, n - (n % BLOCK_N), m, n)]

(* What the inner loops sum into row m of tile t. *)
Attends(t, m) ==
  LET iv == Intervals(t)
      times(n) == Times(iv, Window(t.z), m, n, SeqlenQ(t.z), SeqlenK(t.z), BLOCK_N)
  IN  {Summand(t, m, n, times(n)) : n \in {n \in Columns(iv, BLOCK_N) : times(n) > 0}}

(* Stores of the rows ms of t: f(m) at the address a(m). *)
Store(tensor, a(_), f(_), ms) ==
  [i \in {a(m) : m \in ms} \cup DOMAIN tensor |->
     IF i \in {a(m) : m \in ms} THEN f(CHOOSE m \in ms : a(m) = i) ELSE tensor[i]]

StoreL(t, ms, early) ==
  L' = Store(L, LAMBDA m : LseAddr(t.z, t.h, m),
                LAMBDA m : [row |-> <<t.z, t.h, m>>, inf |-> early], ms)

-----------------------------------------------------------------------------
Idle == [pc |-> "idle"]

Goto(c, place) == wg' = [wg EXCEPT ![c].pc = place]

(* A resident slot takes a program, which takes its first tile. *)
Start(c) ==
  /\ wg[c].pc = "idle"
  /\ \E p \in grid :
       /\ grid' = grid \ {p}
       /\ wg' = [wg EXCEPT ![c] = [pc   |-> "loop", pid |-> p, continue |-> TRUE,
                                   tile |-> IF Persistent THEN counter ELSE 0]]
  /\ counter' = IF Persistent THEN counter + 1 ELSE counter
  /\ UNCHANGED <<launch, Out, L>>

(* The head of the loop, up to the decision what the tile needs. *)
Loop(c) ==
  LET t == Tile(wg[c])
      past == launch.num # 0 /\ t.start >= SeqlenQ(t.z)
  IN  /\ wg[c].pc = "loop" /\ wg[c].tile < NumTiles
      /\ wg' = [wg EXCEPT ![c].continue = @ /\ ~past,
                          ![c].pc = IF ~wg[c].continue \/ past THEN "next"
                                    ELSE IF launch.window.causal /\ NothingToDo(Intervals(t))
                                    THEN "zero" ELSE "store_l"]
      /\ UNCHANGED <<launch, grid, counter, Out, L>>

(* A tile whose rows attend to nothing: zeros, and infinity for L. *)
ZeroOut(c) ==
  LET t == Tile(wg[c])
  IN  /\ wg[c].pc = "zero"
      /\ Out' = Store(Out, LAMBDA m : RowAddr(t.z, t.h, m), LAMBDA m : {}, TileRows(t))
      /\ Goto(c, "zero_l")
      /\ UNCHANGED <<launch, grid, counter, L>>

ZeroL(c) ==
  LET t == Tile(wg[c])
  IN  /\ wg[c].pc = "zero_l"
      /\ StoreL(t, InBounds(t.start, BLOCK_M, launch.max_q), TRUE)
      /\ wg' = [wg EXCEPT ![c].pc = "next", ![c].continue = FALSE]
      /\ UNCHANGED <<launch, grid, counter, Out>>

(* Any other tile: the inner loops, then L, then the output. *)
WriteL(c) ==
  LET t == Tile(wg[c])
  IN  /\ wg[c].pc = "store_l"
      /\ StoreL(t, TileRows(t), FALSE)
      /\ Goto(c, "store_out")
      /\ UNCHANGED <<launch, grid, counter, Out>>

WriteOut(c) ==
  LET t == Tile(wg[c])
  IN  /\ wg[c].pc = "store_out"
      /\ Out' = Store(Out, LAMBDA m : RowAddr(t.z, t.h, m), LAMBDA m : Attends(t, m),
                      TileRows(t))
      /\ Goto(c, "next")
      /\ UNCHANGED <<launch, grid, counter, L>>

(* The end of the loop's body, and the end of the program. *)
NextTile(c) ==
  /\ wg[c].pc = "next"
  /\ wg' = [wg EXCEPT ![c].pc = "loop",
                      ![c].tile = IF Persistent THEN counter ELSE NumTiles]
  /\ counter' = IF Persistent THEN counter + 1 ELSE counter
  /\ UNCHANGED <<launch, grid, Out, L>>

Exit(c) ==
  /\ wg[c].pc = "loop" /\ wg[c].tile >= NumTiles
  /\ wg' = [wg EXCEPT ![c] = Idle]
  /\ UNCHANGED <<launch, grid, counter, Out, L>>

-----------------------------------------------------------------------------
ForwardInit ==
  /\ launch \in Launches
  /\ grid = Grid
  /\ wg = [c \in Slots |-> Idle]
  /\ counter = 0
  /\ Out = <<>> /\ L = <<>>

ForwardStep(c) ==
  \/ Start(c) \/ Loop(c) \/ ZeroOut(c) \/ ZeroL(c)
  \/ WriteL(c) \/ WriteOut(c) \/ NextTile(c) \/ Exit(c)

ForwardDone == grid = {} /\ \A c \in Slots : wg[c] = Idle
=============================================================================
