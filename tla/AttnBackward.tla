---------------------------- MODULE AttnBackward ----------------------------
(***************************************************************************)
(* The forward launch and, on the same stream behind it, the kernel that   *)
(* returns the dropout mask if the caller asks for it, and the kernels of  *)
(* the backward pass: bwd_preprocess or bwd_preprocess_varlen, then        *)
(* bwd_kernel_dk_dv, then bwd_kernel_dq (operator triton_split of          *)
(* rules/flash), or bwd_kernel_fuse alone.  A row of a gradient is the set *)
(* of the terms summed into it, each with the row of L, of the delta and   *)
(* of the output's gradient it was computed from.  A program of these      *)
(* kernels writes rows no other program touches and reads what an earlier  *)
(* kernel wrote, so one step runs it to its end; programs run in any order.*)
(***************************************************************************)
EXTENDS AttnForward

VARIABLES
  kernel,    \* the kernel the stream is at
  Delta,     \* the row sums of Out * DO, by address (split only)
  DQ, DKV,   \* gradients of the queries; of keys and values, stored together
  DB,        \* gradient of the bias: element -> how often it was stored
  Encoded    \* encoded_softmax: element -> the number that drops it

backward == <<kernel, Delta, DQ, DKV, DB, Encoded>>
vars == <<forward, backward>>

Garbage == <<>>    \* memory nobody has written, or another tensor's layout

-----------------------------------------------------------------------------
(* What a program reads of the rows of the forward pass. *)

OutRow(z, h, m) == IF RowAddr(z, h, m) \in DOMAIN Out THEN <<z, h, m>> ELSE Garbage

LRow(z, h, m) ==
  LET a == LseAddr(z, h, m)
  IN  IF a \in DOMAIN L THEN L[a].row ELSE Garbage

SplitRow(z, h, m) ==
  LET a == LseAddr(z, h, m)
  IN  [do |-> <<z, h, m>>, l |-> LRow(z, h, m),
       delta |-> IF a \in DOMAIN Delta THEN Delta[a] ELSE Garbage]

(* The fused kernel sums Out * DO itself. *)
FusedDqRow(z, h, m) ==
  [do |-> <<z, h, m>>, l |-> LRow(z, h, m), delta |-> OutRow(z, h, m)]

(* Its dk_dv branch builds the pointers of DO from the strides of Out. *)
FusedDkDvRow(z, h, m) ==
  [do    |-> IF launch.do_like_out THEN <<z, h, m>> ELSE Garbage,
   l     |-> LRow(z, h, m),
   delta |-> IF launch.do_like_out THEN OutRow(z, h, m) ELSE Garbage]

(* The term of element e of the tile, computed from what `row` holds. *)
Term(z, e, row) ==
  LET o == Operands(z, e.h, e.m, e.n)
  IN  [do |-> row.do, l |-> row.l, delta |-> row.delta,
       row |-> o.row, key |-> o.key, bias |-> o.bias,
       times |-> e.times, number |-> e.number]

-----------------------------------------------------------------------------
(* A tile of BQ queries and its blocks of BK keys. *)

QueryRows(z, start, BQ) == InBounds(start, BQ, SeqlenQ(z))

DqIntervals(z, start, BQ, BK) ==
  calculate_intervals(Window(z), start, SeqlenQ(z), SeqlenK(z), BQ, BK)

(* The elements of row m the inner loop walks over. *)
DqElements(z, h, start, m, BQ, BK) ==
  LET iv == DqIntervals(z, start, BQ, BK)
      times(n) == Times(iv, Window(z), m, n, SeqlenQ(z), SeqlenK(z), BK)
  IN  {[h |-> h, m |-> m, n |-> n, times |-> times(n),
        number |-> DropoutNumber(z, h, start, n - (n % BK), m, n)] :
         n \in {n \in Columns(iv, BK) : times(n) > 0}}

DqTerms(z, h, start, m) ==
  {Term(z, e, SplitRow(z, h, m)) : e \in DqElements(z, h, start, m, BLOCK_M, BLOCK_N)}

(* The fused kernel cuts the queries into blocks of BLOCK_N. *)
FusedDqTerms(z, h, start, m) ==
  {Term(z, e, FusedDqRow(z, h, m)) : e \in DqElements(z, h, start, m, BLOCK_N, BLOCK_M)}

(* Strides of zero tell the kernel that nobody wants the bias' gradient. *)
store_db == launch.bias /\ launch.db

(* The elements of the bias' gradient a tile stores: ds where it is not    *)
(* masked by the window, too.                                              *)
DbCells(z, h, start, BQ, BK) ==
  {BiasAddr(z, h, m, n) :
     m \in QueryRows(z, start, BQ),
     n \in {n \in Columns(DqIntervals(z, start, BQ, BK), BK) : n < SeqlenK(z)}}

StoreDb(cells) ==
  DB' = IF ~store_db THEN DB
        ELSE [x \in cells \cup DOMAIN DB |->
                IF x \notin DOMAIN DB THEN 1 ELSE IF x \in cells THEN DB[x] + 1 ELSE DB[x]]

StoreDq(z, h, start) ==
  /\ DQ' = Store(DQ, LAMBDA m : RowAddr(z, h, m), LAMBDA m : DqTerms(z, h, start, m),
                 QueryRows(z, start, BLOCK_M))
  /\ StoreDb(DbCells(z, h, start, BLOCK_M, BLOCK_N))

FusedStoreDq(z, h, start) ==
  /\ DQ' = Store(DQ, LAMBDA m : RowAddr(z, h, m), LAMBDA m : FusedDqTerms(z, h, start, m),
                 QueryRows(z, start, BLOCK_N))
  /\ StoreDb(DbCells(z, h, start, BLOCK_N, BLOCK_M))

-----------------------------------------------------------------------------
(* A tile of keys; every query head of the group adds to it. *)

\* Fault: the random numbers are those of the key head.
DkDvElementsKeyHead(z, hk, start, n) ==
  LET w  == Transposed(Window(z))
      iv == calculate_intervals(w, start, SeqlenK(z), SeqlenQ(z), BLOCK_N, BLOCK_M)
      times(m) == Times(iv, w, n, m, SeqlenK(z), SeqlenQ(z), BLOCK_M)
  IN  {[h |-> h, m |-> m, n |-> n, times |-> times(m),
        number |-> DropoutNumber(z, hk, m - (m % BLOCK_M), start, m, n)] :
         h \in (hk * GroupSize)..(hk * GroupSize + GroupSize - 1),
         m \in {m \in Columns(iv, BLOCK_M) : times(m) > 0}}

DkDvElements(z, hk, start, n) ==
  LET w  == Transposed(Window(z))
      iv == calculate_intervals(w, start, SeqlenK(z), SeqlenQ(z), BLOCK_N, BLOCK_M)
      times(m) == Times(iv, w, n, m, SeqlenK(z), SeqlenQ(z), BLOCK_M)
  IN  {[h |-> h, m |-> m, n |-> n, times |-> times(m),
        number |-> DropoutNumber(z, h, m - (m % BLOCK_M), start, m, n)] :
         h \in (hk * GroupSize)..(hk * GroupSize + GroupSize - 1),
         m \in {m \in Columns(iv, BLOCK_M) : times(m) > 0}}

DkDvTerms(z, hk, start, n) ==
  {Term(z, e, SplitRow(z, e.h, e.m)) : e \in DkDvElements(z, hk, start, n)}

FusedDkDvTerms(z, hk, start, n) ==
  {Term(z, e, FusedDkDvRow(z, e.h, e.m)) : e \in DkDvElements(z, hk, start, n)}

StoreDkDv(z, hk, start) ==
  DKV' = Store(DKV, LAMBDA n : KeyAddr(z, hk, n), LAMBDA n : DkDvTerms(z, hk, start, n),
               InBounds(start, BLOCK_N, SeqlenK(z)))

FusedStoreDkDv(z, hk, start) ==
  DKV' = Store(DKV, LAMBDA n : KeyAddr(z, hk, n), LAMBDA n : FusedDkDvTerms(z, hk, start, n),
               InBounds(start, BLOCK_N, SeqlenK(z)))

Varlen == launch.num # 0

-----------------------------------------------------------------------------
(* The kernels, by the program p = <<x, y, z>> of their grids. *)

Ids(x, y, z) == (0..(x - 1)) \X (0..(y - 1)) \X (0..(z - 1))

Head(p, H) == IF launch.xcds > 1 THEN remap_xcd(p[1], H, launch.xcds) ELSE p[2]
Block(p) == IF launch.xcds > 1 THEN p[2] ELSE p[1]

HeadsByBlocks(H, blocks) ==
  IF launch.xcds > 1 THEN Ids(H, blocks, Batch) ELSE Ids(blocks, H, Batch)

KvBlocks == cdiv(launch.max_k, BLOCK_N)
QBlocks == cdiv(launch.max_q, BLOCK_N)       \* of the fused kernel

GridOf(k) ==
  CASE k = "encode" -> Ids(cdiv(launch.max_q, BLOCK_N), launch.Hq, Batch)
    [] k = "preprocess" -> Ids(cdiv(launch.out_rows, BLOCK_M), launch.Hq, Batch)
    [] k = "dk_dv" -> HeadsByBlocks(launch.Hk, KvBlocks)
    [] k = "dq"    -> HeadsByBlocks(launch.Hq, cdiv(launch.max_q, BLOCK_M))
    [] k = "fuse"  -> Ids(KvBlocks + QBlocks * GroupSize, launch.Hk, Batch)

Run(k, p) == kernel = k /\ p \in grid /\ grid' = grid \ {p}

Others == UNCHANGED <<launch, wg, counter, Out, L, kernel>>

(* Tells the caller which elements the forward pass dropped; its tiles     *)
(* have a size of their own.                                               *)
debug_simulate_encoded_softmax(p) ==
  LET start == p[1] * BLOCK_N
      cells == InBounds(start, BLOCK_N, launch.max_q) \X (0..(launch.max_k - 1))
  IN  /\ Run("encode", p)
      /\ Encoded' = Store(Encoded,
                          LAMBDA x : <<p[3], p[2], x[1], x[2]>>,
                          LAMBDA x : DropoutNumber(p[3], p[2], start,
                                                   x[2] - (x[2] % BLOCK_M), x[1], x[2]),
                          cells)
      /\ Others /\ UNCHANGED <<Delta, DQ, DKV, DB>>

StoreDelta(p) ==
  Delta' = Store(Delta, LAMBDA m : LseAddr(p[3], p[2], m), LAMBDA m : OutRow(p[3], p[2], m),
                 QueryRows(p[3], p[1] * BLOCK_M, BLOCK_M))

bwd_preprocess(p) ==
  /\ Run("preprocess", p) /\ launch.num <= 0
  /\ StoreDelta(p)
  /\ Others /\ UNCHANGED <<DQ, DKV, DB, Encoded>>

bwd_preprocess_varlen(p) ==
  /\ Run("preprocess", p) /\ launch.num > 0
  /\ IF p[1] * BLOCK_M >= SeqlenQ(p[3]) THEN UNCHANGED Delta ELSE StoreDelta(p)
  /\ Others /\ UNCHANGED <<DQ, DKV, DB, Encoded>>

bwd_kernel_dk_dv(p) ==
  LET start == Block(p) * BLOCK_N
  IN  /\ Run("dk_dv", p)
      /\ IF Varlen /\ start >= SeqlenK(p[3])
           THEN UNCHANGED DKV
           ELSE StoreDkDv(p[3], Head(p, launch.Hk), start)
      /\ Others /\ UNCHANGED <<Delta, DQ, DB, Encoded>>

bwd_kernel_dq(p) ==
  LET start == Block(p) * BLOCK_M
  IN  /\ Run("dq", p)
      /\ IF Varlen /\ start >= SeqlenQ(p[3])
           THEN UNCHANGED <<DQ, DB>>
           ELSE StoreDq(p[3], Head(p, launch.Hq), start)
      /\ Others /\ UNCHANGED <<Delta, DKV, Encoded>>

(* Behind the blocks of keys come those of queries, BLOCK_N rows each. *)
FuseDkDv(p) ==
  LET start == p[1] * BLOCK_N
  IN  /\ Run("fuse", p) /\ p[1] < KvBlocks
      /\ IF Varlen /\ start >= SeqlenK(p[3])
           THEN UNCHANGED DKV
           ELSE FusedStoreDkDv(p[3], p[2], start)
      /\ Others /\ UNCHANGED <<Delta, DQ, DB, Encoded>>

FuseDq(p) ==
  LET off   == p[1] - KvBlocks
      start == (off % QBlocks) * BLOCK_N
      h     == off \div QBlocks + p[2] * GroupSize
  IN  /\ Run("fuse", p) /\ p[1] >= KvBlocks
      /\ IF Varlen /\ start >= SeqlenQ(p[3])
           THEN UNCHANGED <<DQ, DB>>
           ELSE FusedStoreDq(p[3], h, start)
      /\ Others /\ UNCHANGED <<Delta, DKV, Encoded>>

-----------------------------------------------------------------------------
(* The kernels of the split backward pass a caller needs the results of. *)
Wanted(k) == k \in launch.wanted

Following(k) ==
  CASE k = "forward" /\ launch.encoded -> "encode"
    [] k = "encode" \/ (k = "forward" /\ ~launch.encoded)
         -> IF launch.backend = "fuse" THEN "fuse" ELSE "preprocess"
    [] k = "preprocess" -> IF Wanted("dk_dv") THEN "dk_dv"
                           ELSE IF Wanted("dq") THEN "dq" ELSE "done"
    [] k = "dk_dv"      -> IF Wanted("dq") THEN "dq" ELSE "done"
    [] k \in {"dq", "fuse"} -> "done"

(* The stream starts a kernel when the one before it has finished. *)
NextKernel ==
  /\ kernel # "done" /\ ForwardDone
  /\ kernel' = Following(kernel)
  /\ grid' = IF kernel' = "done" THEN {} ELSE GridOf(kernel')
  /\ UNCHANGED <<launch, wg, counter, Out, L, Delta, DQ, DKV, DB, Encoded>>

Forward(c) == kernel = "forward" /\ ForwardStep(c) /\ UNCHANGED backward

Backward(p) ==
  \/ debug_simulate_encoded_softmax(p)
  \/ bwd_preprocess(p) \/ bwd_preprocess_varlen(p)
  \/ bwd_kernel_dk_dv(p) \/ bwd_kernel_dq(p) \/ FuseDkDv(p) \/ FuseDq(p)

Init ==
  /\ ForwardInit
  /\ kernel = "forward"
  /\ Delta = <<>> /\ DQ = <<>> /\ DKV = <<>> /\ DB = <<>>
  /\ Encoded = <<>>

(* The stream is idle: without this step a launch that comes to its end    *)
(* would be reported as a deadlock, like one that is stuck.                *)
Idling == kernel = "done" /\ UNCHANGED vars

Next ==
  \/ \E c \in Slots : Forward(c)
  \/ \E p \in grid : Backward(p)
  \/ NextKernel
  \/ Idling

Spec == Init /\ [][Next]_vars
=============================================================================
