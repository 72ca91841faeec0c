--------------------------- MODULE AttnProperties ---------------------------
(***************************************************************************)
(* What the attention kernels promise: every row of every result is the    *)
(* sum over exactly the keys (queries) its window admits, whatever the     *)
(* layout, the tiling and the order in which the workgroups run.           *)
(***************************************************************************)
EXTENDS AttnBackward

Entries == 0..(Batch - 1)
Queries(z) == 0..(SeqlenQ(z) - 1)
Keys(z) == 0..(SeqlenK(z) - 1)
Heads == 0..(launch.Hq - 1)
GroupOf(hk) == {h \in Heads : h \div GroupSize = hk}

(* The definition of attention with a window: the keys row m attends to. *)
Attended(z, m) == {n \in Keys(z) : Allowed(Window(z), m, n)}

(* Every entry has keys and queries.  For one without keys a whole tile of *)
(* queries counts the first block as full and reads it past the end.       *)
NoneEmpty == \A z \in Entries : SeqlenQ(z) > 0 /\ SeqlenK(z) > 0

RowsSatisfy(P(_, _, _)) == \A z \in Entries, h \in Heads : \A m \in Queries(z) : P(z, h, m)

-----------------------------------------------------------------------------
(* A row of the output is summed over the keys its window admits, each of  *)
(* them once, from the memory of its own sequence and key head, and over   *)
(* nothing else, though a tile skips the mask on its full blocks.          *)
OutputRight ==
  RowsSatisfy(LAMBDA z, h, m :
    SeqlenK(z) > 0 /\ RowAddr(z, h, m) \in DOMAIN Out =>
      {<<t.row, t.key, t.bias, t.times>> : t \in Out[RowAddr(z, h, m)]}
        = {LET o == Operands(z, h, m, n) IN <<o.row, o.key, o.bias, 1>> :
             n \in Attended(z, m)})

-----------------------------------------------------------------------------
FullyMasked(t) == launch.window.causal /\ NothingToDo(Intervals(t))

Tiles == {t \in [z : Entries, h : Heads,
                 start : {i * BLOCK_M : i \in 0..(TilesPerHead - 1)}] :
            t.start < SeqlenQ(t.z)}

(* A workgroup of a persistent grid that meets a fully masked tile never   *)
(* computes another: continue_condition is set before the loop only.       *)
StopsEarly == Persistent /\ \E t \in Tiles : FullyMasked(t)

(* A fully masked tile at the end of a compact sequence stores its         *)
(* infinities up to Max_seqlen_q, past the end of the sequence.            *)
Overruns == launch.num > 0 /\ \E t \in Tiles :
              FullyMasked(t) /\ t.start + BLOCK_M > SeqlenQ(t.z)

AllWritten == RowsSatisfy(LAMBDA z, h, m :
  RowAddr(z, h, m) \in DOMAIN Out /\ LseAddr(z, h, m) \in DOMAIN L)

\* The same without that exception: the kernel loops over all tiles if it is
\* persistent, and "still need[s] to write 0s to the result" of masked ones.
NoTileSkipped == kernel # "forward" => AllWritten

\* A row of L belongs to the query it is addressed by, whichever workgroup
\* stored last, and is infinite only if that query attends to nothing.
LOwned ==
  ~Overruns => RowsSatisfy(LAMBDA z, h, m :
    LET a == LseAddr(z, h, m)
    IN  a \in DOMAIN L => /\ L[a].row = <<z, h, m>>
                          /\ L[a].inf => Attended(z, m) = {})

\* Each element of the attention matrix is dropped by a random number of its
\* own: no two elements, of one head or of two, share one.
DropoutIndependent ==
  NoneEmpty =>
    LET elements == UNION {{<<a, t.key, t.number>> : t \in Out[a]} : a \in DOMAIN Out}
    IN  Cardinality(elements) = Cardinality({e[3] : e \in elements})

\* CausalType.BOTTOM_RIGHT of tritonsrc's own interface aligns the mask with the
\* last query and the last key, as WindowValue.BOTTOM_RIGHT_ALIGNED does.  For
\* launches that ask for it.
BottomRightAligned ==
  RowsSatisfy(LAMBDA z, h, m : RowAddr(z, h, m) \in DOMAIN Out =>
    {t.key : t \in Out[RowAddr(z, h, m)]}
      = {KeyAddr(z, h \div GroupSize, n) :
           n \in {n \in Keys(z) : n <= m + SeqlenK(z) - SeqlenQ(z)}})

-----------------------------------------------------------------------------
(* What the backward pass can rely on. *)
ForwardRight == NoneEmpty /\ ~StopsEarly /\ ~Overruns

RightTerm(z, h, m, n) ==
  LET o == Operands(z, h, m, n)
  IN  [do |-> <<z, h, m>>, l |-> <<z, h, m>>, delta |-> <<z, h, m>>,
       row |-> o.row, key |-> o.key, bias |-> o.bias, times |-> 1]

WithoutNumber(t) ==
  [do |-> t.do, l |-> t.l, delta |-> t.delta,
   row |-> t.row, key |-> t.key, bias |-> t.bias, times |-> t.times]

\* The gradient of a query sums over the keys it attended to, each once, with
\* the L and the delta of that query: stored by other programs of earlier
\* kernels, found at the address each kernel computes for itself.
QueryGradientRight ==
  ForwardRight => RowsSatisfy(LAMBDA z, h, m :
    RowAddr(z, h, m) \in DOMAIN DQ =>
      {WithoutNumber(t) : t \in DQ[RowAddr(z, h, m)]}
        = {RightTerm(z, h, m, n) : n \in Attended(z, m)})

\* The gradients of a key and of its value sum over the queries, of all heads
\* of the group, that attended to it, each once, with their L, delta and
\* gradient: the tiles are those of the transposed matrix.
KeyGradientRight ==
  ForwardRight /\ (launch.backend = "fuse" => launch.do_like_out) =>
    \A z \in Entries, hk \in 0..(launch.Hk - 1) : \A n \in Keys(z) :
      KeyAddr(z, hk, n) \in DOMAIN DKV =>
        {WithoutNumber(t) : t \in DKV[KeyAddr(z, hk, n)]}
          = {RightTerm(z, x[1], x[2], n) :
               x \in {x \in GroupOf(hk) \X Queries(z) : n \in Attended(z, x[2])}}

\* Both, in whatever order the programs of the backward kernels run.
GradientsRight == QueryGradientRight /\ KeyGradientRight

\* The backward kernels drop an element by the number the forward pass dropped
\* it by, and the mask returned to the caller is the one it applied, though they
\* all cut the matrix into other tiles.
DropoutReplayed ==
  /\ ForwardRight =>
       \A t \in UNION ({DQ[a] : a \in DOMAIN DQ} \cup {DKV[a] : a \in DOMAIN DKV}) :
         \E f \in Out[t.row] : f.key = t.key /\ f.number = t.number
  /\ NoneEmpty => RowsSatisfy(LAMBDA z, h, m : \A n \in Keys(z) :
       LET row == RowAddr(z, h, m)
           x == <<z, h, m, n>>
       IN  row \in DOMAIN Out /\ x \in DOMAIN Encoded =>
             \A f \in Out[row] :
               f.key = KeyAddr(z, h \div GroupSize, n) => f.number = Encoded[x])

\* At the end every row of every gradient that is wanted is there, every element
\* of the bias' gradient has been stored once, and the mask is complete.
GradientsWritten ==
  /\ "dq" \in launch.wanted =>
       /\ RowsSatisfy(LAMBDA z, h, m : RowAddr(z, h, m) \in DOMAIN DQ)
       /\ store_db => RowsSatisfy(LAMBDA z, h, m : \A n \in Keys(z) :
            LET a == BiasAddr(z, h, m, n) IN a \in DOMAIN DB /\ DB[a] = 1)
  /\ "dk_dv" \in launch.wanted =>
       \A z \in Entries, hk \in 0..(launch.Hk - 1) : \A n \in Keys(z) :
         KeyAddr(z, hk, n) \in DOMAIN DKV
  /\ launch.encoded => RowsSatisfy(LAMBDA z, h, m :
       \A n \in Keys(z) : <<z, h, m, n>> \in DOMAIN Encoded)

\* A grid that has drained has stored all it owes.  Between them the workgroups
\* of the forward kernel take every tile, also when they draw the tiles from the
\* shared counter, unless one of them stopped at a fully masked tile.
EverythingWritten ==
  /\ kernel # "forward" /\ ~StopsEarly => AllWritten
  /\ kernel = "done" => GradientsWritten
=============================================================================
