----------------------------- MODULE MCAttention -----------------------------
(***************************************************************************)
(* Launches for AttnBackward: sequences shorter and longer than a tile and *)
(* not a multiple of it, more keys than queries and fewer, grouped heads,  *)
(* every layout, windows that leave full blocks, none, and masked tiles.   *)
(***************************************************************************)
EXTENDS AttnProperties, TLC

Plain == [causal |-> FALSE, left |-> 0, right |-> 0]
Sliding(l, r) == [causal |-> TRUE, left |-> l, right |-> r]

Windows == {Plain, Sliding(TopLeft, TopLeft), Sliding(BottomRight, BottomRight),
            Sliding(1, 0), Sliding(1, 2), Sliding(3, 5), Sliding(-2, 3)}

Both == {"dk_dv", "dq"}

Regular(q, k, batch, Hq, Hk, w, dynamic, xcds, backend) ==
  [num |-> 0, cu_q |-> None, cu_k |-> None, strides_q |-> None, strides_k |-> None,
   batch |-> batch, max_q |-> q, max_k |-> k, out_rows |-> q, Hq |-> Hq, Hk |-> Hk,
   window |-> w, dynamic |-> dynamic, xcds |-> xcds, backend |-> backend,
   bias |-> ~w.causal, db |-> k # 2, do_like_out |-> backend # "fuse" \/ Hq = 1,
   encoded |-> q = 6 /\ w.left \in {0, 3}, wanted |-> Both]

Sum2(a, b) == 0 :> 0 @@ 1 :> a @@ 2 :> a + b

(* Two sequences <<q, k>>; layout "compact", "apart" (strides) or "padded". *)
Varied(s1, s2, layout, Hq, w, backend) ==
  LET cu_q == Sum2(s1[1], s2[1])
      cu_k == Sum2(s1[2], s2[2])
      q == Larger(s1[1], s2[1])
  IN  [num |-> IF layout = "padded" THEN -2 ELSE 2, cu_q |-> cu_q, cu_k |-> cu_k,
       strides_q |-> IF layout = "apart" THEN Sum2(s1[1] + 1, s2[1]) ELSE None,
       strides_k |-> IF layout = "apart" THEN Sum2(s1[2], s2[2] + 1) ELSE None,
       batch |-> IF layout = "padded" THEN 2 ELSE 1,
       max_q |-> q, max_k |-> Larger(s1[2], s2[2]),
       out_rows |-> IF layout = "padded" THEN q ELSE s1[1] + s2[1] + 1,
       Hq |-> Hq, Hk |-> 1, window |-> w, dynamic |-> w.causal, xcds |-> Hq,
       backend |-> backend, bias |-> FALSE, db |-> FALSE, do_like_out |-> TRUE,
       encoded |-> FALSE, wanted |-> Both]

Singles == {Regular(q, k, 1, 1, 1, w, FALSE, 1, b) :
              q \in {1, 6, 8}, k \in {2, 3, 7}, w \in Windows, b \in {"split", "fuse"}}
Grouped == {Regular(5, 3, 1, 2, 2 \div x, w, w.causal, x, "split") : w \in Windows, x \in {1, 2}}
           \cup {Regular(6, 2, 1, 2, 1, w, w.causal, 1, "fuse") : w \in Windows}
           \cup {Regular(1, 2, 1, 3, 1, Plain, FALSE, 2, "split")}
(* As tritonsrc's own interface asks for them: a causal mask, and only     *)
(* some of the gradients.                                                  *)
Host == {[Regular(5, 4, 1, 2, 1, translate_causal(c, 5, 4), FALSE, 1, "split")
            EXCEPT !.wanted = wanted] :
           c \in {[type |-> "bool", is |-> b] : b \in BOOLEAN}
                \cup {[type |-> "enum", is |-> TOP_LEFT]},
           wanted \in {Both, {"dq"}, {"dk_dv"}, {}}}
Layouts == {"compact", "apart", "padded"}
Sequences == {Varied(s1, <<6, 3>>, layout, 1, w, "split") :
                s1 \in {<<5, 4>>, <<2, 7>>, <<7, 2>>}, layout \in Layouts, w \in Windows}
             \cup {Varied(<<6, 2>>, <<3, 4>>, layout, 1, w, "fuse") :
                     layout \in Layouts, w \in Windows}
             \cup {Varied(<<4, 0>>, <<5, 3>>, "compact", 2, w, "split") : w \in Windows}

AllLaunches == Singles \cup Grouped \cup Host \cup Sequences

(* A bottom right mask with more queries than keys, and a persistent grid. *)
Persistents == {Regular(8, 4, 2, 1, 1, Sliding(BottomRight, BottomRight), TRUE, 1, "split")}

(* CausalType.BOTTOM_RIGHT with as many keys as queries, and with more.    *)
BottomRights == {Regular(6, k, 1, 1, 1,
                         translate_causal([type |-> "enum", is |-> BOTTOM_RIGHT], 6, k),
                         FALSE, 1, "split") : k \in {6, 8}}
=============================================================================
