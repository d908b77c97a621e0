--------------------------- MODULE MCLoweringPasses -----------------------------
(* An instance of LoweringPasses whose source already holds a name that    *)
(* each of three allocators would try first.                               *)
EXTENDS LoweringPasses

MCUserNames == {[role |-> r, number |-> 0] : r \in {"dict_union", "target", "match"}}
===============================================================================
