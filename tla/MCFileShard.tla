----------------------------- MODULE MCFileShard -----------------------------
(* FileShard with values for TLC: two keys, a short and a long record. *)
EXTENDS FileShard, TLC

CONSTANTS k1, k2, v1, v2

MCKeys    == {k1, k2}
MCValues  == {v1, v2}
MCRecSize == v1 :> 1 @@ v2 :> 2
MCKeySymmetry == Permutations(MCKeys)

\* One key, or one value: where the question does not need two.
MCOneKey      == {k1}
MCOneValue    == {v1}
MCPairSize    == v1 :> 2
=============================================================================
