------------------------------ MODULE MCRestart ------------------------------
(* Restart with values for TLC: two keys, records of one length. *)
EXTENDS Restart, TLC

CONSTANTS k1, k2, v1, v2

MCKeys    == {k1, k2}
MCValues  == {v1}
MCRecSize == v1 :> 2
MCNames   == 1 .. 2
MCKeySymmetry == Permutations(MCKeys)
=============================================================================
