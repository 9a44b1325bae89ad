----------------------------- MODULE MCProcess -----------------------------
(* Process with values for TLC: a shard with two records and an empty one. *)
EXTENDS Process, TLC

CONSTANTS s1, s2, r1, r2

MCShards   == {s1, s2}
MCRecords  == s1 :> 2 @@ s2 :> 0
MCRequests == {r1, r2}
=============================================================================
