---------------------------- MODULE MCReversProxy ----------------------------
(* ReversProxy with values for TLC: two clients, one key in the second shard. *)
EXTENDS ReversProxy, TLC

CONSTANTS c1, c2, k1

MCClients == {c1, c2}
MCKeys    == {k1}
MCShardOf == k1 :> 1

MaxAge(n) == [name |-> "max-age", arg |-> n]
NoStore   == [name |-> "no-store", arg |-> 0]

\* No header, a lifetime that overflows to the past, and a no-store that a max-age
\* contradicts.
MCCacheControls == {<<>>, <<MaxAge(1), MaxAge(9)>>, <<NoStore, MaxAge(1)>>}
=============================================================================
