---------------------------- MODULE MCFileProxy ----------------------------
(* FileProxy with values for TLC: two clients, two keys, records of length 2. *)
EXTENDS FileProxy, TLC

CONSTANTS c1, c2, k1, k2

MCClients == {c1, c2}
MCKeys    == {k1, k2}

MaxAge(n) == [name |-> "max-age", arg |-> n]
NoStore   == [name |-> "no-store", arg |-> 0]

\* No header, and a no-store.
MCCacheControls == {<<>>, <<NoStore>>}
MCResponses == [version : 0 .. 1, header : MCCacheControls]
MCRecSize   == [v \in MCResponses |-> 2]

\* A max-age of a second, and a no-store.
MCMaxAges == {<<MaxAge(1)>>, <<NoStore>>}
MCAgingResponses == [version : 0 .. 1, header : MCMaxAges]
MCAgingRecSize   == [v \in MCAgingResponses |-> 2]

MCSymmetry == Permutations(MCClients) \cup Permutations(MCKeys)
=============================================================================
