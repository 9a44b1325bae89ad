------------------------------ MODULE MCTunnels ------------------------------
(* Tunnels with two sessions for TLC. *)
EXTENDS Tunnels

CONSTANTS s1, s2

MCSessions == {s1, s2}
=============================================================================
