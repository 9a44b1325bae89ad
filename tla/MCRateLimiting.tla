--------------------------- MODULE MCRateLimiting ---------------------------
(* RateLimiting with values for TLC: two addresses in two shards. *)
EXTENDS RateLimiting, TLC

CONSTANTS ip1, ip2

MCIps     == {ip1, ip2}
MCShardOf == ip1 :> 0 @@ ip2 :> 1
MCOneIp      == {ip1}
MCOneShardOf == ip1 :> 1
=============================================================================
