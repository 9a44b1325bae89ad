---------------------------- MODULE RateLimiting ----------------------------
(***************************************************************************)
(* Admission of requests: the token bucket (src/rate/limiter.go), the map  *)
(* of buckets per client address with the goroutine that drops the unused  *)
(* ones (src/rate/shard_limiter.go), and the middleware that chooses       *)
(* between them (src/initial/inbox_handler/middleware.go).                 *)
(*                                                                         *)
(* Abstractions.  Tokens are counted in units, Unit of them to a token, so *)
(* that a bucket may hold part of one; a rate is units per tick of a clock *)
(* that stops at MaxTime, and the rounding of float64 is left out.  The    *)
(* address and its hash are ShardOf.  Limiter.Wait is left out: nothing    *)
(* calls it.                                                               *)
(***************************************************************************)
EXTENDS Integers, FiniteSets

CONSTANTS
  Ips,         \* client addresses
  ShardOf,     \* ShardOf[ip]: getShardIndexFromIp
  ShardsCount, \* sl.size
  Unit,        \* units in a token
  GlCapacity, GlRate,  \* the general limiter
  ShCapacity, ShRates, \* a limiter of the map; its rate is one of these
  Minutes5,    \* the period of the sweep and the age it deletes at
  MaxTime,     \* bound: the clock stops here
  None         \* no limiter

Times   == 0 .. MaxTime
Limiter == [tokens : Nat, lastTime : Nat]

ASSUME ShardsAssumption ==
  ShardsCount \in Nat \ {0} /\ ShardOf \in [Ips -> 0 .. ShardsCount - 1]
ASSUME BucketAssumption ==
  /\ Unit \in Nat \ {0} /\ Minutes5 \in Nat \ {0} /\ MaxTime \in Nat
  /\ GlCapacity \in Nat /\ GlRate \in Nat /\ ShCapacity \in Nat /\ ShRates \subseteq Nat
ASSUME NoneAssumption == None \notin Limiter

VARIABLES
  shRate,   \* the configured rate of the limiters of the map
  general,  \* the general limiter
  data,     \* data[ip]: the limiter of ip in its shard's map, or None
  shard,    \* the shard the sweep is at; ShardsCount between two sweeps
  tick,     \* the sweep's now
  scanned,  \* delIp has been collected for this shard
  delIp,    \* addresses the sweep has still to delete in this shard
  nextTick, \* when the ticker has something for the sweep
  now,
  generalGrants, \* history: requests the general limiter has let pass
  grants         \* history: grants[ip][t], those of ip let pass up to time t

sweepVars == <<shard, tick, scanned, delIp, nextTick>>
vars == <<shRate, general, data, sweepVars, now, generalGrants, grants>>

-----------------------------------------------------------------------------
(* Limiter *)

NewLimiter(capacity, t) == [tokens |-> capacity, lastTime |-> t]

\* Mutant: lastTime is not moved on.
updateTokens_KeepsTime(lim, capacity, rate, t) ==
  LET sum == lim.tokens + (t - lim.lastTime) * rate
  IN  IF rate = 0 THEN lim
      ELSE [lim EXCEPT !.tokens = IF sum >= capacity THEN capacity ELSE sum]

updateTokens(lim, capacity, rate, t) ==
  LET sum == lim.tokens + (t - lim.lastTime) * rate
  IN  IF rate = 0 THEN lim
      ELSE [tokens |-> IF sum >= capacity THEN capacity ELSE sum, lastTime |-> t]

Granted(lim) == lim.tokens >= Unit

\* Mutant: part of a token is enough.
Spent_Part(lim) == [lim EXCEPT !.tokens = @ - Unit]

Spent(lim) == IF Granted(lim) THEN [lim EXCEPT !.tokens = @ - Unit] ELSE lim

-----------------------------------------------------------------------------
Init ==
  /\ shRate \in ShRates
  /\ general = NewLimiter(GlCapacity, 0)
  /\ data = [ip \in Ips |-> None]
  /\ shard = ShardsCount /\ tick = 0 /\ scanned = FALSE /\ delIp = {}
  /\ nextTick = Minutes5
  /\ now = 0
  /\ generalGrants = 0
  /\ grants = [ip \in Ips |-> [t \in Times |-> 0]]

\* A request for one of the configured hosts.
RequestInternal ==
  LET lim == updateTokens(general, GlCapacity, GlRate, now)
  IN  /\ general' = Spent(lim)
      /\ generalGrants' = IF Granted(lim) THEN generalGrants + 1 ELSE generalGrants
      /\ UNCHANGED <<shRate, data, sweepVars, now, grants>>

\* ShardLimiter.Allow's limiter for ip, made if it is missing.
LimiterOf(ip) == IF data[ip] = None THEN NewLimiter(ShCapacity, now) ELSE data[ip]

\* One request more from time t on.
CountedFrom(count, t) == [u \in Times |-> IF u < t THEN count[u] ELSE count[u] + 1]

\* A request for any other host, from ip.
RequestExternal(ip) ==
  LET lim == updateTokens(LimiterOf(ip), ShCapacity, shRate, now)
  IN  /\ data' = [data EXCEPT ![ip] = Spent(lim)]
      /\ grants' = IF Granted(lim) THEN [grants EXCEPT ![ip] = CountedFrom(@, now)] ELSE grants
      /\ UNCHANGED <<shRate, general, sweepVars, now, generalGrants>>

-----------------------------------------------------------------------------
(* DeleteDontUseLimiters *)

SweepBegins ==
  /\ shard = ShardsCount /\ now >= nextTick
  /\ shard' = 0 /\ tick' = now
  /\ nextTick' = (now \div Minutes5 + 1) * Minutes5
  /\ UNCHANGED <<shRate, general, data, scanned, delIp, now, generalGrants, grants>>

\* Mutant: any limiter that has not been used in this tick is deleted.
Unused_TooSoon(ip) == data[ip] # None /\ tick - data[ip].lastTime >= 1

Unused(ip) == data[ip] # None /\ tick - data[ip].lastTime >= Minutes5

\* Under the shard's RLock.
SweepScans ==
  /\ shard < ShardsCount /\ ~scanned
  /\ delIp' = {ip \in Ips : ShardOf[ip] = shard /\ Unused(ip)}
  /\ scanned' = TRUE
  /\ UNCHANGED <<shRate, general, data, shard, tick, nextTick, now, generalGrants, grants>>

\* delLimiter, under the shard's Lock: the limiter is not looked at again.
SweepDeletes(ip) ==
  /\ scanned /\ ip \in delIp
  /\ data' = [data EXCEPT ![ip] = None]
  /\ delIp' = delIp \ {ip}
  /\ UNCHANGED <<shRate, general, shard, tick, scanned, nextTick, now, generalGrants, grants>>

SweepMovesOn ==
  /\ scanned /\ delIp = {}
  /\ shard' = shard + 1 /\ scanned' = FALSE
  /\ UNCHANGED <<shRate, general, data, tick, delIp, nextTick, now, generalGrants, grants>>

Tick ==
  /\ now < MaxTime
  /\ now' = now + 1
  /\ UNCHANGED <<shRate, general, data, sweepVars, generalGrants, grants>>

-----------------------------------------------------------------------------
Sweep == SweepBegins \/ SweepScans \/ SweepMovesOn \/ \E ip \in Ips : SweepDeletes(ip)

Next == RequestInternal \/ Sweep \/ Tick \/ \E ip \in Ips : RequestExternal(ip)

Spec == Init /\ [][Next]_vars

-----------------------------------------------------------------------------
(* Properties *)

\* Type invariant: a bucket never holds less than nothing, nor more than its capacity.
TypeOK ==
  /\ shRate \in ShRates
  /\ general \in Limiter /\ general.tokens <= GlCapacity
  /\ data \in [Ips -> Limiter \cup {None}]
  /\ \A ip \in Ips : data[ip] # None => data[ip].tokens <= ShCapacity
  /\ shard \in 0 .. ShardsCount /\ tick \in Nat /\ scanned \in BOOLEAN
  /\ delIp \subseteq Ips /\ nextTick \in Nat /\ now \in Times
  /\ generalGrants \in Nat
  /\ grants \in [Ips -> [Times -> Nat]]

\* The general limiter lets no more pass than its capacity and what its rate adds.
GeneralBound == Unit * generalGrants <= GlCapacity + GlRate * now

\* Those let pass from time a to time b.
Before(ip, a)    == IF a = 0 THEN 0 ELSE grants[ip][a - 1]
Within(ip, a, b) == grants[ip][b] - Before(ip, a)

\* What "token bucket" says: in no window of time does a client get more than a full
\* bucket and what the rate adds meanwhile.
BurstBound ==
  \A ip \in Ips, a \in Times, b \in Times :
    a <= b => Unit * Within(ip, a, b) <= ShCapacity + shRate * (b - a)

\* What the sweep leaves of it: a limiter deleted between its owner's requests is made
\* anew with a full bucket, but not twice within the age at which limiters are deleted.
TwiceBurstBound ==
  \A ip \in Ips, a \in Times, b \in Times :
    a <= b /\ b - a < Minutes5 =>
      Unit * Within(ip, a, b) <= 2 * ShCapacity + shRate * (b - a)
=============================================================================
