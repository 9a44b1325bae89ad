------------------------- MODULE RateLimitingProofs -------------------------
(***************************************************************************)
(* Proofs about RateLimiting: its type invariant, and the bounds on what   *)
(* the general limiter and the limiters of the map let pass.  The          *)
(* inductive invariant is Inv.                                             *)
(***************************************************************************)
EXTENDS RateLimiting, TLAPS

-----------------------------------------------------------------------------
(* The inductive invariant *)

\* The clocks: nobody is ahead of now, and the sweep is in a shard while it has scanned.
InTime ==
  /\ general.lastTime <= now /\ tick <= now
  /\ \A ip \in Ips : data[ip] # None => data[ip].lastTime <= now
  /\ scanned => shard < ShardsCount

\* The general bucket holds no more than what its rate has added and nobody has spent.
GeneralAccount ==
  Unit * generalGrants + general.tokens <= GlCapacity + GlRate * general.lastTime

\* The counts of a client never go down, and what is counted so far is in all times to come.
Counting ==
  /\ \A ip \in Ips, t, u \in Times : t <= u => grants[ip][t] <= grants[ip][u]
  /\ \A ip \in Ips, t \in Times : now <= t => grants[ip][t] = grants[ip][now]

\* The limiter of ip was made at time m, when g requests of ip had been let pass.  Those it
\* has let pass itself, in all or since a time a, are bounded by a full bucket; those of
\* its predecessor too, in less than the age at which a limiter is deleted.
MadeAt(ip, m, g) ==
  LET lim == data[ip]
      n   == grants[ip][now]
  IN  /\ m <= lim.lastTime
      /\ Before(ip, m) <= g /\ g <= grants[ip][m]
      /\ Unit * (n - g) + lim.tokens <= ShCapacity + shRate * (lim.lastTime - m)
      /\ \A a \in m + 1 .. now :
           Unit * (n - Before(ip, a)) + lim.tokens
             <= ShCapacity + (IF a <= lim.lastTime THEN shRate * (lim.lastTime - a) ELSE 0)
      /\ shRate # 0 => grants[ip][lim.lastTime] = n
      /\ \A a \in 0 .. m :
           m - a < Minutes5 => Unit * (g - Before(ip, a)) <= ShCapacity + shRate * (m - a)
      /\ ip \in delIp => now - m >= Minutes5

\* Without a limiter, what was let pass in that age is bounded by one bucket.
NotMade(ip) ==
  /\ ip \notin delIp
  /\ \A a \in 0 .. now : now - a < Minutes5 =>
       Unit * (grants[ip][now] - Before(ip, a)) <= ShCapacity + shRate * (now - a)

Account(ip) ==
  IF data[ip] = None THEN NotMade(ip)
  ELSE \E m \in 0 .. now, g \in 0 .. grants[ip][now] : MadeAt(ip, m, g)

Accounts == \A ip \in Ips : Account(ip)

Inv == TypeOK /\ InTime /\ GeneralAccount /\ Counting /\ Accounts /\ TwiceBurstBound

-----------------------------------------------------------------------------
(* Lemmas on a bucket *)

\* More time, more tokens.
LEMMA MoreTime ==
  ASSUME NEW r \in Nat, NEW x \in Int, NEW y \in Int, x <= y
  PROVE  r * x \in Int /\ r * y \in Int /\ r * x <= r * y
PROOF
<1>1. r * (y - x) >= 0 OBVIOUS
<1> QED BY <1>1

\* What a rate adds up to some time and after it.
LEMMA Elapsed ==
  ASSUME NEW r \in Nat, NEW a \in Int, NEW x \in Int, NEW t \in Int
  PROVE  /\ r * (x - a) \in Int /\ r * (t - x) \in Int /\ r * (t - a) \in Int
         /\ r * (x - a) + r * (t - x) = r * (t - a)
PROOF OBVIOUS

\* Units counted move from the bucket to the requests let pass.
LEMMA Moved ==
  ASSUME NEW u \in Nat, NEW n \in Int, NEW k \in Int, NEW g \in Int
  PROVE  /\ u * (n - g) \in Int /\ u * k \in Int /\ u * ((n + k) - g) \in Int
         /\ u * ((n + k) - g) = u * (n - g) + u * k
PROOF OBVIOUS

\* A bucket that is brought up to date stays within its capacity, gains no more than its
\* rate, and is at time t, unless it has no rate.
LEMMA Updated ==
  ASSUME NEW lim \in Limiter, NEW capacity \in Nat, lim.tokens <= capacity,
         NEW rate \in Nat, NEW t \in Nat, lim.lastTime <= t
  PROVE  /\ updateTokens(lim, capacity, rate, t) \in Limiter
         /\ updateTokens(lim, capacity, rate, t).tokens <= capacity
         /\ rate # 0 => /\ updateTokens(lim, capacity, rate, t).lastTime = t
                        /\ updateTokens(lim, capacity, rate, t).tokens
                             <= lim.tokens + rate * (t - lim.lastTime)
         /\ rate = 0 => updateTokens(lim, capacity, rate, t) = lim
PROOF
<1>1. (t - lim.lastTime) * rate \in Nat /\ (t - lim.lastTime) * rate = rate * (t - lim.lastTime)
  <2>1. t - lim.lastTime \in Nat BY DEF Limiter
  <2> QED BY <2>1
<1>2. lim.tokens \in Nat /\ lim.lastTime \in Nat BY DEF Limiter
<1> QED BY <1>1, <1>2 DEF updateTokens, Limiter

\* A request takes a whole token, or nothing.
LEMMA Spending ==
  ASSUME NEW lim \in Limiter
  PROVE  /\ Spent(lim) \in Limiter /\ Spent(lim).lastTime = lim.lastTime
         /\ Granted(lim) => Spent(lim).tokens = lim.tokens - Unit
         /\ ~Granted(lim) => Spent(lim) = lim
         /\ Spent(lim).tokens <= lim.tokens
PROOF
<1>1. lim.tokens \in Nat /\ lim.lastTime \in Nat BY DEF Limiter
<1>2. CASE Granted(lim)
  <2>1. lim.tokens - Unit \in Nat BY <1>1, <1>2, BucketAssumption DEF Granted
  <2>2. Spent(lim) = [tokens |-> lim.tokens - Unit, lastTime |-> lim.lastTime]
    BY <1>2 DEF Spent, Limiter
  <2> QED BY <1>1, <1>2, <2>1, <2>2, BucketAssumption DEF Limiter
<1>3. CASE ~Granted(lim) BY <1>1, <1>3 DEF Spent
<1> QED BY <1>2, <1>3
\* The time the ticker is next due is a natural number.
LEMMA NextDue ==
  ASSUME NEW t \in Nat, NEW period \in Nat \ {0}
  PROVE  (t \div period + 1) * period \in Nat
PROOF
<1>1. t \div period \in Nat OBVIOUS
<1> QED BY <1>1

-----------------------------------------------------------------------------
(* What a request does *)

\* The limiter a request finds, or makes, is a bucket of the map.
LEMMA Found ==
  ASSUME TypeOK, InTime, NEW ip \in Ips
  PROVE  /\ LimiterOf(ip) \in Limiter
         /\ LimiterOf(ip).tokens <= ShCapacity /\ LimiterOf(ip).lastTime <= now
         /\ shRate \in Nat /\ now \in Nat
PROOF BY BucketAssumption DEF TypeOK, InTime, LimiterOf, NewLimiter, Limiter, Times

\* The request of an external host: the bucket after it, its tokens before it was spent
\* from, and how many requests more are counted.
Effect(ip, tokens, more) ==
  /\ more \in {0, 1} /\ tokens \in Nat /\ tokens <= ShCapacity
  /\ data'[ip] \in Limiter /\ data'[ip] # None
  /\ data'[ip].tokens + Unit * more = tokens
  /\ LimiterOf(ip).lastTime <= data'[ip].lastTime /\ data'[ip].lastTime <= now
  /\ shRate # 0 => /\ data'[ip].lastTime = now
                   /\ tokens <= LimiterOf(ip).tokens + shRate * (now - LimiterOf(ip).lastTime)
  /\ shRate = 0 => /\ data'[ip].lastTime = LimiterOf(ip).lastTime
                   /\ tokens = LimiterOf(ip).tokens
  /\ \A t \in Times : grants'[ip][t] = IF t < now THEN grants[ip][t] ELSE grants[ip][t] + more

LEMMA RequestEffect ==
  ASSUME TypeOK, InTime, NEW ip \in Ips, RequestExternal(ip)
  PROVE  /\ \E tokens \in Nat, more \in {0, 1} : Effect(ip, tokens, more)
         /\ \A j \in Ips \ {ip} : data'[j] = data[j] /\ grants'[j] = grants[j]
         /\ data' = [data EXCEPT ![ip] = data'[ip]]
         /\ grants' = [grants EXCEPT ![ip] = grants'[ip]]
         /\ UNCHANGED <<shRate, general, sweepVars, now, generalGrants>>
PROOF
<1> DEFINE old == LimiterOf(ip)
           lim == updateTokens(old, ShCapacity, shRate, now)
           n   == IF Granted(lim) THEN 1 ELSE 0
<1>1. /\ old \in Limiter /\ old.tokens <= ShCapacity /\ old.lastTime <= now
      /\ shRate \in Nat /\ now \in Nat /\ ShCapacity \in Nat /\ old.lastTime \in Nat
  BY Found, BucketAssumption DEF Limiter
<1>2. /\ lim \in Limiter /\ lim.tokens <= ShCapacity
      /\ shRate # 0 => lim.lastTime = now /\ lim.tokens <= old.tokens + shRate * (now - old.lastTime)
      /\ shRate = 0 => lim = old
  <2> HIDE DEF old
  <2> QED BY <1>1, Updated
<1>3. /\ data' = [data EXCEPT ![ip] = Spent(lim)]
      /\ grants' = IF Granted(lim) THEN [grants EXCEPT ![ip] = CountedFrom(@, now)] ELSE grants
      /\ UNCHANGED <<shRate, general, sweepVars, now, generalGrants>>
  BY Zenon DEF RequestExternal
<1> HIDE DEF lim, old
<1>4. data'[ip] = Spent(lim) /\ \A j \in Ips \ {ip} : data'[j] = data[j]
  BY <1>3 DEF TypeOK
<1>5. /\ \A t \in Times : grants'[ip][t] = IF t < now THEN grants[ip][t] ELSE grants[ip][t] + n
      /\ \A j \in Ips \ {ip} : grants'[j] = grants[j]
  <2>1. CASE Granted(lim) BY <1>3, <2>1 DEF TypeOK, CountedFrom
  <2>2. CASE ~Granted(lim)
    <3>1. \A t \in Times : grants[ip][t] \in Nat BY DEF TypeOK
    <3> QED BY <1>3, <2>2, <3>1
  <2> QED BY <2>1, <2>2
<1>6. /\ Spent(lim) \in Limiter /\ Spent(lim).lastTime = lim.lastTime
      /\ Spent(lim).tokens + Unit * n = lim.tokens
  <2>1. lim.tokens \in Nat /\ Unit \in Nat BY <1>2, BucketAssumption DEF Limiter
  <2> QED BY <1>2, <2>1, Spending
<1>7. Spent(lim) # None BY <1>6, NoneAssumption
<1>8. Effect(ip, lim.tokens, n)
  <2>1. lim.tokens \in Nat BY <1>2 DEF Limiter
  <2>2. old.lastTime <= lim.lastTime /\ lim.lastTime <= now BY <1>1, <1>2
  <2>3. n \in {0, 1} OBVIOUS
  <2> HIDE DEF n
  <2> QED BY <1>2, <1>4, <1>5, <1>6, <1>7, <2>1, <2>2, <2>3 DEF Effect, old
<1>9. data' = [data EXCEPT ![ip] = data'[ip]] BY <1>3, <1>4 DEF TypeOK
<1>10. grants' = [grants EXCEPT ![ip] = grants'[ip]]
  <2>1. CASE Granted(lim) BY <1>3, <2>1 DEF TypeOK
  <2>2. CASE ~Granted(lim) BY <1>3, <2>2 DEF TypeOK
  <2> QED BY <2>1, <2>2
<1>11. \E tokens \in Nat, more \in {0, 1} : Effect(ip, tokens, more)
  <2>1. lim.tokens \in Nat /\ n \in {0, 1} BY <1>2 DEF Limiter
  <2> HIDE DEF n
  <2> QED BY <1>8, <2>1
<1> QED BY <1>3, <1>4, <1>5, <1>9, <1>10, <1>11

-----------------------------------------------------------------------------
(* The conjuncts of the invariant *)

\* Every step keeps the types, and the buckets within their capacities.
LEMMA NextType ==
  ASSUME TypeOK, InTime, Next
  PROVE  TypeOK'
PROOF
<1> USE DEF TypeOK, InTime, sweepVars, Times
<1> USE BucketAssumption, ShardsAssumption
<1>1. CASE RequestInternal
  <2> DEFINE lim == updateTokens(general, GlCapacity, GlRate, now)
  <2>1. lim \in Limiter /\ lim.tokens <= GlCapacity BY Updated
  <2>2. general' = Spent(lim) BY <1>1 DEF RequestInternal
  <2>3. UNCHANGED <<shRate, data, sweepVars, now, grants>> /\ generalGrants' \in Nat
    BY <1>1 DEF RequestInternal
  <2> HIDE DEF lim
  <2>4. general' \in Limiter /\ general'.tokens <= GlCapacity
    <3>1. Spent(lim) \in Limiter /\ Spent(lim).tokens <= lim.tokens BY <2>1, Spending
    <3> QED BY <2>1, <2>2, <3>1 DEF Limiter
  <2> QED BY <2>3, <2>4
<1>2. ASSUME NEW ip \in Ips, RequestExternal(ip) PROVE TypeOK'
  <2>1. PICK tokens \in Nat, more \in {0, 1} : Effect(ip, tokens, more)
    BY <1>2, RequestEffect
  <2>2. /\ data' = [data EXCEPT ![ip] = data'[ip]]
        /\ grants' = [grants EXCEPT ![ip] = grants'[ip]]
        /\ \A j \in Ips \ {ip} : data'[j] = data[j] /\ grants'[j] = grants[j]
        /\ UNCHANGED <<shRate, general, sweepVars, now, generalGrants>>
    BY <1>2, RequestEffect
  <2>3. data'[ip] \in Limiter /\ data'[ip].tokens <= ShCapacity
    <3>1. data'[ip] \in Limiter /\ data'[ip].tokens + Unit * more <= ShCapacity /\ ShCapacity \in Nat
      BY <2>1 DEF Effect
    <3>2. data'[ip].tokens \in Nat BY <3>1 DEF Limiter
    <3>3. Unit * more \in Nat OBVIOUS
    <3> QED BY <3>1, <3>2, <3>3
  <2>4. grants'[ip] \in [Times -> Nat]
    <3>1. grants[ip] \in [Times -> Nat] /\ CountedFrom(grants[ip], now) \in [Times -> Nat]
      BY DEF CountedFrom
    <3>2. grants' = grants \/ grants' = [grants EXCEPT ![ip] = CountedFrom(@, now)]
      BY <1>2, Zenon DEF RequestExternal
    <3> QED BY <3>1, <3>2
  <2>5. data' \in [Ips -> Limiter \cup {None}] BY <2>2, <2>3
  <2>6. grants' \in [Ips -> [Times -> Nat]] BY <2>2, <2>4
  <2>7. \A j \in Ips : data'[j] # None => data'[j].tokens <= ShCapacity BY <2>2, <2>3
  <2> QED BY <2>2, <2>5, <2>6, <2>7
<1>3. CASE SweepBegins
  <2>1. now \in Nat /\ Minutes5 \in Nat \ {0} OBVIOUS
  <2>2. (now \div Minutes5 + 1) * Minutes5 \in Nat BY ONLY <2>1, NextDue
  <2> QED BY <1>3, <2>1, <2>2 DEF SweepBegins
<1>4. CASE SweepScans BY <1>4 DEF SweepScans
<1>5. CASE SweepMovesOn
  <2>1. shard < ShardsCount BY <1>5, Zenon DEF SweepMovesOn
  <2>2. shard' \in 0 .. ShardsCount BY <1>5, <2>1 DEF SweepMovesOn
  <2> QED BY <1>5, <2>2 DEF SweepMovesOn
<1>6. ASSUME NEW ip \in Ips, SweepDeletes(ip) PROVE TypeOK' BY <1>6 DEF SweepDeletes
<1>7. CASE Tick BY <1>7 DEF Tick
<1> QED BY <1>1, <1>2, <1>3, <1>4, <1>5, <1>6, <1>7 DEF Next, Sweep

\* Nobody gets ahead of the clock.
LEMMA NextInTime ==
  ASSUME TypeOK, InTime, Next
  PROVE  InTime'
PROOF
<1> USE DEF TypeOK, InTime, sweepVars, Times
<1> USE BucketAssumption, ShardsAssumption
<1>1. CASE RequestInternal
  <2> DEFINE lim == updateTokens(general, GlCapacity, GlRate, now)
  <2>1. lim \in Limiter /\ lim.lastTime <= now BY Updated
  <2>2. general' = Spent(lim) /\ UNCHANGED <<data, sweepVars, now>> BY <1>1 DEF RequestInternal
  <2> HIDE DEF lim
  <2>3. general'.lastTime <= now BY <2>1, <2>2, Spending
  <2> QED BY <2>2, <2>3
<1>2. ASSUME NEW ip \in Ips, RequestExternal(ip) PROVE InTime'
  BY <1>2, RequestEffect DEF Effect
<1>3. CASE SweepBegins BY <1>3 DEF SweepBegins
<1>4. CASE SweepScans BY <1>4 DEF SweepScans
<1>5. CASE SweepMovesOn BY <1>5 DEF SweepMovesOn
<1>6. ASSUME NEW ip \in Ips, SweepDeletes(ip) PROVE InTime' BY <1>6 DEF SweepDeletes
<1>7. CASE Tick BY <1>7 DEF Tick, Limiter
<1> QED BY <1>1, <1>2, <1>3, <1>4, <1>5, <1>6, <1>7 DEF Next, Sweep

\* The general bucket pays for every request it lets pass.
LEMMA NextGeneral ==
  ASSUME TypeOK, InTime, GeneralAccount, Next
  PROVE  GeneralAccount'
PROOF
<1>1. CASE RequestInternal
  <2> DEFINE lim == updateTokens(general, GlCapacity, GlRate, now)
             n   == IF Granted(lim) THEN 1 ELSE 0
  <2>1. /\ general \in Limiter /\ general.tokens <= GlCapacity /\ general.lastTime <= now
        /\ general.tokens \in Nat /\ general.lastTime \in Nat /\ now \in Nat
        /\ generalGrants \in Nat /\ GlCapacity \in Nat /\ GlRate \in Nat /\ Unit \in Nat
    BY BucketAssumption DEF TypeOK, InTime, Limiter, Times
  <2>2. /\ lim \in Limiter
        /\ GlRate # 0 => /\ lim.lastTime = now
                         /\ lim.tokens <= general.tokens + GlRate * (now - general.lastTime)
        /\ GlRate = 0 => lim = general
    BY <2>1, Updated
  <2>3. general' = Spent(lim) /\ generalGrants' = generalGrants + n
    <3>1. general' = Spent(lim)
          /\ generalGrants' = IF Granted(lim) THEN generalGrants + 1 ELSE generalGrants
      BY <1>1, Zenon DEF RequestInternal
    <3> HIDE DEF lim
    <3> QED BY <2>1, <3>1
  <2> HIDE DEF lim
  <2>4. lim.tokens \in Nat /\ lim.lastTime \in Nat BY <2>2 DEF Limiter
  <2>5. general'.lastTime = lim.lastTime /\ general'.tokens + Unit * n = lim.tokens /\ n \in Nat
    BY <2>1, <2>2, <2>3, <2>4, Spending
  <2> HIDE DEF n
  <2>6. general'.tokens \in Nat BY <2>2, <2>3, Spending DEF Limiter
  <2>7. Unit * generalGrants \in Int /\ Unit * n \in Int
        /\ Unit * (generalGrants + n) = Unit * generalGrants + Unit * n
    BY <2>1, <2>5
  <2>8. Unit * generalGrants + general.tokens <= GlCapacity + GlRate * general.lastTime
    BY DEF GeneralAccount
  <2>9. Unit * generalGrants + lim.tokens <= GlCapacity + GlRate * lim.lastTime
    <3>1. CASE GlRate = 0 BY <2>2, <2>8, <3>1
    <3>2. CASE GlRate # 0
      <4>1. /\ GlRate * general.lastTime \in Int /\ GlRate * (now - general.lastTime) \in Int
            /\ GlRate * now \in Int
            /\ GlRate * general.lastTime + GlRate * (now - general.lastTime) = GlRate * now
        BY <2>1
      <4> QED BY <2>1, <2>2, <2>4, <2>7, <2>8, <3>2, <4>1
    <3> QED BY <3>1, <3>2
  <2>10. GlRate * lim.lastTime \in Int BY <2>1, <2>4
  <2>11. Unit * (generalGrants + n) + general'.tokens <= GlCapacity + GlRate * lim.lastTime
    BY <2>1, <2>4, <2>5, <2>6, <2>7, <2>9, <2>10
  <2> QED BY <2>3, <2>5, <2>11 DEF GeneralAccount
<1>2. CASE UNCHANGED <<general, generalGrants>> BY <1>2 DEF GeneralAccount
<1> QED
  BY <1>1, <1>2 DEF Next, Sweep, RequestExternal, SweepBegins, SweepScans, SweepMovesOn,
                    SweepDeletes, Tick

\* A request is counted at its time and from then on.
LEMMA NextCounting ==
  ASSUME TypeOK, InTime, Counting, Next
  PROVE  Counting'
PROOF
<1>1. ASSUME NEW ip \in Ips, RequestExternal(ip) PROVE Counting'
  <2>1. PICK tokens \in Nat, more \in {0, 1} : Effect(ip, tokens, more)
    BY <1>1, RequestEffect
  <2>2. now' = now /\ \A j \in Ips \ {ip} : grants'[j] = grants[j]
    BY <1>1, RequestEffect
  <2>3. \A t \in Times : /\ grants[ip][t] \in Nat
                         /\ grants'[ip][t] = IF t < now THEN grants[ip][t] ELSE grants[ip][t] + more
    BY <2>1 DEF Effect, TypeOK
  <2>4. now \in Times BY DEF TypeOK
  <2>5. \A t, u \in Times : t <= u => grants'[ip][t] <= grants'[ip][u]
    BY <2>3, <2>4 DEF Counting, Times
  <2>6. \A t \in Times : now <= t => grants'[ip][t] = grants'[ip][now]
    BY <2>3, <2>4 DEF Counting, Times
  <2> QED BY <2>2, <2>5, <2>6 DEF Counting
<1>2. CASE Tick
  <2>1. now' = now + 1 /\ now \in 0 .. MaxTime - 1 /\ grants' = grants
    BY <1>2, BucketAssumption DEF Tick, TypeOK, Times
  <2> QED BY <2>1, BucketAssumption DEF Counting, Times
<1>3. CASE UNCHANGED <<now, grants>> BY <1>3 DEF Counting
<1> QED
  BY <1>1, <1>2, <1>3 DEF Next, Sweep, RequestInternal, SweepBegins, SweepScans, SweepMovesOn,
                          SweepDeletes

\* What the proofs below know of the numbers of a client.
LEMMA Numbers ==
  ASSUME TypeOK, InTime, Counting, NEW ip \in Ips
  PROVE  /\ now \in Nat /\ now \in Times /\ shRate \in Nat /\ ShCapacity \in Nat
         /\ Unit \in Nat /\ Minutes5 \in Nat
         /\ \A t \in Times : grants[ip][t] \in Nat
         /\ \A a \in 0 .. now : Before(ip, a) \in Nat /\ Before(ip, a) <= grants[ip][now]
         /\ data[ip] # None => /\ data[ip].tokens \in Nat /\ data[ip].tokens <= ShCapacity
                               /\ data[ip].lastTime \in 0 .. now
PROOF
<1>1. /\ now \in Nat /\ now \in Times /\ shRate \in Nat /\ ShCapacity \in Nat
      /\ Unit \in Nat /\ Minutes5 \in Nat
  BY BucketAssumption DEF TypeOK, Times
<1>2. \A t \in Times : grants[ip][t] \in Nat BY DEF TypeOK
<1>3. ASSUME NEW a \in 0 .. now PROVE Before(ip, a) \in Nat /\ Before(ip, a) <= grants[ip][now]
  <2>1. CASE a = 0 BY <1>1, <1>2, <2>1 DEF Before
  <2>2. CASE a # 0
    <3>1. a - 1 \in Times /\ a - 1 <= now BY <1>1, <2>2, BucketAssumption DEF Times
    <3>2. grants[ip][a - 1] <= grants[ip][now] BY <1>1, <3>1 DEF Counting
    <3> QED BY <1>2, <2>2, <3>1, <3>2 DEF Before
  <2> QED BY <2>1, <2>2
<1>4. data[ip] # None => /\ data[ip].tokens \in Nat /\ data[ip].tokens <= ShCapacity
                         /\ data[ip].lastTime \in 0 .. now
  BY <1>1 DEF TypeOK, InTime, Limiter
<1> QED BY <1>1, <1>2, <1>3, <1>4

\* A step that leaves a client alone leaves its account as it was.
LEMMA SameAccount ==
  ASSUME NEW ip \in Ips, Account(ip), data'[ip] = data[ip], grants'[ip] = grants[ip],
         now' = now, shRate' = shRate, ip \in delIp' => ip \in delIp
  PROVE  Account(ip)'
PROOF
<1>1. \A a : Before(ip, a)' = Before(ip, a) BY DEF Before
<1>2. CASE data[ip] = None
  <2>1. NotMade(ip)' BY <1>1, <1>2 DEF NotMade, Account
  <2> QED BY <1>2, <2>1 DEF Account
<1>3. CASE data[ip] # None
  <2>1. PICK m \in 0 .. now, g \in 0 .. grants[ip][now] : MadeAt(ip, m, g)
    BY <1>3 DEF Account
  <2>2. MadeAt(ip, m, g)' BY <1>1, <2>1 DEF MadeAt
  <2> QED BY <1>3, <2>1, <2>2 DEF Account
<1> QED BY <1>2, <1>3

\* A tick of the clock adds to what the rate allows, and nothing else changes.
LEMMA TickAccount ==
  ASSUME TypeOK, InTime, Counting, NEW ip \in Ips, Account(ip), Tick
  PROVE  Account(ip)'
PROOF
<1> DEFINE n == grants[ip][now]
<1>1. /\ now \in Nat /\ now \in Times /\ shRate \in Nat /\ ShCapacity \in Nat
      /\ Unit \in Nat /\ Minutes5 \in Nat /\ n \in Nat
      /\ \A a \in 0 .. now : Before(ip, a) \in Nat
      /\ data[ip] # None => /\ data[ip].tokens \in Nat /\ data[ip].tokens <= ShCapacity
                            /\ data[ip].lastTime \in 0 .. now
  BY Numbers
<1>2. /\ now' = now + 1 /\ now + 1 \in Times
      /\ shRate' = shRate /\ data' = data /\ delIp' = delIp /\ grants' = grants
  BY <1>1, BucketAssumption DEF Tick, sweepVars, Times
<1>3. grants'[ip][now'] = n BY <1>1, <1>2 DEF Counting
<1>4. /\ \A a : Before(ip, a)' = Before(ip, a)
      /\ Before(ip, now + 1) = n
  BY <1>1, <1>2 DEF Before
<1>5. CASE data[ip] = None
  <2>1. NotMade(ip) BY <1>5 DEF Account
  <2>2. ASSUME NEW a \in 0 .. now + 1, now + 1 - a < Minutes5
        PROVE  Unit * (n - Before(ip, a)) <= ShCapacity + shRate * ((now + 1) - a)
    <3>1. CASE a = now + 1
      <4>1. n - Before(ip, a) = 0 /\ (now + 1) - a = 0 BY <1>1, <1>4, <3>1
      <4>2. Unit * 0 = 0 /\ shRate * 0 = 0 BY <1>1
      <4> QED BY <1>1, <4>1, <4>2
    <3>2. CASE a # now + 1
      <4>1. a \in 0 .. now /\ now - a < Minutes5 /\ a \in Int BY <1>1, <2>2, <3>2
      <4>2. Unit * (n - Before(ip, a)) <= ShCapacity + shRate * (now - a)
        BY <2>1, <4>1 DEF NotMade
      <4>3. shRate * (now - a) \in Int /\ shRate * ((now + 1) - a) \in Int
            /\ shRate * (now - a) <= shRate * ((now + 1) - a)
        BY <1>1, <4>1, MoreTime
      <4>4. Unit * (n - Before(ip, a)) \in Int BY <1>1, <4>1
      <4> HIDE DEF n
      <4> QED BY <1>1, <4>2, <4>3, <4>4
    <3> QED BY <3>1, <3>2
  <2>3. ASSUME NEW a \in 0 .. now', now' - a < Minutes5
        PROVE  Unit * (grants'[ip][now'] - Before(ip, a)') <= ShCapacity + shRate' * (now' - a)
    <3>1. a \in 0 .. now + 1 /\ now + 1 - a < Minutes5 BY <1>1, <1>2, <2>3
    <3>2. Unit * (n - Before(ip, a)) <= ShCapacity + shRate * ((now + 1) - a) BY <2>2, <3>1
    <3> HIDE DEF n
    <3> QED BY <1>2, <1>3, <1>4, <3>2
  <2>4. ip \notin delIp' BY <1>2, <2>1 DEF NotMade
  <2>5. NotMade(ip)' BY <2>3, <2>4 DEF NotMade
  <2> QED BY <1>2, <1>5, <2>5 DEF Account
<1>6. CASE data[ip] # None
  <2>1. PICK m \in 0 .. now, g \in 0 .. n : MadeAt(ip, m, g)
    BY <1>6 DEF Account
  <2>2. m \in 0 .. now + 1 /\ g \in 0 .. n /\ m \in Int BY <1>1, <2>1
  <2>3. ASSUME NEW a \in m + 1 .. now + 1
        PROVE  Unit * (n - Before(ip, a)) + data[ip].tokens
                 <= ShCapacity + (IF a <= data[ip].lastTime THEN shRate * (data[ip].lastTime - a) ELSE 0)
    <3>1. CASE a = now + 1 BY <1>1, <1>4, <1>6, <3>1
    <3>2. CASE a # now + 1
      <4>1. a \in m + 1 .. now BY <1>1, <2>2, <3>2
      <4> QED BY <2>1, <4>1 DEF MadeAt
    <3> QED BY <3>1, <3>2
  <2>4. ip \in delIp => now + 1 - m >= Minutes5 BY <1>1, <2>1, <2>2 DEF MadeAt
  <2>5. MadeAt(ip, m, g)'
    <3> HIDE DEF n
    <3>1. ASSUME NEW a \in m + 1 .. now'
          PROVE  Unit * (n - Before(ip, a)') + data'[ip].tokens
                   <= ShCapacity + (IF a <= data'[ip].lastTime
                                    THEN shRate' * (data'[ip].lastTime - a) ELSE 0)
      <4>1. a \in m + 1 .. now + 1 BY <1>2
      <4> QED BY <1>2, <1>4, <2>3, <4>1
    <3>2. /\ m <= data'[ip].lastTime
          /\ Before(ip, m)' <= g /\ g <= grants'[ip][m]
          /\ Unit * (n - g) + data'[ip].tokens <= ShCapacity + shRate' * (data'[ip].lastTime - m)
          /\ shRate' # 0 => grants'[ip][data'[ip].lastTime] = n
          /\ \A a \in 0 .. m :
               m - a < Minutes5 => Unit * (g - Before(ip, a)') <= ShCapacity + shRate' * (m - a)
      BY <1>2, <1>4, <2>1 DEF MadeAt, n
    <3>3. ip \in delIp' => now' - m >= Minutes5 BY <1>1, <1>2, <2>2, <2>4
    <3> QED BY <1>3, <3>1, <3>2, <3>3 DEF MadeAt
  <2> QED BY <1>2, <1>3, <1>6, <2>2, <2>5 DEF Account
<1> QED BY <1>5, <1>6

\* The sweep collects limiters that are old enough.
LEMMA ScanAccount ==
  ASSUME TypeOK, InTime, Counting, NEW ip \in Ips, Account(ip), SweepScans
  PROVE  Account(ip)'
PROOF
<1>1. /\ UNCHANGED <<shRate, data, now, grants>>
      /\ ip \in delIp' => data[ip] # None /\ tick - data[ip].lastTime >= Minutes5
  BY DEF SweepScans, Unused
<1>2. CASE ip \in delIp'
  <2>1. data[ip] # None /\ tick - data[ip].lastTime >= Minutes5 BY <1>1, <1>2
  <2>2. /\ tick \in Int /\ tick <= now /\ now \in Nat /\ Minutes5 \in Nat
        /\ data[ip].lastTime \in Nat
    <3>1. tick \in Int /\ tick <= now BY DEF TypeOK, InTime
    <3> QED BY <2>1, <3>1, Numbers
  <2>3. PICK m \in 0 .. now, g \in 0 .. grants[ip][now] : MadeAt(ip, m, g)
    BY <2>1 DEF Account
  <2>4. m <= data[ip].lastTime BY <2>3 DEF MadeAt
  <2>5. now - m >= Minutes5 BY <2>1, <2>2, <2>3, <2>4
  <2>6. \A a : Before(ip, a)' = Before(ip, a) BY <1>1 DEF Before
  <2>7. MadeAt(ip, m, g)' BY <1>1, <2>3, <2>5, <2>6 DEF MadeAt
  <2> QED BY <1>1, <2>1, <2>3, <2>7 DEF Account
<1>3. CASE ip \notin delIp' BY <1>1, <1>3, SameAccount
<1> QED BY <1>2, <1>3

\* A limiter that was old enough has let pass no more than a bucket in that age.
LEMMA DeleteAccount ==
  ASSUME TypeOK, InTime, Counting, NEW ip \in Ips, Account(ip), SweepDeletes(ip)
  PROVE  Account(ip)'
PROOF
<1> DEFINE n == grants[ip][now]
<1>1. /\ now \in Nat /\ shRate \in Nat /\ ShCapacity \in Nat
      /\ Unit \in Nat /\ Minutes5 \in Nat /\ n \in Nat
      /\ \A a \in 0 .. now : Before(ip, a) \in Nat
      /\ data[ip] # None => /\ data[ip].tokens \in Nat /\ data[ip].lastTime \in 0 .. now
  BY Numbers
<1>2. /\ UNCHANGED <<shRate, now, grants>>
      /\ ip \in delIp /\ ip \notin delIp' /\ data'[ip] = None
  BY DEF SweepDeletes, TypeOK
<1>3. data[ip] # None BY <1>2 DEF Account, NotMade
<1>4. PICK m \in 0 .. now, g \in 0 .. n : MadeAt(ip, m, g) BY <1>3 DEF Account
<1>5. ASSUME NEW a \in 0 .. now, now - a < Minutes5
      PROVE  Unit * (n - Before(ip, a)) <= ShCapacity + shRate * (now - a)
  <2> DEFINE last == data[ip].lastTime
             spent == Unit * (n - Before(ip, a))
  <2>1. now - m >= Minutes5 BY <1>2, <1>4 DEF MadeAt
  <2>2. a \in m + 1 .. now BY <1>1, <1>4, <1>5, <2>1
  <2>3. spent + data[ip].tokens <= ShCapacity + (IF a <= last THEN shRate * (last - a) ELSE 0)
    BY <1>4, <2>2 DEF MadeAt
  <2>4. spent \in Int /\ last \in Int /\ a \in Int /\ last <= now /\ data[ip].tokens \in Nat
    BY <1>1, <1>3
  <2> HIDE DEF spent, last, n
  <2>5. shRate * (last - a) \in Int /\ shRate * (now - a) \in Int
        /\ shRate * (last - a) <= shRate * (now - a) /\ shRate * (now - a) >= 0
    <3>1. shRate * (now - a) >= 0 BY <1>1, <1>5
    <3>2. last - a \in Int /\ now - a \in Int /\ last - a <= now - a BY <1>1, <2>4
    <3> QED BY <1>1, <3>1, <3>2, MoreTime
  <2>6. spent <= ShCapacity + shRate * (now - a) BY <1>1, <2>3, <2>4, <2>5
  <2> QED BY <2>6 DEF spent
<1>6. \A a : Before(ip, a)' = Before(ip, a) BY <1>2 DEF Before
<1>7. NotMade(ip)' BY <1>2, <1>5, <1>6 DEF NotMade
<1> QED BY <1>2, <1>7 DEF Account

\* A limiter that a request makes anew starts the account with a full bucket.
LEMMA MakeAccount ==
  ASSUME TypeOK, InTime, Counting, NEW ip \in Ips, Account(ip), data[ip] = None,
         RequestExternal(ip)
  PROVE  Account(ip)'
PROOF
<1> DEFINE n == grants[ip][now]
<1>1. /\ now \in Nat /\ now \in Times /\ shRate \in Nat /\ ShCapacity \in Nat
      /\ Unit \in Nat /\ Minutes5 \in Nat /\ n \in Nat
      /\ Before(ip, now) \in Nat /\ Before(ip, now) <= n
  BY Numbers
<1>2. PICK tokens \in Nat, more \in {0, 1} : Effect(ip, tokens, more) BY RequestEffect
<1>3. now' = now /\ shRate' = shRate /\ delIp' = delIp BY RequestEffect DEF sweepVars
<1>4. LimiterOf(ip).lastTime = now BY DEF LimiterOf, NewLimiter
<1>5. data'[ip] \in Limiter /\ data'[ip].tokens \in Nat /\ data'[ip].lastTime \in Nat
  BY <1>2 DEF Effect, Limiter
<1>6. /\ data'[ip] # None /\ data'[ip].lastTime = now
      /\ data'[ip].tokens + Unit * more = tokens /\ tokens <= ShCapacity
  BY <1>1, <1>2, <1>4, <1>5 DEF Effect
<1>7. grants'[ip][now] = n + more BY <1>1, <1>2 DEF Effect
<1>8. \A a \in 0 .. now : Before(ip, a)' = Before(ip, a)
  <2> SUFFICES ASSUME NEW a \in 0 .. now PROVE Before(ip, a)' = Before(ip, a) OBVIOUS
  <2>1. CASE a = 0 BY <2>1 DEF Before
  <2>2. CASE a # 0
    <3>1. a - 1 \in Times /\ a - 1 < now BY <1>1, <2>2, BucketAssumption DEF Times
    <3>2. grants'[ip][a - 1] = grants[ip][a - 1] BY <1>2, <3>1 DEF Effect
    <3> QED BY <2>2, <3>2 DEF Before
  <2> QED BY <2>1, <2>2
<1>9. ip \notin delIp BY DEF Account, NotMade
<1>10. PICK m \in 0 .. now : m = now BY <1>1
<1>11. PICK g \in 0 .. n : g = n BY <1>1
<1> HIDE DEF n
<1>12. MadeAt(ip, m, g)'
  <2>1. (n + more) - g = more /\ more \in Nat BY <1>1, <1>11
  <2>2. Unit * ((n + more) - g) + data'[ip].tokens <= ShCapacity + shRate * (m - m)
    <3>1. Unit * ((n + more) - g) = Unit * more BY <2>1
    <3>2. Unit * more \in Nat BY <1>1, <2>1
    <3>3. Unit * more + data'[ip].tokens <= ShCapacity BY <1>5, <1>6, <3>2
    <3>4. m - m = 0 /\ shRate * 0 = 0 /\ ShCapacity + 0 = ShCapacity BY <1>1
    <3> QED BY <3>1, <3>3, <3>4
  <2>3. m + 1 .. now = {} BY <1>1, <1>10
  <2>4. Before(ip, m)' <= g /\ g <= grants'[ip][m]
    <3>1. Before(ip, m)' = Before(ip, m) BY <1>8
    <3> QED BY <1>1, <1>7, <1>10, <1>11, <3>1
  <2>5. \A a \in 0 .. m :
          m - a < Minutes5 => Unit * (g - Before(ip, a)') <= ShCapacity + shRate * (m - a)
    BY <1>8, <1>10, <1>11 DEF Account, NotMade, n
  <2>6. m <= data'[ip].lastTime BY <1>1, <1>6, <1>10
  <2>7. \A a \in m + 1 .. now :
          Unit * ((n + more) - Before(ip, a)') + data'[ip].tokens
            <= ShCapacity + (IF a <= data'[ip].lastTime
                             THEN shRate * (data'[ip].lastTime - a) ELSE 0)
    BY <2>3
  <2>8. shRate # 0 => grants'[ip][data'[ip].lastTime] = n + more BY <1>6, <1>7
  <2>9. Unit * ((n + more) - g) + data'[ip].tokens
          <= ShCapacity + shRate * (data'[ip].lastTime - m)
    BY <1>6, <1>10, <2>2
  <2> QED BY <1>3, <1>7, <1>9, <2>4, <2>5, <2>6, <2>7, <2>8, <2>9 DEF MadeAt
<1>13. g \in 0 .. grants'[ip][now'] /\ m \in 0 .. now' BY <1>1, <1>3, <1>7, <1>11
<1> QED BY <1>6, <1>12, <1>13 DEF Account

\* A limiter that a request finds pays for it from what it holds and what its rate adds.
LEMMA SpendAccount ==
  ASSUME TypeOK, InTime, Counting, NEW ip \in Ips, Account(ip), data[ip] # None,
         RequestExternal(ip)
  PROVE  Account(ip)'
PROOF
<1> DEFINE n    == grants[ip][now]
           last == data[ip].lastTime
           had  == data[ip].tokens
           now_last == data'[ip].lastTime
           left == data'[ip].tokens
<1>1. /\ now \in Nat /\ now \in Times /\ shRate \in Nat /\ ShCapacity \in Nat
      /\ Unit \in Nat /\ Minutes5 \in Nat /\ n \in Nat
      /\ \A a \in 0 .. now : Before(ip, a) \in Nat /\ Before(ip, a) <= n
      /\ had \in Nat /\ had <= ShCapacity /\ last \in 0 .. now
      /\ \A t \in Times : grants[ip][t] \in Nat
  BY Numbers
<1>2. PICK tokens \in Nat, more \in {0, 1} : Effect(ip, tokens, more) BY RequestEffect
<1>3. now' = now /\ shRate' = shRate /\ delIp' = delIp BY RequestEffect DEF sweepVars
<1>4. LimiterOf(ip) = data[ip] BY DEF LimiterOf
<1>5. /\ data'[ip] # None /\ left \in Nat /\ now_last \in Nat
      /\ left + Unit * more = tokens /\ tokens <= ShCapacity
      /\ last <= now_last /\ now_last <= now
      /\ shRate # 0 => now_last = now /\ tokens <= had + shRate * (now - last)
      /\ shRate = 0 => now_last = last /\ tokens = had
  BY <1>2, <1>4 DEF Effect, Limiter
<1>6. \A t \in Times : grants'[ip][t] = IF t < now THEN grants[ip][t] ELSE grants[ip][t] + more
  BY <1>2 DEF Effect
<1>7. grants'[ip][now] = n + more BY <1>1, <1>6
<1>8. \A a \in 0 .. now : Before(ip, a)' = Before(ip, a)
  <2> SUFFICES ASSUME NEW a \in 0 .. now PROVE Before(ip, a)' = Before(ip, a) OBVIOUS
  <2>1. CASE a = 0 BY <2>1 DEF Before
  <2>2. CASE a # 0
    <3>1. a - 1 \in Times /\ a - 1 < now BY <1>1, <2>2, BucketAssumption DEF Times
    <3> QED BY <1>6, <2>2, <3>1 DEF Before
  <2> QED BY <2>1, <2>2
<1>9. PICK m \in 0 .. now, g \in 0 .. n : MadeAt(ip, m, g) BY DEF Account
<1> HIDE DEF n, last, had, now_last, left
<1>10. ASSUME NEW x \in Int, NEW a \in 0 .. now, a <= last,
             Unit * (n - x) + had <= ShCapacity + shRate * (last - a)
       PROVE  Unit * ((n + more) - x) + left <= ShCapacity + shRate * (now_last - a)
  <2>1. more \in Int /\ n \in Int /\ last \in Int BY <1>1
  <2>2. /\ Unit * (n - x) \in Int /\ Unit * more \in Int /\ Unit * ((n + more) - x) \in Int
        /\ Unit * ((n + more) - x) = Unit * (n - x) + Unit * more
    BY <1>1, <2>1, Moved
  <2>3. Unit * ((n + more) - x) + left = Unit * (n - x) + tokens BY <1>5, <2>2
  <2>4. /\ shRate * (last - a) \in Int /\ shRate * (now - last) \in Int /\ shRate * (now - a) \in Int
        /\ shRate * (last - a) + shRate * (now - last) = shRate * (now - a)
    BY <1>1, <2>1, Elapsed
  <2>5. CASE shRate = 0 BY <1>1, <1>5, <1>10, <2>2, <2>3, <2>4, <2>5
  <2>6. CASE shRate # 0 BY <1>1, <1>5, <1>10, <2>2, <2>3, <2>4, <2>6
  <2> QED BY <2>5, <2>6
<1>11. m <= last /\ Unit * (n - g) + had <= ShCapacity + shRate * (last - m)
  BY <1>9 DEF MadeAt, n, last, had
<1>12. Unit * ((n + more) - g) + left <= ShCapacity + shRate * (now_last - m)
  <2>1. g \in Int BY <1>1
  <2> QED BY <1>10, <1>11, <2>1
<1>13. ASSUME NEW a \in m + 1 .. now
       PROVE  Unit * ((n + more) - Before(ip, a)) + left
                <= ShCapacity + (IF a <= now_last THEN shRate * (now_last - a) ELSE 0)
  <2>1. a \in 0 .. now /\ a - 1 \in Times /\ a \in Int /\ last \in Int
    BY <1>1, BucketAssumption DEF Times
  <2>2. Before(ip, a) \in Nat /\ Before(ip, a) <= n BY <1>1, <2>1
  <2>3. Unit * (n - Before(ip, a)) + had
          <= ShCapacity + (IF a <= last THEN shRate * (last - a) ELSE 0)
    BY <1>9 DEF MadeAt, n, last, had
  <2>4. CASE a <= last
    <3>1. a <= now_last BY <1>5, <2>1, <2>4
    <3> QED BY <1>10, <2>1, <2>2, <2>3, <2>4, <3>1
  <2>5. CASE ~(a <= last)
    <3>1. /\ Unit * (n - Before(ip, a)) \in Int /\ Unit * more \in Int
          /\ Unit * ((n + more) - Before(ip, a)) \in Int
          /\ Unit * ((n + more) - Before(ip, a)) = Unit * (n - Before(ip, a)) + Unit * more
      BY <1>1, <2>2, Moved
    <3>2. Unit * ((n + more) - Before(ip, a)) + left = Unit * (n - Before(ip, a)) + tokens
      BY <1>5, <3>1
    <3>3. CASE shRate = 0
      BY <1>1, <1>5, <2>1, <2>3, <2>5, <3>1, <3>2, <3>3
    <3>4. CASE shRate # 0
      <4>1. grants[ip][last] = n BY <1>9, <3>4 DEF MadeAt, n, last
      <4>2. last <= a - 1 /\ last \in Times /\ a # 0 BY <1>1, <2>1, <2>5, BucketAssumption DEF Times
      <4>3. n <= Before(ip, a) BY <2>1, <4>1, <4>2 DEF Before, Counting
      <4>4. Before(ip, a) = n BY <1>1, <2>2, <4>3
      <4>5. Unit * (n - Before(ip, a)) = 0 BY <1>1, <4>4
      <4>6. shRate * (now - a) \in Int /\ shRate * (now - a) >= 0 BY <1>1, <2>1
      <4>7. Unit * ((n + more) - Before(ip, a)) + left <= ShCapacity
        BY <1>5, <3>2, <4>5
      <4>8. now_last = now /\ a <= now BY <1>5, <2>1, <3>4
      <4> HIDE DEF n
      <4>9. ShCapacity <= ShCapacity + shRate * (now - a) BY <1>1, <4>6
      <4> QED BY <1>1, <1>5, <2>2, <3>1, <4>6, <4>7, <4>8, <4>9
    <3> QED BY <3>3, <3>4
  <2> QED BY <2>4, <2>5
<1>14. MadeAt(ip, m, g)'
  <2>1. m <= now_last BY <1>1, <1>5, <1>11
  <2>2. /\ Before(ip, m) <= g /\ g <= grants[ip][m]
        /\ \A a \in 0 .. m :
             m - a < Minutes5 => Unit * (g - Before(ip, a)) <= ShCapacity + shRate * (m - a)
        /\ ip \in delIp => now - m >= Minutes5
    BY <1>9 DEF MadeAt
  <2>3. Before(ip, m)' <= g /\ g <= grants'[ip][m]
    <3>1. m \in Times /\ g \in Int BY <1>1, BucketAssumption DEF Times
    <3> QED BY <1>1, <1>6, <1>8, <2>2, <3>1
  <2>4. \A a \in 0 .. m :
          m - a < Minutes5 => Unit * (g - Before(ip, a)') <= ShCapacity + shRate * (m - a)
    <3>1. \A a \in 0 .. m : a \in 0 .. now BY <1>1
    <3> QED BY <1>8, <2>2, <3>1
  <2>5. \A a \in m + 1 .. now :
          Unit * ((n + more) - Before(ip, a)') + left
            <= ShCapacity + (IF a <= now_last THEN shRate * (now_last - a) ELSE 0)
    <3>1. \A a \in m + 1 .. now : a \in 0 .. now BY <1>1
    <3> QED BY <1>8, <1>13, <3>1
  <2>6. shRate # 0 => grants'[ip][now_last] = n + more BY <1>5, <1>7
  <2> QED BY <1>3, <1>7, <1>12, <2>1, <2>2, <2>3, <2>4, <2>5, <2>6 DEF MadeAt, now_last, left
<1>15. g \in 0 .. n + more BY <1>1
<1> QED BY <1>3, <1>5, <1>7, <1>14, <1>15 DEF Account

\* Every step keeps the account of every client.
LEMMA NextAccounts ==
  ASSUME TypeOK, InTime, Counting, Accounts, Next
  PROVE  Accounts'
PROOF
<1> SUFFICES ASSUME NEW ip \in Ips PROVE Account(ip)' BY DEF Accounts
<1>1. Account(ip) BY DEF Accounts
<1>2. CASE RequestExternal(ip) BY <1>1, <1>2, MakeAccount, SpendAccount
<1>3. ASSUME NEW j \in Ips \ {ip}, RequestExternal(j) PROVE Account(ip)'
  <2>1. /\ data'[ip] = data[ip] /\ grants'[ip] = grants[ip]
        /\ now' = now /\ shRate' = shRate /\ delIp' = delIp
    BY <1>3, RequestEffect DEF sweepVars
  <2> QED BY <1>1, <2>1, SameAccount
<1>4. CASE SweepDeletes(ip) BY <1>1, <1>4, DeleteAccount
<1>5. ASSUME NEW j \in Ips \ {ip}, SweepDeletes(j) PROVE Account(ip)'
  <2>1. data'[ip] = data[ip] BY <1>5 DEF SweepDeletes, TypeOK
  <2>2. grants'[ip] = grants[ip] /\ now' = now /\ shRate' = shRate /\ (ip \in delIp' => ip \in delIp)
    BY <1>5 DEF SweepDeletes
  <2> QED BY <1>1, <2>1, <2>2, SameAccount
<1>6. CASE SweepScans BY <1>1, <1>6, ScanAccount
<1>7. CASE Tick BY <1>1, <1>7, TickAccount
<1>8. CASE RequestInternal \/ SweepBegins \/ SweepMovesOn
  <2>1. /\ data' = data /\ grants' = grants /\ now' = now /\ shRate' = shRate /\ delIp' = delIp
    BY <1>8 DEF RequestInternal, SweepBegins, SweepMovesOn, sweepVars
  <2> QED BY <1>1, <2>1, SameAccount
<1> QED BY <1>2, <1>3, <1>4, <1>5, <1>6, <1>7, <1>8 DEF Next, Sweep

\* What a window that ends now has let pass: the limiter there is and its predecessor pay
\* for it, a bucket each.
WindowsUntilNow ==
  \A ip \in Ips, a \in 0 .. now : now - a < Minutes5 =>
    Unit * (grants[ip][now] - Before(ip, a)) <= 2 * ShCapacity + shRate * (now - a)

LEMMA TwoBuckets ==
  TypeOK /\ InTime /\ Counting /\ Accounts => WindowsUntilNow
PROOF
<1> SUFFICES ASSUME TypeOK, InTime, Counting, Accounts,
                    NEW ip \in Ips, NEW a \in 0 .. now, now - a < Minutes5
             PROVE  Unit * (grants[ip][now] - Before(ip, a)) <= 2 * ShCapacity + shRate * (now - a)
  BY DEF WindowsUntilNow
<1> DEFINE n == grants[ip][now]
           rest == Unit * (n - Before(ip, a))
<1>1. /\ now \in Nat /\ now \in Times /\ shRate \in Nat /\ ShCapacity \in Nat
      /\ Unit \in Nat /\ Minutes5 \in Nat /\ n \in Nat /\ Before(ip, a) \in Nat
      /\ data[ip] # None => data[ip].tokens \in Nat /\ data[ip].lastTime \in 0 .. now
      /\ a \in Int
  BY Numbers
<1>2. Account(ip) BY DEF Accounts
<1>3. rest \in Int /\ shRate * (now - a) \in Int BY <1>1
<1>4. CASE data[ip] = None
  <2>1. rest <= ShCapacity + shRate * (now - a) BY <1>2, <1>4 DEF Account, NotMade
  <2> HIDE DEF rest
  <2>2. rest <= 2 * ShCapacity + shRate * (now - a) BY <1>1, <1>3, <2>1
  <2> QED BY <2>2 DEF rest
<1>5. CASE data[ip] # None
  <2> DEFINE last == data[ip].lastTime
             had  == data[ip].tokens
  <2>1. had \in Nat /\ last \in 0 .. now /\ last \in Int BY <1>1, <1>5
  <2>2. PICK m \in 0 .. now, g \in 0 .. n : MadeAt(ip, m, g) BY <1>2, <1>5 DEF Account
  <2>3. m \in Int /\ g \in Int BY <1>1
  <2>4. CASE a > m
    <3>1. a \in m + 1 .. now BY <1>1, <2>3, <2>4
    <3>2. rest + had <= ShCapacity + (IF a <= last THEN shRate * (last - a) ELSE 0)
      BY <2>2, <3>1 DEF MadeAt
    <3> HIDE DEF rest, had, last
    <3>3. /\ shRate * (last - a) \in Int /\ shRate * (last - a) <= shRate * (now - a)
          /\ shRate * (now - a) >= 0
      <4>1. last - a \in Int /\ now - a \in Int /\ last - a <= now - a BY <1>1, <2>1
      <4>2. shRate * (now - a) >= 0 BY <1>1
      <4> QED BY <1>1, <4>1, <4>2, MoreTime
    <3>4. rest <= 2 * ShCapacity + shRate * (now - a) BY <1>1, <1>3, <2>1, <3>2, <3>3
    <3> QED BY <3>4 DEF rest
  <2>5. CASE a <= m
    <3> DEFINE own   == Unit * (n - g)
               other == Unit * (g - Before(ip, a))
    <3>1. own + had <= ShCapacity + shRate * (last - m) BY <2>2 DEF MadeAt
    <3>2. a \in 0 .. m /\ m - a < Minutes5 BY <1>1, <2>3, <2>5
    <3>3. other <= ShCapacity + shRate * (m - a) BY <2>2, <3>2 DEF MadeAt
    <3>4. own \in Int /\ other \in Int /\ rest = own + other
      <4>1. n \in Int /\ Before(ip, a) \in Int /\ Unit \in Nat BY <1>1
      <4> HIDE DEF n
      <4>2. /\ Unit * (g - Before(ip, a)) \in Int /\ Unit * (n - g) \in Int
            /\ Unit * (g - Before(ip, a)) + Unit * (n - g) = Unit * (n - Before(ip, a))
        BY <2>3, <4>1, Elapsed
      <4> QED BY <4>2
    <3> HIDE DEF rest, had, last, own, other
    <3>5. /\ shRate * (last - m) \in Int /\ shRate * (now - m) \in Int
          /\ shRate * (last - m) <= shRate * (now - m)
      <4>1. last - m \in Int /\ now - m \in Int /\ last - m <= now - m BY <1>1, <2>1, <2>3
      <4> QED BY <1>1, <4>1, MoreTime
    <3>6. shRate * (m - a) \in Int /\ shRate * (m - a) + shRate * (now - m) = shRate * (now - a)
      BY <1>1, <2>3, Elapsed
    <3>7. rest <= 2 * ShCapacity + shRate * (now - a)
      BY <1>1, <1>3, <2>1, <3>1, <3>3, <3>4, <3>5, <3>6
    <3> QED BY <3>7 DEF rest
  <2> QED BY <1>1, <2>3, <2>4, <2>5
<1> QED BY <1>4, <1>5

\* A window that has ended stays as it was; the ones that end now or later hold what has
\* been let pass until now.
LEMMA NextTwice ==
  ASSUME TypeOK, InTime, Counting, TwiceBurstBound, Next, TypeOK', Counting', WindowsUntilNow'
  PROVE  TwiceBurstBound'
PROOF
<1>1. ASSUME NEW j \in Ips, RequestExternal(j) PROVE TwiceBurstBound'
  <2>1. PICK tokens \in Nat, more \in {0, 1} : Effect(j, tokens, more) BY <1>1, RequestEffect
  <2>2. /\ now' = now /\ shRate' = shRate
        /\ \A i \in Ips \ {j} : grants'[i] = grants[i]
    BY <1>1, RequestEffect
  <2>3. \A t \in Times : grants'[j][t] = IF t < now THEN grants[j][t] ELSE grants[j][t] + more
    BY <2>1 DEF Effect
  <2>4. /\ now \in Times /\ now \in Nat /\ shRate \in Nat /\ ShCapacity \in Nat /\ Unit \in Nat
        /\ Minutes5 \in Nat
    BY BucketAssumption DEF TypeOK, Times
  <2>5. ASSUME NEW i \in Ips, NEW a \in Times, NEW b \in Times, a <= b, b - a < Minutes5
        PROVE  Unit * Within(i, a, b)' <= 2 * ShCapacity + shRate * (b - a)
    <3>0. a \in Nat /\ b \in Nat BY DEF Times
    <3>1. CASE b < now
      <4>1. Unit * Within(i, a, b) <= 2 * ShCapacity + shRate * (b - a)
        BY <2>5 DEF TwiceBurstBound
      <4>2. grants'[i][b] = grants[i][b] BY <2>2, <2>3, <3>1
      <4>3. Before(i, a)' = Before(i, a)
        <5>1. CASE a = 0 BY <5>1 DEF Before
        <5>2. CASE a # 0
          <6>1. a - 1 \in Times /\ a - 1 < now BY <2>4, <2>5, <3>0, <3>1, <5>2, BucketAssumption DEF Times
          <6>2. grants'[i][a - 1] = grants[i][a - 1] BY <2>2, <2>3, <6>1
          <6> QED BY <5>2, <6>2 DEF Before
        <5> QED BY <5>1, <5>2
      <4>4. Within(i, a, b)' = Within(i, a, b) BY <4>2, <4>3 DEF Within
      <4> QED BY <4>1, <4>4
    <3>2. CASE now <= b
      <4>1. grants'[i][b] = grants'[i][now] /\ grants'[i][b] \in Nat
        BY <2>2, <2>4, <3>2 DEF Counting, TypeOK
      <4>2. CASE a <= now
        <5>1. a \in 0 .. now' /\ now' - a < Minutes5 BY <2>2, <2>4, <2>5, <3>0, <3>2, <4>2
        <5>2. Unit * (grants'[i][now'] - Before(i, a)') <= 2 * ShCapacity + shRate' * (now' - a)
          BY <5>1 DEF WindowsUntilNow
        <5>3. Unit * Within(i, a, b)' <= 2 * ShCapacity + shRate * (now - a)
          BY <2>2, <4>1, <5>2 DEF Within
        <5>4. /\ shRate * (now - a) \in Int /\ shRate * (b - a) \in Int
              /\ shRate * (now - a) <= shRate * (b - a)
          <6>1. now - a \in Int /\ b - a \in Int /\ now - a <= b - a BY <2>4, <3>0, <3>2
          <6> QED BY <2>4, <6>1, MoreTime
        <5>5. Before(i, a)' \in Nat
          <6>1. CASE a = 0 BY <6>1 DEF Before
          <6>2. CASE a # 0
            <7>1. a - 1 \in Times BY <3>0, <6>2, BucketAssumption DEF Times
            <7> QED BY <6>2, <7>1 DEF Before, TypeOK
          <6> QED BY <6>1, <6>2
        <5>6. Within(i, a, b)' \in Int /\ Unit * Within(i, a, b)' \in Int
          <6>1. Within(i, a, b)' \in Int BY <4>1, <5>5 DEF Within
          <6> HIDE DEF Within
          <6> QED BY <2>4, <6>1
        <5> QED BY <2>4, <5>3, <5>4, <5>6
      <4>3. CASE a > now
        <5>1. a - 1 \in Times /\ now <= a - 1 /\ a # 0
          BY <2>4, <3>0, <4>3, BucketAssumption DEF Times
        <5>2. grants'[i][a - 1] = grants'[i][now] BY <2>2, <5>1 DEF Counting
        <5>3. Before(i, a)' = grants'[i][b] BY <4>1, <5>1, <5>2 DEF Before
        <5>4. Within(i, a, b)' = 0 BY <4>1, <5>3 DEF Within
        <5>5. b - a \in Nat BY <2>5, <3>0
        <5>6. shRate * (b - a) \in Int /\ shRate * (b - a) >= 0 BY <2>4, <5>5
        <5> QED BY <2>4, <5>4, <5>6
      <4> QED BY <2>4, <3>0, <4>2, <4>3
    <3> QED BY <2>4, <3>0, <3>1, <3>2
  <2> QED BY <2>2, <2>5 DEF TwiceBurstBound
<1>2. CASE UNCHANGED <<grants, shRate>>
  BY <1>2 DEF TwiceBurstBound, Within, Before
<1> QED
  BY <1>1, <1>2 DEF Next, Sweep, RequestInternal, SweepBegins, SweepScans, SweepMovesOn,
                    SweepDeletes, Tick

-----------------------------------------------------------------------------
(* The theorems *)

LEMMA InitInv == Init => Inv
PROOF
<1> SUFFICES ASSUME Init PROVE Inv OBVIOUS
<1> USE BucketAssumption, ShardsAssumption
<1>1. general = [tokens |-> GlCapacity, lastTime |-> 0] /\ now = 0 BY DEF Init, NewLimiter
<1>2. 0 \in Times BY DEF Times
<1>3. TypeOK
  <2>1. general \in Limiter /\ general.tokens <= GlCapacity BY <1>1 DEF Limiter
  <2>2. data \in [Ips -> Limiter \cup {None}] /\ \A ip \in Ips : data[ip] = None BY DEF Init
  <2>3. grants \in [Ips -> [Times -> Nat]] BY DEF Init
  <2>4. shard \in 0 .. ShardsCount /\ tick \in Nat /\ nextTick \in Nat BY DEF Init
  <2> QED BY <1>1, <1>2, <2>1, <2>2, <2>3, <2>4 DEF Init, TypeOK
<1>4. InTime BY <1>1 DEF Init, InTime
<1>5. GeneralAccount
  <2>1. Unit * 0 = 0 /\ GlRate * 0 = 0 OBVIOUS
  <2> QED BY <1>1, <2>1 DEF Init, GeneralAccount
<1>6. Counting BY <1>2 DEF Init, Counting
<1>7. ASSUME NEW ip \in Ips, NEW a \in Times, NEW b \in Times PROVE Within(ip, a, b) = 0
  <2>1. grants[ip][b] = 0 BY DEF Init
  <2>2. Before(ip, a) = 0
    <3>1. CASE a = 0 BY <3>1 DEF Before
    <3>2. CASE a # 0
      <4>1. a - 1 \in Times BY <3>2 DEF Times
      <4> QED BY <3>2, <4>1 DEF Before, Init
    <3> QED BY <3>1, <3>2
  <2> QED BY <2>1, <2>2 DEF Within
<1>8. \A r \in Nat, x \in Nat : r * x \in Int /\ r * x >= 0 OBVIOUS
<1>9. Accounts
  <2> SUFFICES ASSUME NEW ip \in Ips PROVE NotMade(ip) /\ data[ip] = None
    BY DEF Accounts, Account
  <2>1. data[ip] = None /\ ip \notin delIp BY DEF Init
  <2>2. grants[ip][now] - Before(ip, 0) = 0 BY <1>1, <1>2 DEF Init, Before
  <2>3. Unit * 0 = 0 /\ shRate \in Nat /\ shRate * (0 - 0) = 0 BY DEF Init
  <2>4. 0 .. now = {0} BY <1>1
  <2> QED BY <1>1, <2>1, <2>2, <2>3, <2>4 DEF NotMade
<1>10. TwiceBurstBound
  <2> SUFFICES ASSUME NEW ip \in Ips, NEW a \in Times, NEW b \in Times, a <= b
               PROVE  Unit * Within(ip, a, b) <= 2 * ShCapacity + shRate * (b - a)
    BY DEF TwiceBurstBound
  <2>1. b - a \in Nat /\ shRate \in Nat BY DEF Times, Init
  <2>2. shRate * (b - a) \in Int /\ shRate * (b - a) >= 0 BY <1>8, <2>1
  <2>3. Unit * Within(ip, a, b) = 0 BY <1>7
  <2> QED BY <2>2, <2>3
<1> QED BY <1>3, <1>4, <1>5, <1>6, <1>9, <1>10 DEF Inv

LEMMA NextInv == Inv /\ [Next]_vars => Inv'
PROOF
<1> SUFFICES ASSUME Inv, [Next]_vars PROVE Inv' OBVIOUS
<1> USE DEF Inv
<1>1. CASE Next
  <2>1. TypeOK' BY <1>1, NextType
  <2>2. InTime' BY <1>1, NextInTime
  <2>3. GeneralAccount' BY <1>1, NextGeneral
  <2>4. Counting' BY <1>1, NextCounting
  <2>5. Accounts' BY <1>1, NextAccounts
  <2>6. WindowsUntilNow'
    <3>1. (TypeOK /\ InTime /\ Counting /\ Accounts)' => WindowsUntilNow' BY TwoBuckets, PTL
    <3> QED BY <2>1, <2>2, <2>4, <2>5, <3>1
  <2>7. TwiceBurstBound' BY <1>1, <2>1, <2>4, <2>6, NextTwice
  <2> QED BY <2>1, <2>2, <2>3, <2>4, <2>5, <2>7
<1>2. CASE UNCHANGED vars
  BY <1>2 DEF vars, sweepVars, TypeOK, InTime, GeneralAccount, Counting, Accounts, Account,
              NotMade, MadeAt, TwiceBurstBound, Within, Before
<1> QED BY <1>1, <1>2

\* The inductive invariant holds in every state of src/rate and its middleware.
THEOREM Invariance == Spec => []Inv
PROOF BY InitInv, NextInv, PTL DEF Spec

\* limiter.go: a bucket never holds less than nothing, nor more than its capacity.
THEOREM TypeCorrect == Spec => []TypeOK
PROOF
<1>1. Inv => TypeOK BY DEF Inv
<1> QED BY <1>1, Invariance, PTL

\* What the limiter of the configured hosts has paid for bounds what it has let pass.
LEMMA AccountBounds == TypeOK /\ InTime /\ GeneralAccount => GeneralBound
PROOF
<1> SUFFICES ASSUME TypeOK, InTime, GeneralAccount PROVE GeneralBound OBVIOUS
<1>1. /\ general.tokens \in Nat /\ general.lastTime \in Nat /\ general.lastTime <= now
      /\ now \in Nat /\ generalGrants \in Nat
      /\ GlCapacity \in Nat /\ GlRate \in Nat /\ Unit \in Nat
  BY BucketAssumption DEF TypeOK, InTime, Limiter, Times
<1>2. /\ GlRate * general.lastTime \in Int /\ GlRate * now \in Int
      /\ GlRate * general.lastTime <= GlRate * now
  BY <1>1, MoreTime
<1>3. Unit * generalGrants \in Int BY <1>1
<1>4. Unit * generalGrants + general.tokens <= GlCapacity + GlRate * general.lastTime
  BY DEF GeneralAccount
<1> QED BY <1>1, <1>2, <1>3, <1>4 DEF GeneralBound

\* limiter.go: the limiter of the configured hosts never lets more pass, from the start to
\* any time, than its capacity and what its rate has added, however requests fall.
THEOREM GeneralIsBounded == Spec => []GeneralBound
PROOF
<1>1. Inv => GeneralBound BY AccountBounds DEF Inv
<1> QED BY <1>1, Invariance, PTL

\* shard_limiter.go: whatever a client does around the sweep that deletes its limiter, in no
\* window shorter than the age at which limiters are deleted does it get more than two
\* full buckets and what the rate adds.
THEOREM TwiceBurstIsBounded == Spec => []TwiceBurstBound
PROOF
<1>1. Inv => TwiceBurstBound BY DEF Inv
<1> QED BY <1>1, Invariance, PTL
=============================================================================
