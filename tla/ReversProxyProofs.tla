-------------------------- MODULE ReversProxyProofs --------------------------
(***************************************************************************)
(* Proofs about ReversProxy: its types, that no client is taken back to an *)
(* older version, that what is stored its origin allows to be kept, and    *)
(* that the store in memory is a cache in the sense of CheckpointedCache.  *)
(* The inductive invariant is Inv.                                         *)
(***************************************************************************)
EXTENDS ReversProxy, TLAPS

F == INSTANCE FlightsProofs

-----------------------------------------------------------------------------
(* The inductive invariant *)

\* Nobody has been answered what the origin did not have yet, and what a flight brings back
\* is no older than what was answered before.
Versions ==
  /\ \A k \in Keys : served[k] <= origin[k]
  /\ \A c \in Clients : floor[c] <= served[key[c]]
  /\ \A c \in Clients : flight[c] # None /\ flight[c].resp \in Response =>
       /\ flight[c].resp.version <= origin[key[c]]
       /\ flight[c].at \in {"set", "return"} => served[key[c]] <= flight[c].resp.version

\* What the store answers is no older than what was answered, or is going to be; a flight
\* that fetches or stores has found nothing that still counts.
StoreSound ==
  /\ \A k \in Keys : dataStack[k] # None => dataStack[k].Data.version <= origin[k]
  /\ \A k \in Keys : Get(k) # None => served[k] <= Get(k).version
  /\ \A c \in Clients : flight[c] # None =>
       /\ flight[c].at # "refetch"
       /\ flight[c].at \in {"fetch", "set"} => Get(key[c]) = None
       /\ flight[c].at = "return" /\ flight[c].resp # Failed /\ Get(key[c]) # None =>
            flight[c].resp.version <= Get(key[c]).version

\* The sweep is in a shard while it has scanned.
SweepSound == scanned => shard < QtShards

Inv == TypeOK /\ F!Sound /\ Versions /\ StoreSound /\ SweepSound /\ NoGoingBack

-----------------------------------------------------------------------------
\* The flights of this module are those that FlightsProofs speaks of.
LEMMA SameFlights ==
  /\ FlightAssumption = F!FlightAssumption /\ FlightTypeOK = F!FlightTypeOK
  /\ Around = F!Around
  /\ \A c \in Clients : /\ FliesOutside(c) = F!FliesOutside(c)
                        /\ FlightSets(c) = F!FlightSets(c)
                        /\ FlightReturns(c) = F!FlightReturns(c)
  /\ \A c \in Clients : \A data : FlightGets(c, data) = F!FlightGets(c, data)
  /\ \A c \in Clients : \A at, resp : Proceeds(c, at, resp) = F!Proceeds(c, at, resp)
  /\ \A c \in Clients : \A k \in Keys : Ask(c, k) = F!Ask(c, k)
  /\ \A resp, timeDel : Kept(resp, timeDel) = F!Kept(resp, timeDel)
  /\ \A header : MaxAges(header) = F!MaxAges(header)
  /\ Response = F!Response /\ Flight = F!Flight
PROOF
BY DEF FlightAssumption, F!FlightAssumption, FlightTypeOK, F!FlightTypeOK, Around, F!Around,
  FliesOutside, F!FliesOutside, FlightSets, F!FlightSets, FlightReturns, F!FlightReturns,
  FlightGets, F!FlightGets, Proceeds, F!Proceeds, Ask, F!Ask, Kept, F!Kept, MaxAges, F!MaxAges,
  Response, F!Response, Flight, F!Flight, Directive, F!Directive, Request, F!Request,
  OriginChanges, F!OriginChanges, FlightFetches, F!FlightFetches,
  FlightFetchFails, F!FlightFetchFails, InFlight, F!InFlight, Deliver, F!Deliver,
  NewFlight, F!NewFlight, clientVars, F!clientVars, ParceCacheControl, F!ParceCacheControl,
  LifeTime, F!LifeTime, Duration, F!Duration, Wrapped, F!Wrapped

LEMMA FlightsKept ==
  ASSUME TypeOK, F!Sound PROVE F!FlightInv
PROOF BY SameFlights, ProxyAssumption DEF TypeOK, F!FlightInv

\* What the proofs below know of the values.
LEMMA Values ==
  ASSUME TypeOK, F!Sound
  PROVE  /\ now \in Nat /\ \A resp \in Response : resp # None /\ resp # Failed /\ resp.version \in Int
         /\ \A k \in Keys : served[k] \in Int /\ origin[k] \in Int
         /\ \A k \in Keys : dataStack[k] # None =>
              dataStack[k].Data \in Response /\ dataStack[k].Expiration \in Int
         /\ \A k \in Keys : Get(k) \in Response \cup {None}
         /\ \A k \in Keys : Get(k) # None => dataStack[k] # None /\ Get(k) = dataStack[k].Data
         /\ \A c \in Clients : key[c] \in Keys /\ floor[c] \in Int
         /\ \A c \in Clients : flight[c] # None => flight[c].resp \in Response \cup {None, Failed}
         /\ None # Failed
PROOF
<1>1. /\ now \in Nat /\ dataStack \in [Keys -> Item \cup {None}] /\ FlightTypeOK BY DEF TypeOK
<1>2. /\ \A resp \in Response : resp # None /\ resp # Failed /\ resp.version \in Int
      /\ None # Failed
  BY ProxyAssumption DEF FlightAssumption, Response
<1>3. \A k \in Keys : dataStack[k] # None =>
        dataStack[k].Data \in Response /\ dataStack[k].Expiration \in Int
  BY <1>1 DEF Item
<1>4. \A k \in Keys : Get(k) # None => dataStack[k] # None /\ Get(k) = dataStack[k].Data
  BY DEF Get
<1>5. /\ \A k \in Keys : served[k] \in Int /\ origin[k] \in Int
      /\ \A c \in Clients : key[c] \in Keys /\ floor[c] \in Int
      /\ \A c \in Clients : flight[c] # None => flight[c].resp \in Response \cup {None, Failed}
  BY <1>1 DEF FlightTypeOK, Flight
<1> QED BY <1>1, <1>2, <1>3, <1>4, <1>5

\* What a Set stores is an item.
LEMMA Stored ==
  ASSUME TypeOK, F!Sound, NEW c \in Clients, SetsInCache(c)
  PROVE  /\ flight[c] # None /\ flight[c].at = "set" /\ flight[c].resp \in Response
         /\ \/ dataStack' = dataStack
            \/ \E exp \in Int :
                 /\ exp = Kept(flight[c].resp, TimeDel)
                 /\ dataStack' = [dataStack EXCEPT ![key[c]] =
                                    [Data |-> flight[c].resp, Expiration |-> now + exp]]
                 /\ [Data |-> flight[c].resp, Expiration |-> now + exp] \in Item
PROOF
<1> DEFINE resp == flight[c].resp
<1>1. flight[c] # None /\ flight[c].at = "set" BY DEF SetsInCache, FlightSets, InFlight
<1>2. resp \in Response
  <2>1. F!FlightSound(c) BY <1>1 DEF F!Sound
  <2> QED BY <1>1, <2>1, SameFlights DEF F!FlightSound
<1>3. TimeDel \in Int /\ now \in Int BY RamAssumption DEF TypeOK
<1>4. /\ Kept(resp, TimeDel) \in Int \cup {None}
      /\ resp.header = <<>> => Kept(resp, TimeDel) = TimeDel
  <2> HIDE DEF resp
  <2> QED BY <1>2, <1>3, SameFlights, F!KeptBound, ProxyAssumption
<1>5. \/ dataStack' = dataStack
      \/ /\ Kept(resp, TimeDel) \in Int
         /\ dataStack' = [dataStack EXCEPT ![key[c]] =
                            [Data |-> resp, Expiration |-> now + Kept(resp, TimeDel)]]
  <2> HIDE DEF resp
  <2>1. IF resp.header = <<>> THEN Set(key[c], resp)
        ELSE IF Kept(resp, TimeDel) # None THEN SetWithExp(key[c], resp, Kept(resp, TimeDel))
        ELSE UNCHANGED dataStack
    BY DEF SetsInCache, resp
  <2>2. CASE resp.header = <<>> BY <1>3, <1>4, <2>1, <2>2 DEF Set, SetWithExp
  <2>3. CASE resp.header # <<>> BY <1>4, <2>1, <2>3 DEF SetWithExp
  <2> QED BY <2>2, <2>3
<1> HIDE DEF resp
<1>6. \A exp \in Int : [Data |-> resp, Expiration |-> now + exp] \in Item
  BY <1>2, <1>3 DEF Item
<1>7. \/ dataStack' = dataStack
      \/ \E exp \in Int :
           /\ exp = Kept(resp, TimeDel)
           /\ dataStack' = [dataStack EXCEPT ![key[c]] =
                              [Data |-> resp, Expiration |-> now + exp]]
           /\ [Data |-> resp, Expiration |-> now + exp] \in Item
  BY <1>5, <1>6
<1> QED BY <1>1, <1>2, <1>7 DEF resp

\* The sweep deletes nothing but what has expired, so that what a Get answers is the same.
LEMMA SweepEffect ==
  ASSUME TypeOK, Sweep
  PROVE  /\ \/ dataStack' = dataStack
            \/ \E k \in Keys : Dead(k, now) /\ dataStack' = [dataStack EXCEPT ![k] = None]
         /\ now' = now
         /\ \A k \in Keys : Get(k)' = Get(k)
PROOF
<1>1. /\ \/ dataStack' = dataStack
         \/ \E k \in Keys : Dead(k, now) /\ dataStack' = [dataStack EXCEPT ![k] = None]
      /\ now' = now
  <2>1. CASE SweepBegins BY <2>1 DEF SweepBegins
  <2>2. CASE SweepScans BY <2>2 DEF SweepScans
  <2>3. CASE SweepMovesOn BY <2>3 DEF SweepMovesOn
  <2>4. ASSUME NEW k \in Keys, SweepDeletes(k)
        PROVE  /\ dataStack' = dataStack \/ (Dead(k, now) /\ dataStack' = [dataStack EXCEPT ![k] = None])
               /\ now' = now
    BY <2>4 DEF SweepDeletes, DelWithCheckExp
  <2> QED BY <2>1, <2>2, <2>3, <2>4 DEF Sweep
<1>2. CASE dataStack' = dataStack BY <1>1, <1>2 DEF Get, Dead
<1>3. ASSUME NEW k \in Keys, Dead(k, now), dataStack' = [dataStack EXCEPT ![k] = None]
      PROVE  \A j \in Keys : Get(j)' = Get(j)
  <2>1. dataStack'[k] = None /\ \A j \in Keys \ {k} : dataStack'[j] = dataStack[j]
    BY <1>3 DEF TypeOK
  <2>2. Get(k)' = Get(k) BY <1>3, <2>1 DEF Get
  <2>3. \A j \in Keys \ {k} : Get(j)' = Get(j) BY <1>1, <2>1 DEF Get, Dead
  <2> QED BY <2>2, <2>3
<1> QED BY <1>1, <1>2, <1>3

-----------------------------------------------------------------------------
(* The conjuncts of the invariant *)

\* Every step keeps the types, and the flights together with their clients.
LEMMA NextTypes ==
  ASSUME TypeOK, F!Sound, SweepSound, Next
  PROVE  TypeOK' /\ F!Sound' /\ SweepSound'
PROOF
<1> USE DEF TypeOK, SweepSound
<1>1. F!FlightInv BY FlightsKept
<1>2. ASSUME F!FlightInv' PROVE F!Sound' /\ FlightTypeOK'
  <2>1. FlightTypeOK' = F!FlightTypeOK'
    BY DEF FlightTypeOK, F!FlightTypeOK, Response, F!Response, Flight, F!Flight
  <2> QED BY <1>2, <2>1 DEF F!FlightInv
<1>3. ASSUME UNCHANGED flightVars PROVE F!Sound' /\ FlightTypeOK'
  BY <1>3 DEF flightVars, F!Sound, F!FlightSound, FlightTypeOK
<1>4. ASSUME NEW c \in Clients, GetsFromCache(c) PROVE TypeOK' /\ F!Sound' /\ SweepSound'
  <2>1. Get(key[c]) \in Response \cup {None, Failed} BY Values
  <2>2. F!FlightGets(c, Get(key[c])) BY <1>4, SameFlights DEF GetsFromCache
  <2>3. F!FlightInv' BY <1>1, <2>1, <2>2, SameFlights, F!StoreInv
  <2> QED BY <1>2, <1>4, <2>3 DEF GetsFromCache, cacheVars, sweepVars
<1>5. ASSUME NEW c \in Clients, SetsInCache(c) PROVE TypeOK' /\ F!Sound' /\ SweepSound'
  <2>1. F!FlightSets(c) BY <1>5, SameFlights DEF SetsInCache
  <2>2. F!FlightInv' BY <1>1, <2>1, F!StoreInv
  <2>3. dataStack' \in [Keys -> Item \cup {None}] BY <1>5, Stored
  <2>4. UNCHANGED <<shard, scanned, forDel, left, sweepNow, nextTick, now>>
    BY <1>5 DEF SetsInCache, sweepVars
  <2> QED BY <1>2, <2>2, <2>3, <2>4
<1>6. ASSUME Around \/ \E c \in Clients : FliesOutside(c), UNCHANGED cacheVars
      PROVE TypeOK' /\ F!Sound' /\ SweepSound'
  <2>1. F!FlightInv' BY <1>1, <1>6, SameFlights, F!OutsideInv
  <2> QED BY <1>2, <1>6, <2>1 DEF cacheVars, sweepVars
<1>7. CASE SweepRuns
  <2>1. F!Sound' /\ FlightTypeOK' BY <1>3, <1>7 DEF SweepRuns
  <2>2. dataStack' \in [Keys -> Item \cup {None}] /\ now' = now
    BY <1>7, SweepEffect DEF SweepRuns
  <2>3. CASE SweepBegins
    <3>1. \A t \in Nat, d \in Nat \ {0} : (t \div d + 1) * d \in Nat
      <4> TAKE t \in Nat, d \in Nat \ {0}
      <4>1. t \div d \in Nat OBVIOUS
      <4> QED BY <4>1
    <3>2. (now \div TimeDel + 1) * TimeDel \in Nat
      <4>1. now \in Nat /\ TimeDel \in Nat \ {0} BY RamAssumption
      <4> QED BY ONLY <3>1, <4>1
    <3>3. shard' \in 0 .. QtShards /\ sweepNow' \in Nat /\ forDel' \subseteq Keys
      BY <2>3, RamAssumption DEF SweepBegins
    <3>4. scanned = FALSE
      <4>1. ~(shard < QtShards) BY <2>3, RamAssumption DEF SweepBegins
      <4> QED BY <4>1, Zenon
    <3> QED BY <2>1, <2>2, <2>3, <3>2, <3>3, <3>4 DEF SweepBegins
  <2>4. CASE SweepScans
    <3>1. forDel' \subseteq Keys /\ left' \subseteq Keys /\ scanned' \in BOOLEAN
          /\ UNCHANGED <<shard, sweepNow, nextTick>> /\ shard < QtShards
      BY <2>4 DEF SweepScans
    <3> QED BY <2>1, <2>2, <3>1
  <2>5. CASE SweepMovesOn
    <3>1. scanned BY <2>5, Zenon DEF SweepMovesOn
    <3>2. shard < QtShards BY <3>1, Zenon
    <3>3. shard' \in 0 .. QtShards /\ scanned' = FALSE /\ UNCHANGED <<forDel, left, sweepNow, nextTick>>
      BY <2>5, <3>2, RamAssumption DEF SweepMovesOn
    <3> QED BY <2>1, <2>2, <3>3
  <2>6. ASSUME NEW k \in Keys, SweepDeletes(k) PROVE TypeOK' /\ F!Sound' /\ SweepSound'
    <3>1. left' \subseteq Keys /\ UNCHANGED <<shard, scanned, forDel, sweepNow, nextTick>>
      BY <2>6 DEF SweepDeletes
    <3> QED BY <2>1, <2>2, <3>1
  <2> QED BY <1>7, <2>3, <2>4, <2>5, <2>6 DEF SweepRuns, Sweep
<1>8. CASE Tick BY <1>3, <1>8 DEF Tick, sweepVars
<1> QED BY <1>4, <1>5, <1>6, <1>7, <1>8 DEF Next, Flies

\* A flight that goes on, with something no older than what was answered, for a key that no
\* other flight is for.
LEMMA ProceedsFresh ==
  ASSUME TypeOK, F!Sound, Versions, StoreSound, NoGoingBack,
         NEW c \in Clients, NEW k \in Keys, k = key[c], flight[c] # None,
         NEW at \in {"get", "fetch", "set", "return"},
         NEW resp \in Response \cup {None, Failed}, Proceeds(c, at, resp),
         resp \in Response => /\ resp.version <= origin[k]
                              /\ at \in {"set", "return"} => served[k] <= resp.version,
         \A j \in Keys : dataStack'[j] # None => dataStack'[j].Data.version <= origin[j],
         \A j \in Keys \ {k} : Get(j)' = Get(j),
         Get(k)' # None => served[k] <= (Get(k)').version,
         at \in {"fetch", "set"} => Get(k)' = None,
         at = "return" /\ resp # Failed /\ Get(k)' # None => resp.version <= (Get(k)').version
  PROVE  Versions' /\ StoreSound' /\ NoGoingBack'
PROOF
<1>1. /\ flight'[c] # None /\ flight'[c].at = at /\ flight'[c].resp = resp
      /\ \A d \in Clients \ {c} : flight'[d] = flight[d]
      /\ UNCHANGED <<client, key, result, floor, served, sgr, origin>>
  <2>1. at \in {"get", "fetch", "refetch", "set", "return"} OBVIOUS
  <2>2. resp \in F!Response \cup {None, Failed} /\ F!Proceeds(c, at, resp) BY SameFlights
  <2> QED BY <2>1, <2>2, FlightsKept, F!ProceedsEffect
<1>2. \A d \in Clients \ {c} : flight[d] # None => key[d] # k
  BY DEF F!Sound, F!FlightSound
<1>3. \A d \in Clients : key[d] \in Keys BY Values
<1>4. Versions'
  <2>1. ASSUME NEW d \in Clients, flight'[d] # None /\ flight'[d].resp \in Response
        PROVE  /\ flight'[d].resp.version <= origin'[key'[d]]
               /\ flight'[d].at \in {"set", "return"} => served'[key'[d]] <= flight'[d].resp.version
    <3>1. CASE d = c
      <4>1. flight'[d].resp = resp /\ flight'[d].at = at /\ key'[d] = k /\ resp \in Response
        BY <1>1, <2>1, <3>1
      <4>2. resp.version <= origin[k] /\ (at \in {"set", "return"} => served[k] <= resp.version)
        BY <4>1
      <4>3. origin' = origin /\ served' = served BY <1>1
      <4>4. flight'[d].resp.version <= origin'[key'[d]] BY <4>1, <4>2, <4>3, Zenon
      <4>5. at \in {"set", "return"} => served'[key'[d]] <= flight'[d].resp.version
        BY <4>1, <4>2, <4>3, Zenon
      <4> QED BY <4>1, <4>4, <4>5, Zenon
    <3>2. CASE d # c BY <1>1, <2>1, <3>2 DEF Versions
    <3> QED BY <3>1, <3>2
  <2>2. \A d \in Clients : flight'[d] # None /\ flight'[d].resp \in Response' =>
          /\ flight'[d].resp.version <= origin'[key'[d]]
          /\ flight'[d].at \in {"set", "return"} => served'[key'[d]] <= flight'[d].resp.version
    BY <2>1 DEF Response
  <2>3. /\ \A j \in Keys : served'[j] <= origin'[j]
        /\ \A d \in Clients : floor'[d] <= served'[key'[d]]
    BY <1>1 DEF Versions
  <2> QED BY <2>2, <2>3 DEF Versions
<1>5. StoreSound'
  <2>1. ASSUME NEW j \in Keys, Get(j)' # None PROVE served'[j] <= (Get(j)').version
    <3>1. CASE j = k BY <1>1, <2>1, <3>1
    <3>2. CASE j # k BY <1>1, <2>1, <3>2 DEF StoreSound
    <3> QED BY <3>1, <3>2
  <2>2. ASSUME NEW d \in Clients, flight'[d] # None, NEW j \in Keys, j = key'[d]
        PROVE  /\ flight'[d].at # "refetch"
               /\ flight'[d].at \in {"fetch", "set"} => Get(j)' = None
               /\ flight'[d].at = "return" /\ flight'[d].resp # Failed /\ Get(j)' # None =>
                    flight'[d].resp.version <= (Get(j)').version
    <3>1. CASE d = c BY <1>1, <2>2, <3>1
    <3>2. CASE d # c
      <4>1. j # k /\ j = key[d] /\ flight[d] # None /\ flight'[d] = flight[d] BY <1>1, <1>2, <2>2, <3>2
      <4>2. Get(j)' = Get(j) BY <4>1
      <4> QED BY <4>1, <4>2 DEF StoreSound
    <3> QED BY <3>1, <3>2
  <2>3. \A d \in Clients : key'[d] \in Keys BY <1>1, <1>3
  <2>4. ASSUME NEW d \in Clients, flight'[d] # None
        PROVE  /\ flight'[d].at # "refetch"
               /\ flight'[d].at \in {"fetch", "set"} => Get(key[d])' = None
               /\ flight'[d].at = "return" /\ flight'[d].resp # Failed /\ Get(key[d])' # None =>
                    flight'[d].resp.version <= (Get(key[d])').version
    <3>1. PICK j \in Keys : j = key'[d] BY <2>3
    <3>2. Get(key[d])' = Get(j)' BY <3>1 DEF Get, Dead
    <3> QED BY <2>2, <2>4, <3>1, <3>2
  <2>5. \A j \in Keys : dataStack'[j] # None => dataStack'[j].Data.version <= origin'[j]
    BY <1>1
  <2> QED BY <2>1, <2>4, <2>5 DEF StoreSound
<1>6. NoGoingBack' BY <1>1 DEF NoGoingBack, NotTakenBack
<1> QED BY <1>4, <1>5, <1>6

\* What a flight gets from the store, or not at all.
LEMMA GetFresh ==
  ASSUME TypeOK, F!Sound, Versions, StoreSound, NoGoingBack,
         NEW c \in Clients, GetsFromCache(c)
  PROVE  Versions' /\ StoreSound' /\ NoGoingBack'
PROOF
<1>1. PICK k \in Keys : k = key[c] BY Values
<1>2. /\ flight[c] # None
      /\ IF Get(k) = None THEN Proceeds(c, "fetch", None) ELSE Proceeds(c, "return", Get(k))
      /\ dataStack' = dataStack /\ now' = now
  BY <1>1 DEF GetsFromCache, FlightGets, InFlight, cacheVars
<1>3. \A j \in Keys : Get(j)' = Get(j) BY <1>2 DEF Get, Dead
<1>4. \A j \in Keys : dataStack'[j] # None => dataStack'[j].Data.version <= origin[j]
  BY <1>2 DEF StoreSound
<1>5. /\ Get(k) \in Response \cup {None}
      /\ Get(k) # None => served[k] <= Get(k).version /\ Get(k).version <= origin[k]
                        /\ Get(k).version \in Int
      /\ None \notin Response /\ None # Failed
  BY Values DEF StoreSound
<1>6. CASE Get(k) = None
  <2>1. Proceeds(c, "fetch", None) BY <1>2, <1>6
  <2> QED BY <1>1, <1>2, <1>3, <1>4, <1>5, <1>6, <2>1, ProceedsFresh
<1>7. CASE Get(k) # None
  <2>1. Proceeds(c, "return", Get(k)) BY <1>2, <1>7
  <2>2. PICK resp \in Response : resp = Get(k) BY <1>5, <1>7
  <2> QED BY <1>1, <1>2, <1>3, <1>4, <1>5, <1>7, <2>1, <2>2, ProceedsFresh
<1> QED BY <1>6, <1>7

\* What a flight stores is the newest there is, and the store has nothing that still counts.
LEMMA SetFresh ==
  ASSUME TypeOK, F!Sound, Versions, StoreSound, NoGoingBack,
         NEW c \in Clients, SetsInCache(c)
  PROVE  Versions' /\ StoreSound' /\ NoGoingBack'
PROOF
<1>1. PICK k \in Keys : k = key[c] BY Values
<1>2. flight[c] # None /\ flight[c].at = "set" /\ flight[c].resp \in Response BY Stored
<1>3. PICK resp \in Response : resp = flight[c].resp BY <1>2
<1>4. Proceeds(c, "return", resp) /\ now' = now BY <1>3 DEF SetsInCache, FlightSets
<1>5. /\ resp.version <= origin[k] /\ served[k] <= resp.version /\ Get(k) = None
      /\ resp.version \in Int
  BY <1>1, <1>2, <1>3, Values DEF Versions, StoreSound
<1>6. CASE dataStack' = dataStack
  <2>1. \A j \in Keys : Get(j)' = Get(j) BY <1>4, <1>6 DEF Get, Dead
  <2>2. \A j \in Keys : dataStack'[j] # None => dataStack'[j].Data.version <= origin[j]
    BY <1>6 DEF StoreSound
  <2> QED BY <1>1, <1>2, <1>4, <1>5, <2>1, <2>2, ProceedsFresh
<1>7. ASSUME NEW item \in Item, item.Data = resp, dataStack' = [dataStack EXCEPT ![k] = item]
      PROVE  Versions' /\ StoreSound' /\ NoGoingBack'
  <2>1. dataStack'[k] = item /\ \A j \in Keys \ {k} : dataStack'[j] = dataStack[j]
    BY <1>7 DEF TypeOK
  <2>2. \A j \in Keys \ {k} : Get(j)' = Get(j) BY <1>4, <2>1 DEF Get, Dead
  <2>3. Get(k)' \in {None, resp} BY <1>7, <2>1 DEF Get
  <2>4. \A j \in Keys : dataStack'[j] # None => dataStack'[j].Data.version <= origin[j]
    BY <1>5, <1>7, <2>1 DEF StoreSound
  <2>5. /\ Get(k)' # None => served[k] <= (Get(k)').version
        /\ Get(k)' # None => resp.version <= (Get(k)').version
    BY <1>5, <2>3
  <2> QED BY <1>1, <1>2, <1>4, <1>5, <2>2, <2>4, <2>5, ProceedsFresh
<1>8. dataStack' = dataStack
      \/ \E item \in Item : item.Data = resp /\ dataStack' = [dataStack EXCEPT ![k] = item]
  <2>1. CASE dataStack' = dataStack BY <2>1
  <2>2. CASE \E exp \in Int :
               /\ dataStack' = [dataStack EXCEPT ![key[c]] =
                                  [Data |-> flight[c].resp, Expiration |-> now + exp]]
               /\ [Data |-> flight[c].resp, Expiration |-> now + exp] \in Item
    BY <1>1, <1>3, <2>2
  <2> QED BY <2>1, <2>2, Stored
<1> QED BY <1>6, <1>7, <1>8

\* Requests, the origin, and flights outside the store: what is fetched is the newest there
\* is, and what a flight has returned the store does not fall behind of.
LEMMA OutsideFresh ==
  ASSUME TypeOK, F!Sound, Versions, StoreSound, NoGoingBack, UNCHANGED cacheVars,
         Around \/ \E c \in Clients : FliesOutside(c)
  PROVE  Versions' /\ StoreSound' /\ NoGoingBack'
PROOF
<1>1. dataStack' = dataStack /\ now' = now BY DEF cacheVars
<1>2. \A k \in Keys : Get(k)' = Get(k) BY <1>1 DEF Get, Dead
<1>3. /\ \A j \in Keys : dataStack'[j] # None => dataStack'[j].Data.version <= origin[j]
      /\ \A j \in Keys : Get(j)' # None => served[j] <= (Get(j)').version
  BY <1>1, <1>2 DEF StoreSound
<1>4. ASSUME NEW c \in Clients, NEW k \in Keys, Request(c, k)
      PROVE  Versions' /\ StoreSound' /\ NoGoingBack'
  <2>1. /\ flight[c] = None /\ client'[c] = "waits" /\ key'[c] = k /\ floor'[c] = served[k]
        /\ \A d \in Clients \ {c} : /\ client'[d] = client[d] /\ key'[d] = key[d]
                                    /\ floor'[d] = floor[d] /\ result'[d] = result[d]
        /\ served' = served /\ origin' = origin
    <3>1. F!Ask(c, k) BY <1>4, SameFlights DEF Request
    <3> QED BY <3>1, FlightsKept, F!AskEffect
  <2>2. \A d \in Clients : flight'[d] # None =>
          \/ flight'[d].at = "get" /\ flight'[d].resp = None
          \/ flight[d] # None /\ d # c /\ flight'[d].at = flight[d].at /\ flight'[d].resp = flight[d].resp
    <3>1. flight \in [Clients -> Flight \cup {None}] BY DEF TypeOK, FlightTypeOK
    <3>2. CASE sgr[k] = None
      <4>1. flight' = [flight EXCEPT ![c] = NewFlight(c)] BY <1>4, <3>2 DEF Request
      <4> QED BY <3>1, <4>1 DEF NewFlight
    <3>3. CASE sgr[k] # None
      <4>1. flight' = [flight EXCEPT ![sgr[k]].members = @ \cup {c}] BY <1>4, <3>3 DEF Request
      <4>2. flight[sgr[k]] # None /\ sgr[k] \in Clients
        BY <3>3 DEF F!Sound, TypeOK, FlightTypeOK
      <4>3. flight'[sgr[k]] = [flight[sgr[k]] EXCEPT !.members = @ \cup {c}]
            /\ \A d \in Clients \ {sgr[k]} : flight'[d] = flight[d]
        BY <3>1, <4>1, <4>2
      <4>4. flight'[sgr[k]].at = flight[sgr[k]].at /\ flight'[sgr[k]].resp = flight[sgr[k]].resp
        BY <3>1, <4>2, <4>3 DEF Flight
      <4> QED BY <2>1, <4>2, <4>3, <4>4
    <3> QED BY <3>2, <3>3
  <2>3. Versions'
    <3>1. ASSUME NEW d \in Clients, flight'[d] # None, flight'[d].resp \in Response
          PROVE  /\ flight'[d].resp.version <= origin'[key'[d]]
                 /\ flight'[d].at \in {"set", "return"} => served'[key'[d]] <= flight'[d].resp.version
      <4>1. flight'[d].resp # None BY <3>1, Values
      <4>2. flight[d] # None /\ d # c /\ flight'[d].at = flight[d].at /\ flight'[d].resp = flight[d].resp
        BY <2>2, <3>1, <4>1
      <4> QED BY <2>1, <3>1, <4>2 DEF Versions
    <3>2. \A d \in Clients : floor'[d] <= served'[key'[d]]
      <4>1. \A d \in Clients \ {c} : floor'[d] <= served'[key'[d]] BY <2>1 DEF Versions
      <4>2. floor'[c] <= served'[key'[c]] BY <2>1, Values
      <4> QED BY <4>1, <4>2
    <3>3. Response' = Response BY DEF Response
    <3> QED BY <2>1, <3>1, <3>2, <3>3 DEF Versions
  <2>4. StoreSound'
    <3>1. ASSUME NEW d \in Clients, flight'[d] # None
          PROVE  /\ flight'[d].at # "refetch"
                 /\ flight'[d].at \in {"fetch", "set"} => Get(key[d])' = None
                 /\ flight'[d].at = "return" /\ flight'[d].resp # Failed /\ Get(key[d])' # None =>
                      flight'[d].resp.version <= (Get(key[d])').version
      <4>1. CASE flight'[d].at = "get" BY <4>1
      <4>2. CASE flight'[d].at # "get"
        <5>1. flight[d] # None /\ d # c /\ flight'[d].at = flight[d].at /\ flight'[d].resp = flight[d].resp
          BY <2>2, <3>1, <4>2
        <5>2. key'[d] = key[d] BY <2>1, <5>1
        <5>3. Get(key[d])' = Get(key[d]) BY <1>1, <5>2 DEF Get, Dead
        <5> QED BY <5>1, <5>3 DEF StoreSound
      <4> QED BY <4>1, <4>2
    <3> QED BY <1>3, <2>1, <3>1 DEF StoreSound
  <2>5. NoGoingBack' BY <2>1 DEF NoGoingBack, NotTakenBack
  <2> QED BY <2>3, <2>4, <2>5
<1>5. ASSUME NEW k \in Keys, OriginChanges(k) PROVE Versions' /\ StoreSound' /\ NoGoingBack'
  <2>1. /\ UNCHANGED <<client, key, result, floor, served, flight>>
        /\ \A j \in Keys : origin[j] <= origin'[j] /\ origin'[j] \in Int /\ origin[j] \in Int
    <3>1. origin' = [origin EXCEPT ![k] = @ + 1] /\ \A j \in Keys : origin[j] \in Int
      BY <1>5, Values DEF OriginChanges
    <3>2. origin \in [Keys -> 0 .. MaxVersion] BY DEF TypeOK, FlightTypeOK
    <3> QED BY <1>5, <3>1, <3>2 DEF OriginChanges, clientVars
  <2>2. Versions'
    <3>1. ASSUME NEW d \in Clients, flight[d] # None, flight[d].resp \in Response
          PROVE  flight[d].resp.version <= origin'[key[d]]
      <4>1. flight[d].resp.version <= origin[key[d]] /\ key[d] \in Keys
            /\ flight[d].resp.version \in Int
        BY <3>1, Values DEF Versions
      <4> QED BY <2>1, <4>1
    <3>2. \A j \in Keys : served[j] <= origin'[j]
      <4>1. \A j \in Keys : served[j] <= origin[j] /\ served[j] \in Int BY Values DEF Versions
      <4> QED BY <2>1, <4>1
    <3>3. Response' = Response BY DEF Response
    <3> QED BY <2>1, <3>1, <3>2, <3>3 DEF Versions
  <2>3. StoreSound'
    <3>1. ASSUME NEW j \in Keys, dataStack[j] # None PROVE dataStack[j].Data.version <= origin'[j]
      <4>1. dataStack[j].Data.version <= origin[j] /\ dataStack[j].Data.version \in Int
        BY <3>1, Values DEF StoreSound
      <4> QED BY <2>1, <4>1
    <3>2. \A d \in Clients : Get(key[d])' = Get(key[d]) BY <1>1, <2>1 DEF Get, Dead
    <3> QED BY <1>1, <1>3, <2>1, <3>1, <3>2 DEF StoreSound
  <2>4. NoGoingBack' BY <2>1 DEF NoGoingBack, NotTakenBack
  <2> QED BY <2>2, <2>3, <2>4
<1>6. ASSUME NEW c \in Clients, FlightFetchFails(c) PROVE Versions' /\ StoreSound' /\ NoGoingBack'
  <2>1. flight[c] # None /\ Proceeds(c, "return", Failed) BY <1>6 DEF FlightFetchFails, InFlight
  <2>2. PICK k \in Keys : k = key[c] BY Values
  <2>3. Failed \notin Response BY Values
  <2> QED BY <1>2, <1>3, <2>1, <2>2, <2>3, ProceedsFresh
<1>7. ASSUME NEW c \in Clients, NEW header \in CacheControls, FlightFetches(c, header)
      PROVE  Versions' /\ StoreSound' /\ NoGoingBack'
  <2>1. PICK k \in Keys : k = key[c] BY Values
  <2>2. PICK resp : resp = [version |-> origin[k], header |-> header] OBVIOUS
  <2>3. resp \in Response /\ resp.version = origin[k]
    BY <2>2 DEF TypeOK, FlightTypeOK, Response
  <2>4. flight[c] # None /\ flight[c].at = "fetch" /\ Proceeds(c, "set", resp)
    BY <1>7, <2>1, <2>2 DEF FlightFetches, InFlight, StoreSound
  <2>5. Get(k) = None BY <2>1, <2>4 DEF StoreSound
  <2>6. resp.version <= origin[k] /\ served[k] <= resp.version
    BY <2>3, Values DEF Versions
  <2> QED BY <1>2, <1>3, <2>1, <2>3, <2>4, <2>5, <2>6, ProceedsFresh
<1>8. ASSUME NEW c \in Clients, FlightReturns(c) PROVE Versions' /\ StoreSound' /\ NoGoingBack'
  <2> DEFINE resp == flight[c].resp
  <2>1. /\ flight[c] # None /\ flight[c].at = "return" /\ resp \in Response \cup {Failed}
        /\ flight'[c] = None /\ \A d \in Clients \ {c} : flight'[d] = flight[d]
        /\ \A d \in Clients : IF d \in flight[c].members
             THEN client[d] = "waits" /\ key[d] = key[c]
                  /\ client'[d] = "answered" /\ result'[d] = resp
             ELSE client'[d] = client[d] /\ result'[d] = result[d]
        /\ key' = key /\ floor' = floor /\ origin' = origin
        /\ \A k \in Keys \ {key[c]} : served'[k] = served[k]
        /\ resp = Failed => served'[key[c]] = served[key[c]]
        /\ resp # Failed => served'[key[c]] = IF resp.version > served[key[c]]
                                             THEN resp.version ELSE served[key[c]]
    <3>1. F!FlightReturns(c) BY <1>8, SameFlights
    <3> QED BY <3>1, FlightsKept, SameFlights, F!ReturnsEffect
  <2> HIDE DEF resp
  <2>2. \A d \in Clients \ {c} : flight[d] # None => key[d] # key[c]
    BY <2>1 DEF F!Sound, F!FlightSound
  <2>3. PICK k \in Keys : k = key[c] BY Values
  <2>4. /\ resp \in Response => /\ resp.version <= origin[k] /\ served[k] <= resp.version
                                /\ resp.version \in Int
        /\ resp # Failed /\ Get(k) # None => resp.version <= Get(k).version
        /\ served[k] \in Int /\ origin[k] \in Int
    BY <2>1, <2>3, Values DEF Versions, StoreSound, resp
  <2>5. served'[k] = IF resp = Failed THEN served[k] ELSE resp.version
    BY <2>1, <2>3, <2>4
  <2>6. Versions'
    <3>1. ASSUME NEW d \in Clients, flight'[d] # None, flight'[d].resp \in Response
          PROVE  /\ flight'[d].resp.version <= origin'[key'[d]]
                 /\ flight'[d].at \in {"set", "return"} => served'[key'[d]] <= flight'[d].resp.version
      <4>1. d # c /\ flight[d] # None /\ flight'[d] = flight[d] /\ key[d] # key[c] /\ key[d] \in Keys
        BY <2>1, <2>2, <3>1, Values
      <4>2. served'[key[d]] = served[key[d]] BY <2>1, <4>1
      <4> QED BY <2>1, <3>1, <4>1, <4>2 DEF Versions
    <3>2. \A j \in Keys : served'[j] <= origin'[j] /\ served[j] <= served'[j] /\ served'[j] \in Int
      <4>1. served'[k] <= origin'[k] /\ served[k] <= served'[k] /\ served'[k] \in Int
        BY <2>1, <2>4, <2>5 DEF Versions
      <4> QED BY <2>1, <2>3, <4>1, Values DEF Versions
    <3>3. ASSUME NEW d \in Clients PROVE floor'[d] <= served'[key'[d]]
      <4>1. floor[d] <= served[key[d]] /\ floor[d] \in Int /\ key[d] \in Keys /\ served[key[d]] \in Int
        BY Values DEF Versions
      <4>2. served[key[d]] <= served'[key[d]] /\ served'[key[d]] \in Int BY <3>2, <4>1
      <4> QED BY <2>1, <4>1, <4>2
    <3>4. Response' = Response BY DEF Response
    <3> QED BY <3>1, <3>2, <3>3, <3>4 DEF Versions
  <2>7. StoreSound'
    <3>1. ASSUME NEW j \in Keys, Get(j)' # None PROVE served'[j] <= (Get(j)').version
      <4>1. Get(j) # None /\ served[j] <= Get(j).version /\ Get(j)' = Get(j)
        BY <1>2, <3>1 DEF StoreSound
      <4>2. CASE j = k BY <2>4, <2>5, <4>1, <4>2
      <4>3. CASE j # k BY <2>1, <2>3, <4>1, <4>3
      <4> QED BY <4>2, <4>3
    <3>2. ASSUME NEW d \in Clients, flight'[d] # None
          PROVE  /\ flight'[d].at # "refetch"
                 /\ flight'[d].at \in {"fetch", "set"} => Get(key[d])' = None
                 /\ flight'[d].at = "return" /\ flight'[d].resp # Failed /\ Get(key[d])' # None =>
                      flight'[d].resp.version <= (Get(key[d])').version
      <4>1. flight[d] # None /\ flight'[d] = flight[d] BY <2>1, <3>2
      <4>2. Get(key[d])' = Get(key[d]) BY <1>1, <2>1 DEF Get, Dead
      <4> QED BY <4>1, <4>2 DEF StoreSound
    <3>3. \A j \in Keys : dataStack'[j] # None => dataStack'[j].Data.version <= origin'[j]
      BY <1>3, <2>1
    <3> QED BY <3>1, <3>2, <3>3 DEF StoreSound
  <2>8. NoGoingBack'
    <3>1. ASSUME NEW d \in Clients, client'[d] = "answered", result'[d] # Failed
          PROVE  result'[d].version >= floor'[d]
      <4>1. CASE d \in flight[c].members
        <5>1. result'[d] = resp /\ resp \in Response /\ key[d] = k BY <2>1, <2>3, <3>1, <4>1
        <5>2. floor[d] <= served[k] /\ floor[d] \in Int BY <5>1, Values DEF Versions
        <5> QED BY <2>1, <2>4, <5>1, <5>2
      <4>2. CASE d \notin flight[c].members
        <5>1. client[d] = "answered" /\ result[d] = result'[d] BY <2>1, <3>1, <4>2
        <5> QED BY <2>1, <3>1, <5>1 DEF NoGoingBack, NotTakenBack
      <4> QED BY <4>1, <4>2
    <3> QED BY <3>1 DEF NoGoingBack, NotTakenBack
  <2> QED BY <2>6, <2>7, <2>8
<1> QED BY <1>4, <1>5, <1>6, <1>7, <1>8 DEF Around, FliesOutside

\* What only lets items go: the sweep, and the clock.
LEMMA LetsGo ==
  ASSUME TypeOK, F!Sound, Versions, StoreSound, NoGoingBack, SweepRuns \/ Tick \/ UNCHANGED vars
  PROVE  Versions' /\ StoreSound' /\ NoGoingBack'
PROOF
<1>1. UNCHANGED <<client, key, result, sgr, flight, origin, served, floor>>
  BY DEF SweepRuns, Tick, vars, flightVars
<1>2. /\ \A j \in Keys : dataStack'[j] # None => dataStack'[j] = dataStack[j]
      /\ \A j \in Keys : Get(j)' # None => Get(j)' = Get(j)
  <2>1. CASE SweepRuns
    <3>1. /\ \/ dataStack' = dataStack
             \/ \E k \in Keys : Dead(k, now) /\ dataStack' = [dataStack EXCEPT ![k] = None]
          /\ \A j \in Keys : Get(j)' = Get(j)
      BY <2>1, SweepEffect DEF SweepRuns
    <3> QED BY <3>1 DEF TypeOK
  <2>2. CASE Tick
    <3>1. dataStack' = dataStack /\ now' = now + 1 BY <2>2 DEF Tick
    <3>2. \A j \in Keys : dataStack[j] # None /\ Dead(j, now) => Dead(j, now)'
      BY <3>1, Values DEF Dead
    <3> QED BY <3>1, <3>2 DEF Get
  <2>3. CASE UNCHANGED vars BY <2>3 DEF vars, cacheVars, Get, Dead
  <2> QED BY <2>1, <2>2, <2>3
<1>3. Versions' BY <1>1 DEF Versions, Response
<1>4. NoGoingBack' BY <1>1 DEF NoGoingBack, NotTakenBack
<1>5. ASSUME NEW d \in Clients, flight[d] # None, NEW j \in Keys, j = key[d]
      PROVE  /\ flight[d].at # "refetch"
             /\ flight[d].at \in {"fetch", "set"} => Get(j)' = None
             /\ flight[d].at = "return" /\ flight[d].resp # Failed /\ Get(j)' # None =>
                  flight[d].resp.version <= (Get(j)').version
  <2>1. /\ flight[d].at # "refetch"
        /\ flight[d].at \in {"fetch", "set"} => Get(j) = None
        /\ flight[d].at = "return" /\ flight[d].resp # Failed /\ Get(j) # None =>
             flight[d].resp.version <= Get(j).version
    BY <1>5 DEF StoreSound
  <2>2. CASE Get(j)' = None BY <2>1, <2>2
  <2>3. CASE Get(j)' # None BY <1>2, <2>1, <2>3
  <2> QED BY <2>2, <2>3
<1>6. StoreSound'
  <2>1. \A d \in Clients : flight'[d] # None =>
          /\ flight'[d].at # "refetch"
          /\ flight'[d].at \in {"fetch", "set"} => Get(key[d])' = None
          /\ flight'[d].at = "return" /\ flight'[d].resp # Failed /\ Get(key[d])' # None =>
               flight'[d].resp.version <= (Get(key[d])').version
    <3>1. ASSUME NEW d \in Clients, flight'[d] # None
          PROVE  /\ flight'[d].at # "refetch"
                 /\ flight'[d].at \in {"fetch", "set"} => Get(key[d])' = None
                 /\ flight'[d].at = "return" /\ flight'[d].resp # Failed /\ Get(key[d])' # None =>
                      flight'[d].resp.version <= (Get(key[d])').version
      <4>1. PICK j \in Keys : j = key[d] BY Values
      <4>2. key'[d] = j /\ flight'[d] = flight[d] BY <1>1, <4>1
      <4>3. Get(key[d])' = Get(j)' BY <4>2 DEF Get, Dead
      <4> QED BY <1>5, <3>1, <4>1, <4>2, <4>3
    <3> QED BY <3>1
  <2>2. \A j \in Keys : dataStack'[j] # None => dataStack'[j].Data.version <= origin'[j]
    BY <1>1, <1>2 DEF StoreSound
  <2>3. \A j \in Keys : Get(j)' # None => served'[j] <= (Get(j)').version
    <3>1. ASSUME NEW j \in Keys, Get(j)' # None PROVE served'[j] <= (Get(j)').version
      <4>1. Get(j)' = Get(j) BY <1>2, <3>1
      <4>2. served[j] <= Get(j).version BY <3>1, <4>1 DEF StoreSound
      <4> QED BY <1>1, <4>1, <4>2
    <3> QED BY <3>1
  <2> QED BY <2>1, <2>2, <2>3 DEF StoreSound
<1> QED BY <1>3, <1>4, <1>6

LEMMA InitInv == Init => Inv
PROOF
<1> SUFFICES ASSUME Init PROVE Inv OBVIOUS
<1> USE DEF Init, RamInit, FlightInit
<1>1. 0 \in 0 .. MaxVersion BY ProxyAssumption DEF FlightAssumption
<1>2. FlightTypeOK BY <1>1 DEF FlightTypeOK
<1>3. TypeOK
  <2>1. TimeDel \in Nat /\ QtShards \in 0 .. QtShards /\ 0 \in Nat BY RamAssumption
  <2>2. dataStack \in [Keys -> Item \cup {None}] OBVIOUS
  <2> QED BY <1>2, <2>1, <2>2 DEF TypeOK
<1>4. F!Sound BY DEF F!Sound
<1>5. Versions BY DEF Versions
<1>6. StoreSound BY DEF StoreSound, Get
<1>7. SweepSound /\ NoGoingBack BY DEF SweepSound, NoGoingBack, NotTakenBack
<1> QED BY <1>3, <1>4, <1>5, <1>6, <1>7 DEF Inv

LEMMA NextInv == Inv /\ [Next]_vars => Inv'
PROOF
<1> SUFFICES ASSUME Inv, [Next]_vars PROVE Inv' OBVIOUS
<1>1. TypeOK /\ F!Sound /\ Versions /\ StoreSound /\ SweepSound /\ NoGoingBack BY DEF Inv
<1>2. CASE Next
  <2>1. TypeOK' /\ F!Sound' /\ SweepSound' BY <1>1, <1>2, NextTypes
  <2>2. ASSUME NEW c \in Clients, GetsFromCache(c) PROVE Versions' /\ StoreSound' /\ NoGoingBack'
    BY <1>1, <2>2, GetFresh
  <2>3. ASSUME NEW c \in Clients, SetsInCache(c) PROVE Versions' /\ StoreSound' /\ NoGoingBack'
    BY <1>1, <2>3, SetFresh
  <2>4. ASSUME UNCHANGED cacheVars, Around \/ \E c \in Clients : FliesOutside(c)
        PROVE  Versions' /\ StoreSound' /\ NoGoingBack'
    BY <1>1, <2>4, OutsideFresh
  <2>5. ASSUME SweepRuns \/ Tick PROVE Versions' /\ StoreSound' /\ NoGoingBack'
    BY <1>1, <2>5, LetsGo
  <2>6. Versions' /\ StoreSound' /\ NoGoingBack'
    BY <1>2, <2>2, <2>3, <2>4, <2>5 DEF Next, Flies
  <2> QED BY <2>1, <2>6 DEF Inv
<1>3. CASE UNCHANGED vars
  <2>1. Versions' /\ StoreSound' /\ NoGoingBack' BY <1>1, <1>3, LetsGo
  <2>2. TypeOK' /\ F!Sound' /\ SweepSound'
    BY <1>1, <1>3 DEF vars, cacheVars, sweepVars, flightVars, TypeOK, FlightTypeOK, SweepSound,
                      F!Sound, F!FlightSound
  <2> QED BY <2>1, <2>2 DEF Inv
<1> QED BY <1>2, <1>3

-----------------------------------------------------------------------------
(* The theorems *)

\* The invariant holds whatever the keys, clients, shards, headers and versions.
THEOREM Invariance == Spec => []Inv
PROOF BY InitInv, NextInv, PTL DEF Spec

\* The variables have their types: the sweep is never past the last shard, and a flight is
\* at one of its places with a response if it needs one.
THEOREM TypeCorrect == Spec => []TypeOK
PROOF
<1>1. Inv => TypeOK BY DEF Inv
<1> QED BY <1>1, Invariance, PTL

\* No request gets an older version than one that was answered before it was sent: flights
\* for a key do not overlap, and the store does not fall behind of what was answered.
THEOREM NobodyGoesBack == Spec => []NoGoingBack
PROOF
<1>1. Inv => NoGoingBack BY DEF Inv
<1> QED BY <1>1, Invariance, PTL

\* Only a Set takes anything in.
LEMMA OnlySetsTakeIn ==
  ASSUME Inv, [Next]_vars, ~(\E c \in Clients : SetsInCache(c))
  PROVE  SweepRuns \/ UNCHANGED <<dataStack, sweepVars>>
PROOF
<1>1. CASE Around /\ UNCHANGED cacheVars BY <1>1 DEF cacheVars
<1>2. CASE UNCHANGED vars BY <1>2 DEF vars, cacheVars
<1>3. CASE Tick BY <1>3 DEF Tick
<1>4. ASSUME NEW c \in Clients, Flies(c) PROVE UNCHANGED <<dataStack, sweepVars>>
  BY <1>4 DEF Flies, GetsFromCache, cacheVars
<1> QED BY <1>1, <1>2, <1>3, <1>4 DEF Next

\* What a Set takes in, its header allows.
LEMMA SetHonours ==
  ASSUME TypeOK, F!Sound, NEW c \in Clients, SetsInCache(c),
         NEW k \in Keys, dataStack'[k] # dataStack[k]
  PROVE  LET item == dataStack'[k]
         IN  /\ ~Forbids(item.Data.header)
             /\ \E a \in Allowed(item.Data.header) : item.Expiration <= now + a
PROOF
<1> DEFINE resp == flight[c].resp
           item == dataStack'[k]
<1>1. resp \in Response /\ now \in Int /\ TimeDel \in Int
  BY Stored, RamAssumption DEF TypeOK
<1>2. PICK exp \in Int : /\ exp = Kept(resp, TimeDel)
                         /\ dataStack' = [dataStack EXCEPT ![key[c]] =
                                            [Data |-> resp, Expiration |-> now + exp]]
  BY Stored
<1>3. item.Data = resp /\ item.Expiration = now + exp BY <1>2 DEF TypeOK
<1> HIDE DEF resp, item
<1>4. exp # None BY ProxyAssumption DEF FlightAssumption
<1>5. CASE resp.header = <<>>
  <2>1. exp = TimeDel BY <1>1, <1>2, <1>5, SameFlights, F!KeptBound, ProxyAssumption
  <2>2. ~Forbids(resp.header) BY <1>5 DEF Forbids
  <2>3. Allowed(resp.header) = {TimeDel} BY <1>5 DEF Allowed
  <2> QED BY <1>1, <1>3, <2>1, <2>2, <2>3 DEF item
<1>6. CASE resp.header # <<>>
  <2>1. /\ \A i \in 1 .. Len(resp.header) : resp.header[i].name # "no-store"
        /\ \/ exp = 0
           \/ \E i \in MaxAges(resp.header) :
                resp.header[i].arg \in Nat /\ exp <= resp.header[i].arg
    BY <1>1, <1>2, <1>4, <1>6, SameFlights, F!KeptBound, ProxyAssumption
  <2>2. ~Forbids(resp.header) BY <2>1 DEF Forbids
  <2>3. \E a \in Allowed(resp.header) : a \in Int /\ exp <= a
    <3>1. 0 \in Allowed(resp.header) BY <1>6 DEF Allowed
    <3>2. \A i \in MaxAges(resp.header) : resp.header[i].arg \in Allowed(resp.header)
      BY <1>6 DEF Allowed
    <3> QED BY <2>1, <3>1, <3>2
  <2>4. PICK a \in Allowed(resp.header) : a \in Int /\ exp <= a BY <2>3
  <2>5. item.Expiration <= now + a BY <1>1, <1>3, <2>4
  <2> QED BY <1>3, <2>2, <2>5 DEF item
<1> QED BY <1>5, <1>6

\* What the cache takes in, its origin allows to be kept, and for no longer: by KeptBound,
\* for every header, every width of the integers and every length of a second.
THEOREM HeaderIsHonoured == Spec => HeaderHonoured
PROOF
<1>1. Inv /\ [Next]_vars =>
        [\A k \in Keys : dataStack'[k] # dataStack[k] /\ dataStack'[k] # None =>
           LET item == dataStack'[k]
           IN  /\ ~Forbids(item.Data.header)
               /\ \E a \in Allowed(item.Data.header) : item.Expiration <= now + a]_vars
  <2> SUFFICES ASSUME Inv, [Next]_vars, NEW k \in Keys,
                      dataStack'[k] # dataStack[k], dataStack'[k] # None
               PROVE  LET item == dataStack'[k]
                      IN  /\ ~Forbids(item.Data.header)
                          /\ \E a \in Allowed(item.Data.header) : item.Expiration <= now + a
    OBVIOUS
  <2>1. TypeOK /\ F!Sound BY DEF Inv
  <2>2. ~SweepRuns
    <3>1. SUFFICES ASSUME SweepRuns PROVE FALSE OBVIOUS
    <3>2. \/ dataStack' = dataStack
          \/ \E j \in Keys : dataStack' = [dataStack EXCEPT ![j] = None]
      BY <2>1, <3>1, SweepEffect DEF SweepRuns
    <3> QED BY <2>1, <3>2 DEF TypeOK
  <2>3. PICK c \in Clients : SetsInCache(c) BY <2>2, OnlySetsTakeIn
  <2> QED BY <2>1, <2>3, SetHonours
<1> QED BY <1>1, Invariance, PTL DEF Spec, HeaderHonoured

-----------------------------------------------------------------------------
(* The refinement *)

\* What the map shows, before and after a step.
LEMMA MapAfter ==
  /\ Store' = [k \in Keys |-> IF dataStack'[k] = None THEN None
                              ELSE [val |-> dataStack'[k].Data, exp |-> dataStack'[k].Expiration]]
  /\ UNCHANGED <<dataStack, now>> => UNCHANGED Cache!vars
PROOF BY DEF Store, Cache!vars

\* A Set puts an item, if the response is to be kept.
LEMMA SetPuts ==
  ASSUME TypeOK, F!Sound, NEW c \in Clients, SetsInCache(c)
  PROVE  [Cache!Calls]_(Cache!vars)
PROOF
<1>1. now' = now BY DEF SetsInCache
<1>2. CASE dataStack' = dataStack BY <1>1, <1>2, MapAfter
<1>3. CASE dataStack' # dataStack
  <2>1. PICK k \in Keys : k = key[c] BY Values
  <2>2. PICK item \in Item : dataStack' = [dataStack EXCEPT ![k] = item]
    BY <1>3, <2>1, Stored
  <2>3. item # None /\ item.Data \in Response /\ item.Expiration \in Int
    BY ProxyAssumption DEF Item
  <2>4. /\ dataStack'[k] = item
        /\ \A j \in Keys \ {k} : dataStack'[j] = dataStack[j]
    BY <2>2 DEF TypeOK
  <2> DEFINE new == [val |-> item.Data, exp |-> item.Expiration]
  <2>5. Store' = [Store EXCEPT ![k] = new] /\ Store'[k] = new
    <3>1. Store'[k] = new BY <2>3, <2>4, MapAfter
    <3>2. \A j \in Keys \ {k} : Store'[j] = Store[j] BY <2>4, MapAfter DEF Store
    <3> HIDE DEF new
    <3> QED BY <3>1, <3>2, MapAfter DEF Store
  <2>6. new \in Cache!Item BY <2>3 DEF Cache!Item
  <2>7. Cache!Put(k, Store'[k])
    <3> HIDE DEF new
    <3> QED BY <1>1, <2>5, <2>6 DEF Cache!Put, Store
  <2> QED BY <2>7 DEF Cache!Calls, Store
<1> QED BY <1>2, <1>3

\* A step of the sweep lets an expired item expire, or nothing.
LEMMA SweepExpires ==
  ASSUME TypeOK, F!Sound, SweepRuns
  PROVE  [Cache!Internal]_(Cache!vars)
PROOF
<1>1. /\ now' = now
      /\ \/ dataStack' = dataStack
         \/ \E k \in Keys : Dead(k, now) /\ dataStack' = [dataStack EXCEPT ![k] = None]
  BY SweepEffect DEF SweepRuns
<1>2. CASE dataStack' = dataStack BY <1>1, <1>2, MapAfter
<1>3. ASSUME NEW k \in Keys, Dead(k, now), dataStack' = [dataStack EXCEPT ![k] = None]
      PROVE  Cache!Expire(k)
  <2>1. dataStack'[k] = None /\ \A j \in Keys \ {k} : dataStack'[j] = dataStack[j]
    BY <1>3 DEF TypeOK
  <2>2. Store' = [Store EXCEPT ![k] = None] BY <2>1, MapAfter DEF Store
  <2>3. Store[k] # None /\ Store[k].exp < now
    <3>1. /\ dataStack[k] # None /\ now > dataStack[k].Expiration
          /\ now \in Int /\ dataStack[k].Expiration \in Int
      BY <1>3, Values DEF Dead
    <3>2. Store[k] = [val |-> dataStack[k].Data, exp |-> dataStack[k].Expiration]
      BY <3>1 DEF Store
    <3>3. [val |-> dataStack[k].Data, exp |-> dataStack[k].Expiration] # None
      BY <3>1, Values, ProxyAssumption
    <3> QED BY <3>1, <3>2, <3>3
  <2> QED BY <1>1, <2>2, <2>3 DEF Cache!Expire, Store
<1> QED BY <1>1, <1>2, <1>3 DEF Cache!Internal

\* The clock is the cache's clock.
LEMMA TickTicks == Tick => Cache!Tick
PROOF
<1> SUFFICES ASSUME Tick PROVE Cache!Tick OBVIOUS
<1>1. now' = now + 1 /\ dataStack' = dataStack BY DEF Tick
<1> QED BY <1>1 DEF Cache!Tick, Store

\* A step of the sweep is not taken for one of a flight.
LEMMA SweepShows ==
  ASSUME TypeOK, SweepRuns, dataStack' # dataStack
  PROVE  sweepVars' # sweepVars
PROOF
<1>1. PICK k \in Keys : SweepDeletes(k)
  BY DEF SweepRuns, Sweep, SweepBegins, SweepScans, SweepMovesOn
<1>2. k \in left /\ k \notin left' BY <1>1 DEF SweepDeletes
<1> QED BY <1>2 DEF sweepVars

\* A step of the proxy is a step of the cache, or a stutter, by the same party.
LEMMA NextMap ==
  ASSUME Inv, [Next]_vars
  PROVE  [Cache!Next]_(Cache!vars) /\ [StepsMatch]_vars
PROOF
<1>1. TypeOK /\ F!Sound BY DEF Inv
<1>2. ASSUME NEW c \in Clients, SetsInCache(c)
      PROVE  [Cache!Next]_(Cache!vars) /\ [StepsMatch]_vars
  <2>1. [Cache!Calls]_(Cache!vars) BY <1>1, <1>2, SetPuts
  <2>2. sweepVars' = sweepVars BY <1>2 DEF SetsInCache
  <2> QED BY <2>1, <2>2 DEF Cache!Next, StepsMatch
<1>3. ASSUME SweepRuns PROVE [Cache!Next]_(Cache!vars) /\ [StepsMatch]_vars
  <2>1. [Cache!Internal]_(Cache!vars) BY <1>1, <1>3, SweepExpires
  <2>2. CASE dataStack' = dataStack
    <3>1. UNCHANGED Cache!vars BY <1>1, <1>3, <2>2, SweepEffect, MapAfter DEF SweepRuns
    <3> QED BY <3>1 DEF StepsMatch
  <2>3. CASE dataStack' # dataStack
    <3>1. sweepVars' # sweepVars BY <1>1, <1>3, <2>3, SweepShows
    <3> QED BY <2>1, <3>1 DEF Cache!Next, StepsMatch
  <2> QED BY <2>2, <2>3
<1>4. CASE Tick
  <2>1. Cache!Tick BY <1>4, TickTicks
  <2>2. sweepVars' = sweepVars /\ now' = now + 1 BY <1>4 DEF Tick
  <2>3. now' # now BY <1>1, <2>2 DEF TypeOK
  <2> QED BY <2>1, <2>2, <2>3 DEF Cache!Next, Cache!Internal, StepsMatch
<1>5. ASSUME UNCHANGED <<dataStack, now>> PROVE [Cache!Next]_(Cache!vars) /\ [StepsMatch]_vars
  <2>1. UNCHANGED Cache!vars BY <1>5, MapAfter
  <2> QED BY <2>1 DEF StepsMatch
<1>6. ASSUME NEW c \in Clients, GetsFromCache(c) PROVE UNCHANGED <<dataStack, now>>
  BY <1>6 DEF GetsFromCache, cacheVars
<1>7. ASSUME UNCHANGED cacheVars PROVE UNCHANGED <<dataStack, now>> BY <1>7 DEF cacheVars
<1>8. ASSUME UNCHANGED vars PROVE UNCHANGED <<dataStack, now>> BY <1>8 DEF vars, cacheVars
<1> QED BY <1>2, <1>3, <1>4, <1>5, <1>6, <1>7, <1>8 DEF Next, Flies

\* The store in memory is a cache, for all numbers of shards, keys and flights: a read
\* returns the value put last, and nothing but an expired item goes away.
THEOREM StoreRefinesCache == Spec => RefinesCache
PROOF
<1>1. Init => Cache!Init
  <2> SUFFICES ASSUME Init PROVE Cache!Init OBVIOUS
  <2>1. dataStack = [k \in Keys |-> None] /\ now = 0 BY DEF Init, RamInit
  <2> QED BY <2>1 DEF Cache!Init, Cache!Empty, Store
<1>2. Inv /\ [Next]_vars => [Cache!Next]_(Cache!vars) /\ [StepsMatch]_vars BY NextMap
<1> QED BY <1>1, <1>2, Invariance, PTL DEF Spec, RefinesCache, Cache!Spec
=============================================================================
