----------------------------- MODULE ReversProxy -----------------------------
(***************************************************************************)
(* The reverse proxy over the cache in memory: the flights of Flights call *)
(* the operations of RamCacheStore, whose sweep runs beside them.          *)
(***************************************************************************)
EXTENDS RamCacheStore, Sequences

CONSTANTS Clients, CacheControls, MaxVersion, IntMax, Second, Failed

VARIABLES client, key, result, sgr, flight, origin, served, floor

flightVars == <<client, key, result, sgr, flight, origin, served, floor>>

INSTANCE Flights

Item == [Data : Response, Expiration : Int]

ASSUME ProxyAssumption ==
  FlightAssumption /\ None \notin Item \cup [val : Response, exp : Int]

cacheVars == <<dataStack, sweepVars, now>>
vars == <<cacheVars, flightVars>>

-----------------------------------------------------------------------------
Init == RamInit /\ FlightInit

GetsFromCache(c) == FlightGets(c, Get(key[c])) /\ UNCHANGED cacheVars

\* Keep the response: for timeDel without a header, else as the header says.
SetsInCache(c) ==
  LET resp == flight[c].resp
  IN  /\ FlightSets(c)
      /\ IF resp.header = <<>> THEN Set(key[c], resp)
         ELSE IF Kept(resp, TimeDel) # None THEN SetWithExp(key[c], resp, Kept(resp, TimeDel))
         ELSE UNCHANGED dataStack
      /\ UNCHANGED <<sweepVars, now>>

Tick ==
  /\ now < MaxTime
  /\ now' = now + 1
  /\ UNCHANGED <<dataStack, sweepVars, flightVars>>

SweepRuns == Sweep /\ UNCHANGED flightVars

-----------------------------------------------------------------------------
Flies(c) ==
  \/ GetsFromCache(c) \/ SetsInCache(c)
  \/ FliesOutside(c) /\ UNCHANGED cacheVars

Next ==
  \/ \E c \in Clients : Flies(c)
  \/ Around /\ UNCHANGED cacheVars
  \/ SweepRuns \/ Tick

Spec == Init /\ [][Next]_vars

\* Time passes, goroutines run, and the origin answers or fails: the transport has no timeout.
FairSpec == Spec /\ WF_vars(Tick) /\ WF_vars(SweepRuns) /\ \A c \in Clients : WF_vars(Flies(c))

-----------------------------------------------------------------------------
(* Properties *)

\* Type invariant.
TypeOK ==
  /\ dataStack \in [Keys -> Item \cup {None}]
  /\ shard \in 0 .. QtShards /\ scanned \in BOOLEAN
  /\ forDel \subseteq Keys /\ left \subseteq Keys
  /\ sweepNow \in Nat /\ nextTick \in Nat /\ now \in Nat
  /\ FlightTypeOK

Forbids(header) == \E i \in 1 .. Len(header) : header[i].name = "no-store"

\* The longest lifetime the header can be read to allow.
Allowed(header) ==
  IF header = <<>> THEN {TimeDel}
  ELSE {0} \cup {header[i].arg : i \in MaxAges(header)}

\* What the cache takes in, its origin allows to be kept, and for no longer than it
\* allows: whatever the order and number of the directives, and although a max-age may
\* overflow the integers it is computed with, which ends a lifetime too soon at worst.
HeaderHonoured ==
  [][\A k \in Keys : dataStack'[k] # dataStack[k] /\ dataStack'[k] # None =>
       LET item == dataStack'[k]
       IN  /\ ~Forbids(item.Data.header)
           /\ \E a \in Allowed(item.Data.header) : item.Expiration <= now + a]_vars

\* No request gets an older version than one that was answered before it was sent,
\* although the origin changes, items expire and the sweep runs meanwhile: since the
\* flights for a key do not overlap, none overwrites a newer item.
NoGoingBack == \A c \in Clients : NotTakenBack(c)

\* The items of the store, as a cache in the sense of CheckpointedCache has them.
Store == [k \in Keys |-> IF dataStack[k] = None THEN None
                         ELSE [val |-> dataStack[k].Data, exp |-> dataStack[k].Expiration]]

Cache == INSTANCE CheckpointedCache WITH
  store <- Store, saved <- [k \in Keys |-> None], lost <- {}, phase <- "open",
  Values <- Response, Expirations <- Int

\* A step of the store is one of the cache, by the same party: flights put, and the
\* sweep, whose every step changes a variable of its own, lets expire.
StepsMatch ==
  IF sweepVars' # sweepVars
  THEN [Cache!Internal]_(Cache!vars)
  ELSE UNCHANGED now => [Cache!Calls]_(Cache!vars)

\* The memory store is a cache in the sense of that module: the sweep, which looks at an
\* item under one lock and deletes it under another, deletes nothing but expired items.
RefinesCache == Cache!Spec /\ [][StepsMatch]_vars

\* A request is answered, by its own flight or by the one it has joined.
EveryRequestAnswered == \A c \in Clients : (client[c] = "waits") ~> (client[c] # "waits")

\* The sweep gets to every expired item, in whatever shard it is, even to one that was
\* expired when it was stored: as long as there is a tick to come before the clock's bound.
ExpiredSwept ==
  \A k \in Keys : Dead(k, now) /\ nextTick <= MaxTime ~> ~Dead(k, now)
=============================================================================
