------------------------------- MODULE Flights -------------------------------
(***************************************************************************)
(* The reverse proxy's GET requests (src/initial/inbox_handler/revers.go), *)
(* without the cache.  Requests for one key share one flight of            *)
(* singleflight.Group: the flight looks into the cache, asks the origin if *)
(* it must, keeps the response as Cache-Control says, and its result goes  *)
(* to all who have joined.                                                 *)
(*                                                                         *)
(* The origin is outside: for each key a version that may change at any    *)
(* time, and an answer with any of CacheControls.  A response is the       *)
(* version and the header it came with.  A client asks again and again.    *)
(*                                                                         *)
(* The module has no specification of its own: ReversProxy flies over the  *)
(* cache in memory, FileProxy over a shard of the cache in files.          *)
(***************************************************************************)
LOCAL INSTANCE Integers
LOCAL INSTANCE Sequences

CONSTANTS
  Keys,
  Clients,
  CacheControls, \* what the header may be: sequences of directives, <<>> for no header
  MaxVersion,    \* bound: the origin changes no more
  IntMax,        \* the largest int64
  Second,        \* a second as a time.Duration
  Failed,        \* the result of a flight that returns an error
  None

Directive == [name : {"no-store", "max-age", "other"}, arg : Nat]
Response  == [version : 0 .. MaxVersion, header : CacheControls]

\* A flight: where its function is, what it will return, and its members.
Flight == [at : {"get", "fetch", "refetch", "set", "return"},
           resp : Response \cup {None, Failed}, members : SUBSET Clients]

\* What the modules over Flights assume of its constants.
FlightAssumption ==
  /\ CacheControls \subseteq Seq(Directive) /\ MaxVersion \in Nat
  /\ IntMax \in Nat /\ Second \in Nat \ {0}
  /\ None \notin Response \cup {Failed} \cup Int \cup Clients
  /\ Failed \notin Response /\ None \notin Flight

VARIABLES
  client,   \* client[c]: "idle", "waits" for a flight, or "answered"
  key,      \* key[c]: what it asks for
  result,   \* result[c]: the response to its request, or Failed
  sgr,      \* sgr[k]: the client whose flight for k others may join, or None
  flight,   \* flight[c]: the flight that c leads, or None
  origin,   \* origin[k]: the version the origin holds
  served,   \* history: served[k], the newest version any client got for k
  floor     \* history: floor[c], served[key[c]] when c sent its request

clientVars == <<client, key, result, floor, served>>

-----------------------------------------------------------------------------
(* Cache-Control *)

MaxAges(arr) == {i \in 1 .. Len(arr) : arr[i].name = "max-age"}

\* What the arithmetic of int64 makes of n.
Wrapped(n) == ((n + IntMax + 1) % (2 * (IntMax + 1))) - (IntMax + 1)

\* ParseInt gives the largest int64 for a number beyond it, and multiplying by time.Second
\* wraps around; Add and Unix leave whole seconds.
Duration(arg) == Wrapped((IF arg > IntMax THEN IntMax ELSE arg) * Second) \div Second

\* The last max-age counts; without one the lifetime is zero.
LifeTime(arr) ==
  IF MaxAges(arr) = {} THEN 0
  ELSE Duration(arr[CHOOSE i \in MaxAges(arr) : \A j \in MaxAges(arr) : j <= i].arg)

\* Mutant: a max-age makes a response storable.
ParceCacheControl_MaxAgeWins(arr) ==
  [IsSaved  |-> MaxAges(arr) # {} \/ \A i \in 1 .. Len(arr) : arr[i].name # "no-store",
   LifeTime |-> LifeTime(arr)]

ParceCacheControl(arr) ==
  [IsSaved  |-> \A i \in 1 .. Len(arr) : arr[i].name # "no-store",
   LifeTime |-> LifeTime(arr)]

\* For how long a response is kept, if the default is timeDel; None if it is not kept.
Kept(resp, timeDel) ==
  LET cacheSet == ParceCacheControl(resp.header)
  IN  IF resp.header = <<>> THEN timeDel
      ELSE IF cacheSet.IsSaved THEN cacheSet.LifeTime ELSE None

-----------------------------------------------------------------------------
FlightInit ==
  /\ client = [c \in Clients |-> "idle"] /\ key \in [Clients -> Keys]
  /\ result = [c \in Clients |-> None]
  /\ sgr = [k \in Keys |-> None] /\ flight = [c \in Clients |-> None]
  /\ origin = [k \in Keys |-> 0]
  /\ served = [k \in Keys |-> 0]
  /\ floor = [c \in Clients |-> 0]

Ask(c, k) ==
  /\ client[c] # "waits"
  /\ client' = [client EXCEPT ![c] = "waits"]
  /\ key' = [key EXCEPT ![c] = k]
  /\ floor' = [floor EXCEPT ![c] = served[k]]
  /\ result' = [result EXCEPT ![c] = None]
  /\ UNCHANGED <<served, origin>>

NewFlight(c) == [at |-> "get", resp |-> None, members |-> {c}]

\* Mutant: every request is a flight of its own.
Request_NoSharing(c, k) ==
  /\ Ask(c, k)
  /\ sgr' = [sgr EXCEPT ![k] = c]
  /\ flight' = [flight EXCEPT ![c] = NewFlight(c)]

\* sgr.Do: join the flight for the key, or lead one.
Request(c, k) ==
  /\ Ask(c, k)
  /\ IF sgr[k] = None
     THEN /\ sgr' = [sgr EXCEPT ![k] = c]
          /\ flight' = [flight EXCEPT ![c] = NewFlight(c)]
     ELSE /\ flight' = [flight EXCEPT ![sgr[k]].members = @ \cup {c}]
          /\ UNCHANGED sgr

InFlight(c, at) == flight[c] # None /\ flight[c].at = at

Proceeds(c, at, resp) ==
  /\ flight' = [flight EXCEPT ![c].at = at, ![c].resp = resp]
  /\ UNCHANGED <<clientVars, sgr, origin>>

\* The cache has answered with data, which may be None.
FlightGets(c, data) ==
  /\ InFlight(c, "get")
  /\ IF data = None THEN Proceeds(c, "fetch", None) ELSE Proceeds(c, "return", data)

\* The cache has answered with an error: fetch, and store nothing.
FlightGetFails(c) == InFlight(c, "get") /\ Proceeds(c, "refetch", None)

\* Mutant: other requests are let pass before the response is stored.
FlightFetches_ForgetsKey(c, header) ==
  LET resp == [version |-> origin[key[c]], header |-> header]
  IN  /\ InFlight(c, "fetch")
      /\ flight' = [flight EXCEPT ![c].at = "set", ![c].resp = resp]
      /\ sgr' = [sgr EXCEPT ![key[c]] = None]
      /\ UNCHANGED <<clientVars, origin>>

\* The origin answers: the version it has now, with some header.
FlightFetches(c, header) ==
  LET resp == [version |-> origin[key[c]], header |-> header]
  IN  \/ InFlight(c, "fetch")   /\ Proceeds(c, "set", resp)
      \/ InFlight(c, "refetch") /\ Proceeds(c, "return", resp)

FlightFetchFails(c) ==
  /\ InFlight(c, "fetch") \/ InFlight(c, "refetch")
  /\ Proceeds(c, "return", Failed)

\* The store has been asked to keep the response; if it cannot, that is only logged.
FlightSets(c) == InFlight(c, "set") /\ Proceeds(c, "return", flight[c].resp)

Deliver(resp, members) ==
  /\ client' = [c \in Clients |-> IF c \in members THEN "answered" ELSE client[c]]
  /\ result' = [c \in Clients |-> IF c \in members THEN resp ELSE result[c]]

\* Mutant: only the leader is told.
FlightReturns_LeaderOnly(c) ==
  /\ InFlight(c, "return")
  /\ Deliver(flight[c].resp, {c})
  /\ sgr' = [sgr EXCEPT ![key[c]] = None] /\ flight' = [flight EXCEPT ![c] = None]
  /\ UNCHANGED <<key, floor, served, origin>>

\* The flight is over for all its members at once, and the key is free again.
FlightReturns(c) ==
  LET resp == flight[c].resp
  IN  /\ InFlight(c, "return")
      /\ Deliver(resp, flight[c].members)
      /\ served' = IF resp # Failed /\ resp.version > served[key[c]]
                   THEN [served EXCEPT ![key[c]] = resp.version] ELSE served
      /\ sgr' = [sgr EXCEPT ![key[c]] = None]
      /\ flight' = [flight EXCEPT ![c] = None]
      /\ UNCHANGED <<key, floor, origin>>

OriginChanges(k) ==
  /\ origin[k] < MaxVersion
  /\ origin' = [origin EXCEPT ![k] = @ + 1]
  /\ UNCHANGED <<clientVars, sgr, flight>>

\* What a flight does without the cache, and what happens around it.
FliesOutside(c) ==
  \/ FlightFetchFails(c) \/ FlightReturns(c)
  \/ \E header \in CacheControls : FlightFetches(c, header)

Around ==
  \/ \E c \in Clients, k \in Keys : Request(c, k)
  \/ \E k \in Keys : OriginChanges(k)

-----------------------------------------------------------------------------
\* The types of the variables.
FlightTypeOK ==
  /\ client \in [Clients -> {"idle", "waits", "answered"}] /\ key \in [Clients -> Keys]
  /\ result \in [Clients -> Response \cup {None, Failed}]
  /\ sgr \in [Keys -> Clients \cup {None}] /\ flight \in [Clients -> Flight \cup {None}]
  /\ origin \in [Keys -> 0 .. MaxVersion] /\ served \in [Keys -> 0 .. MaxVersion]
  /\ floor \in [Clients -> 0 .. MaxVersion]

\* Client c did not get an older version than one that was answered before it asked.
NotTakenBack(c) ==
  client[c] = "answered" /\ result[c] # Failed => result[c].version >= floor[c]
=============================================================================
