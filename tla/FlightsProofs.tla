---------------------------- MODULE FlightsProofs ----------------------------
(***************************************************************************)
(* What the flights of Flights keep to, over any store: those who wait for *)
(* a key are the members of the one flight there is for it, and a lifetime *)
(* that is read from a header is one the header allows.  ReversProxyProofs *)
(* and FileProxyProofs use these lemmas, each for its own store.           *)
(***************************************************************************)
EXTENDS Flights, WellFoundedInduction, TLAPS
LOCAL INSTANCE Integers
LOCAL INSTANCE Sequences

-----------------------------------------------------------------------------
(* The inductive invariant *)

\* A flight is the one for its leader's key, its members wait for that key, and what it
\* is going to return it has from the cache or the origin, unless it failed.
FlightSound(c) ==
  /\ sgr[key[c]] = c /\ c \in flight[c].members
  /\ \A d \in flight[c].members : client[d] = "waits" /\ key[d] = key[c]
  /\ flight[c].at = "set" => flight[c].resp \in Response
  /\ flight[c].at = "return" => flight[c].resp \in Response \cup {Failed}

\* The flights, the keys they are for, and those who wait.
Sound ==
  /\ \A c \in Clients : flight[c] # None => FlightSound(c)
  /\ \A k \in Keys : sgr[k] # None => flight[sgr[k]] # None /\ key[sgr[k]] = k
  /\ \A c \in Clients : client[c] = "waits" =>
       sgr[key[c]] # None /\ c \in flight[sgr[key[c]]].members
  /\ \A c \in Clients : client[c] = "answered" => result[c] \in Response \cup {Failed}

\* What the flights assume of the constants, the types, and how flights and clients fit.
FlightInv == FlightAssumption /\ FlightTypeOK /\ Sound

-----------------------------------------------------------------------------
(* Lifetimes *)

\* A set of natural numbers that is not empty has a least one.
LEMMA Least ==
  ASSUME NEW T, T \subseteq Nat, T # {}
  PROVE  \E x \in T : \A y \in T : x <= y
PROOF
<1> DEFINE R == OpToRel(<, Nat)
<1>1. \E x \in T : \A y \in T : ~(<<y, x>> \in R)
  <2>1. IsWellFoundedOn(R, Nat) BY NatLessThanWellFounded
  <2> HIDE DEF R
  <2> QED BY <2>1, WFMin
<1>2. PICK x \in T : \A y \in T : ~(<<y, x>> \in R) BY <1>1
<1>3. ASSUME NEW y \in T PROVE x <= y
  <2>1. ~(<<y, x>> \in {ss \in Nat \X Nat : ss[1] < ss[2]}) BY <1>2 DEF OpToRel
  <2>2. x \in Nat /\ y \in Nat OBVIOUS
  <2> HIDE DEF R
  <2>3. ~(y < x) BY <2>1, <2>2
  <2> QED BY <2>2, <2>3
<1> QED BY <1>3

\* Of the indices of a sequence, a set that is not empty has a greatest.
LEMMA Greatest ==
  ASSUME NEW n \in Nat, NEW S, S \subseteq 1 .. n, S # {}
  PROVE  \E i \in S : \A j \in S : j <= i
PROOF
<1> DEFINE T == {n - i : i \in S}
<1>1. T \subseteq Nat
  <2>1. \A i \in S : i \in 1 .. n OBVIOUS
  <2> QED BY <2>1
<1>2. T # {} OBVIOUS
<1>3. PICK x \in T : \A y \in T : x <= y
  <2> HIDE DEF T
  <2> QED BY <1>1, <1>2, Least
<1>4. PICK i \in S : x = n - i OBVIOUS
<1>5. ASSUME NEW j \in S PROVE j <= i
  <2>1. n - i <= n - j BY <1>3, <1>4
  <2> QED BY <2>1
<1> QED BY <1>5

\* Whole seconds in x.
LEMMA Quotient ==
  ASSUME NEW x \in Int, NEW d \in Nat \ {0}, NEW a \in Int, x <= a * d
  PROVE  x \div d \in Int /\ x \div d <= a
PROOF
<1>1. x \div d \in Int OBVIOUS
<1>2. x = d * (x \div d) + (x % d) /\ x % d \in Int /\ 0 <= x % d OBVIOUS
<1>3. SUFFICES ASSUME x \div d >= a + 1 PROVE FALSE BY <1>1
<1>4. d * (x \div d) >= d * (a + 1) BY <1>1, <1>3
<1> QED BY <1>1, <1>2, <1>4

\* What does not fit wraps around to something less.
LEMMA WrapsDown ==
  ASSUME FlightAssumption, NEW n \in Nat
  PROVE  Wrapped(n) \in Int /\ Wrapped(n) <= n
PROOF
<1>1. \A x \in Nat, m \in Nat \ {0} : x % m \in Int /\ x % m <= x OBVIOUS
<1>2. n + IntMax + 1 \in Nat /\ 2 * (IntMax + 1) \in Nat \ {0} /\ IntMax \in Nat
  BY DEF FlightAssumption
<1> QED BY <1>1, <1>2 DEF Wrapped

\* The arithmetic of int64 ends a lifetime too soon at worst.
LEMMA DurationBound ==
  ASSUME FlightAssumption, NEW arg \in Nat
  PROVE  Duration(arg) \in Int /\ Duration(arg) <= arg
PROOF
<1> DEFINE n == IF arg > IntMax THEN IntMax ELSE arg
<1>1. /\ n \in Nat /\ n <= arg
      /\ Second \in Nat \ {0}
  BY DEF FlightAssumption
<1> HIDE DEF n
<1>2. n * Second \in Nat BY <1>1
<1>3. Wrapped(n * Second) \in Int /\ Wrapped(n * Second) <= n * Second BY <1>2, WrapsDown
<1>4. Wrapped(n * Second) \div Second \in Int /\ Wrapped(n * Second) \div Second <= n
  BY <1>1, <1>3, Quotient
<1>5. Duration(arg) = Wrapped(n * Second) \div Second BY DEF Duration, n
<1> QED BY <1>1, <1>4, <1>5

\* A lifetime is zero or that of one of the max-ages.
LEMMA LifeTimeBound ==
  ASSUME FlightAssumption, NEW arr \in Seq(Directive)
  PROVE  /\ LifeTime(arr) \in Int
         /\ \/ LifeTime(arr) = 0
            \/ \E i \in MaxAges(arr) : arr[i].arg \in Nat /\ LifeTime(arr) <= arr[i].arg
PROOF
<1>1. CASE MaxAges(arr) = {} BY <1>1 DEF LifeTime
<1>2. CASE MaxAges(arr) # {}
  <2> DEFINE i == CHOOSE i \in MaxAges(arr) : \A j \in MaxAges(arr) : j <= i
  <2>1. MaxAges(arr) \subseteq 1 .. Len(arr) /\ Len(arr) \in Nat BY DEF MaxAges
  <2>2. \E m \in MaxAges(arr) : \A j \in MaxAges(arr) : j <= m BY <1>2, <2>1, Greatest
  <2>3. i \in MaxAges(arr) BY <2>2
  <2>4. LifeTime(arr) = Duration(arr[i].arg) BY <1>2 DEF LifeTime
  <2> HIDE DEF i
  <2>5. arr[i].arg \in Nat
    <3>1. i \in 1 .. Len(arr) BY <2>1, <2>3
    <3>2. arr[i] \in Directive BY <3>1
    <3> QED BY <3>2 DEF Directive
  <2>6. Duration(arr[i].arg) \in Int /\ Duration(arr[i].arg) <= arr[i].arg
    BY <2>5, DurationBound
  <2> QED BY <2>3, <2>4, <2>5, <2>6
<1> QED BY <1>1, <1>2

\* For how long a response is kept is a number; without a header it is the default, and
\* with one it is a lifetime that a header without no-store allows.
LEMMA KeptBound ==
  ASSUME FlightAssumption, NEW resp \in Response, NEW timeDel \in Int
  PROVE  /\ Kept(resp, timeDel) \in Int \cup {None}
         /\ resp.header = <<>> => Kept(resp, timeDel) = timeDel
         /\ resp.header # <<>> /\ Kept(resp, timeDel) # None =>
              /\ \A i \in 1 .. Len(resp.header) : resp.header[i].name # "no-store"
              /\ \/ Kept(resp, timeDel) = 0
                 \/ \E i \in MaxAges(resp.header) :
                      resp.header[i].arg \in Nat /\ Kept(resp, timeDel) <= resp.header[i].arg
PROOF
<1>1. resp.header \in Seq(Directive) BY DEF FlightAssumption, Response
<1>2. /\ LifeTime(resp.header) \in Int
      /\ \/ LifeTime(resp.header) = 0
         \/ \E i \in MaxAges(resp.header) :
              resp.header[i].arg \in Nat /\ LifeTime(resp.header) <= resp.header[i].arg
  BY <1>1, LifeTimeBound
<1>3. CASE resp.header = <<>> BY <1>3 DEF Kept
<1>4. CASE resp.header # <<>>
  <2>1. Kept(resp, timeDel) =
          IF \A i \in 1 .. Len(resp.header) : resp.header[i].name # "no-store"
          THEN LifeTime(resp.header) ELSE None
    BY <1>4 DEF Kept, ParceCacheControl
  <2> QED BY <1>2, <1>4, <2>1
<1> QED BY <1>3, <1>4
-----------------------------------------------------------------------------
(* What the steps do *)

\* A flight goes on, and everything else is left alone.
LEMMA ProceedsEffect ==
  ASSUME FlightInv, NEW c \in Clients, flight[c] # None,
         NEW at \in {"get", "fetch", "refetch", "set", "return"},
         NEW resp \in Response \cup {None, Failed}, Proceeds(c, at, resp)
  PROVE  /\ flight'[c] \in Flight /\ flight'[c] # None
         /\ flight'[c].at = at /\ flight'[c].resp = resp
         /\ flight'[c].members = flight[c].members
         /\ \A d \in Clients \ {c} : flight'[d] = flight[d]
         /\ flight' \in [Clients -> Flight \cup {None}]
         /\ UNCHANGED <<client, key, result, floor, served, sgr, origin>>
PROOF
<1>1. flight[c] \in Flight /\ None \notin Flight /\ flight \in [Clients -> Flight \cup {None}]
  BY DEF FlightInv, FlightTypeOK, FlightAssumption
<1>2. /\ flight' = [flight EXCEPT ![c].at = at, ![c].resp = resp]
      /\ UNCHANGED <<client, key, result, floor, served, sgr, origin>>
  BY DEF Proceeds, clientVars
<1>3. DEFINE next == [flight[c] EXCEPT !.at = at, !.resp = resp]
<1>4. next \in Flight /\ next.at = at /\ next.resp = resp /\ next.members = flight[c].members
  BY <1>1 DEF Flight
<1>5. /\ flight'[c] = next /\ \A d \in Clients \ {c} : flight'[d] = flight[d]
      /\ DOMAIN flight' = Clients /\ flight' = [d \in Clients |-> flight'[d]]
  BY <1>1, <1>2
<1> HIDE DEF next
<1>6. flight' \in [Clients -> Flight \cup {None}] BY <1>1, <1>4, <1>5
<1> QED BY <1>1, <1>2, <1>4, <1>5, <1>6

\* A flight that goes on stays the one for its key, with its members.
LEMMA ProceedsInv ==
  ASSUME FlightInv, NEW c \in Clients, flight[c] # None,
         NEW at \in {"get", "fetch", "refetch", "set", "return"},
         NEW resp \in Response \cup {None, Failed}, Proceeds(c, at, resp),
         at = "set" => resp \in Response, at = "return" => resp \in Response \cup {Failed}
  PROVE  FlightInv'
PROOF
<1>1. /\ flight'[c] # None /\ flight'[c].at = at /\ flight'[c].resp = resp
      /\ flight'[c].members = flight[c].members
      /\ \A d \in Clients \ {c} : flight'[d] = flight[d]
      /\ flight' \in [Clients -> Flight \cup {None}]
      /\ UNCHANGED <<client, key, result, floor, served, sgr, origin>>
  BY ProceedsEffect
<1>2. FlightTypeOK' BY <1>1 DEF FlightInv, FlightTypeOK
<1>3. ASSUME NEW d \in Clients, flight'[d] # None PROVE FlightSound(d)'
  <2>1. FlightSound(d) BY <1>1, <1>3 DEF FlightInv, Sound
  <2>2. CASE d = c BY <1>1, <2>1, <2>2 DEF FlightSound
  <2>3. CASE d # c BY <1>1, <2>1, <2>3 DEF FlightSound
  <2> QED BY <2>2, <2>3
<1>4. \A k \in Keys : sgr'[k] # None => flight'[sgr'[k]] # None /\ key'[sgr'[k]] = k
  <2>1. \A k \in Keys : sgr[k] # None => sgr[k] \in Clients BY DEF FlightInv, FlightTypeOK
  <2> QED BY <1>1, <2>1 DEF FlightInv, Sound
<1>5. \A d \in Clients : client'[d] = "waits" =>
        sgr'[key'[d]] # None /\ d \in flight'[sgr'[key'[d]]].members
  <2>1. \A d \in Clients : sgr[key[d]] # None => sgr[key[d]] \in Clients
    BY DEF FlightInv, FlightTypeOK
  <2> QED BY <1>1, <2>1 DEF FlightInv, Sound
<1>6. \A d \in Clients : client'[d] = "answered" => result'[d] \in Response \cup {Failed}
  BY <1>1 DEF FlightInv, Sound
<1>7. Sound' BY <1>3, <1>4, <1>5, <1>6 DEF Sound
<1> QED BY <1>2, <1>7 DEF FlightInv, FlightAssumption, Response, Flight, Directive

\* Asking, by a client that waits for nothing: it leads no flight, and is in none.
LEMMA AskEffect ==
  ASSUME FlightInv, NEW c \in Clients, NEW k \in Keys, Ask(c, k)
  PROVE  /\ flight[c] = None
         /\ \A d \in Clients : flight[d] # None => c \notin flight[d].members
         /\ client'[c] = "waits" /\ key'[c] = k /\ floor'[c] = served[k]
         /\ \A d \in Clients \ {c} : /\ client'[d] = client[d] /\ key'[d] = key[d]
                                     /\ floor'[d] = floor[d] /\ result'[d] = result[d]
         /\ client' \in [Clients -> {"idle", "waits", "answered"}] /\ key' \in [Clients -> Keys]
         /\ result' \in [Clients -> Response \cup {None, Failed}]
         /\ floor' \in [Clients -> 0 .. MaxVersion]
         /\ served' = served /\ origin' = origin
PROOF
<1> USE DEF FlightInv, FlightTypeOK
<1>1. client[c] # "waits" BY DEF Ask
<1>2. \A d \in Clients : flight[d] # None => c \notin flight[d].members
  BY <1>1 DEF Sound, FlightSound
<1>3. flight[c] = None BY <1>2 DEF Sound, FlightSound
<1>4. client' = [client EXCEPT ![c] = "waits"] /\ key' = [key EXCEPT ![c] = k]
      /\ floor' = [floor EXCEPT ![c] = served[k]] /\ result' = [result EXCEPT ![c] = None]
      /\ served' = served /\ origin' = origin
  BY DEF Ask
<1> QED BY <1>2, <1>3, <1>4

\* A request leads the flight for its key, or joins it.
LEMMA RequestInv ==
  ASSUME FlightInv, NEW c \in Clients, NEW k \in Keys, Request(c, k)
  PROVE  FlightInv'
PROOF
<1>0. Ask(c, k) BY DEF Request
<1>1. /\ flight[c] = None
      /\ \A d \in Clients : flight[d] # None => c \notin flight[d].members
      /\ client'[c] = "waits" /\ key'[c] = k
      /\ \A d \in Clients \ {c} : /\ client'[d] = client[d] /\ key'[d] = key[d]
                                  /\ result'[d] = result[d]
      /\ client' \in [Clients -> {"idle", "waits", "answered"}] /\ key' \in [Clients -> Keys]
      /\ result' \in [Clients -> Response \cup {None, Failed}]
      /\ floor' \in [Clients -> 0 .. MaxVersion]
      /\ served' = served /\ origin' = origin
  BY <1>0, AskEffect
<1>2. /\ flight \in [Clients -> Flight \cup {None}] /\ sgr \in [Keys -> Clients \cup {None}]
      /\ None \notin Clients /\ None \notin Flight
      /\ \A d \in Clients : key[d] \in Keys
  BY DEF FlightInv, FlightTypeOK, FlightAssumption
<1>3. \A d \in Clients : flight[d] # None => FlightSound(d) BY DEF FlightInv, Sound
<1>4. \A j \in Keys : sgr[j] # None =>
        sgr[j] \in Clients /\ flight[sgr[j]] # None /\ key[sgr[j]] = j /\ sgr[j] # c
  BY <1>1, <1>2 DEF FlightInv, Sound
<1>5. \A d \in Clients : client[d] = "waits" =>
        sgr[key[d]] # None /\ d \in flight[sgr[key[d]]].members
  BY DEF FlightInv, Sound
<1>6. \A d \in Clients : client'[d] = "answered" => result'[d] \in Response \cup {Failed}
  BY <1>1 DEF FlightInv, Sound
<1>7. CASE sgr[k] = None
  <2>1. /\ sgr' = [sgr EXCEPT ![k] = c]
        /\ flight' = [flight EXCEPT ![c] = NewFlight(c)]
    BY <1>7 DEF Request
  <2>2. NewFlight(c) \in Flight BY DEF NewFlight, Flight
  <2>3. /\ sgr'[k] = c /\ \A j \in Keys \ {k} : sgr'[j] = sgr[j]
        /\ flight'[c] = NewFlight(c) /\ flight'[c] # None
        /\ \A d \in Clients \ {c} : flight'[d] = flight[d]
        /\ sgr' \in [Keys -> Clients \cup {None}]
        /\ flight' \in [Clients -> Flight \cup {None}]
    BY <1>2, <2>1, <2>2
  <2>4. FlightTypeOK' BY <1>1, <2>3 DEF FlightInv, FlightTypeOK
  <2>5. ASSUME NEW d \in Clients, flight'[d] # None PROVE FlightSound(d)'
    <3>1. CASE d = c BY <1>1, <2>3, <3>1 DEF FlightSound, NewFlight
    <3>2. CASE d # c
      <4>1. FlightSound(d) /\ c \notin flight[d].members /\ flight'[d] = flight[d]
        BY <1>1, <1>3, <2>3, <2>5, <3>2
      <4>2. flight[d].members \subseteq Clients \ {c} BY <1>2, <2>5, <3>2, <4>1, <2>3 DEF Flight
      <4>3. key[d] # k BY <1>2, <1>7, <3>2, <4>1 DEF FlightSound
      <4> QED BY <1>1, <1>2, <2>3, <3>2, <4>1, <4>2, <4>3 DEF FlightSound
    <3> QED BY <3>1, <3>2
  <2>6. \A j \in Keys : sgr'[j] # None => flight'[sgr'[j]] # None /\ key'[sgr'[j]] = j
    BY <1>1, <1>4, <2>3
  <2>7. \A d \in Clients : client'[d] = "waits" =>
          sgr'[key'[d]] # None /\ d \in flight'[sgr'[key'[d]]].members
    <3>1. ASSUME NEW d \in Clients \ {c}, client'[d] = "waits"
          PROVE  sgr'[key'[d]] # None /\ d \in flight'[sgr'[key'[d]]].members
      <4>1. sgr[key[d]] # None /\ d \in flight[sgr[key[d]]].members /\ key[d] # k /\ key[d] \in Keys
        BY <1>1, <1>2, <1>5, <1>7, <3>1
      <4>2. sgr[key[d]] \in Clients \ {c} BY <1>4, <4>1
      <4> QED BY <1>1, <2>3, <4>1, <4>2
    <3>2. sgr'[key'[c]] # None /\ c \in flight'[sgr'[key'[c]]].members
      BY <1>1, <1>2, <2>3 DEF NewFlight
    <3> QED BY <3>1, <3>2
  <2>8. Sound' BY <1>6, <2>5, <2>6, <2>7 DEF Sound
  <2> QED BY <2>4, <2>8 DEF FlightInv, FlightAssumption, Response, Flight, Directive
<1>8. CASE sgr[k] # None
  <2> DEFINE s == sgr[k]
             joined == [at |-> flight[s].at, resp |-> flight[s].resp,
                        members |-> flight[s].members \cup {c}]
  <2>1. s \in Clients /\ s # c /\ flight[s] # None /\ key[s] = k BY <1>4, <1>8
  <2>2. flight[s] \in Flight /\ joined \in Flight /\ joined # None
    <3>1. flight[s] \in Flight BY <1>2, <2>1
    <3> QED BY <1>2, <2>1, <3>1 DEF Flight
  <2>3. flight' = [flight EXCEPT ![s] = joined] /\ sgr' = sgr
    <3>1. flight' = [flight EXCEPT ![s].members = @ \cup {c}] /\ sgr' = sgr
      BY <1>8 DEF Request
    <3>2. [flight[s] EXCEPT !.members = @ \cup {c}] = joined BY <2>2 DEF Flight
    <3> HIDE DEF joined
    <3> QED BY <1>2, <2>1, <3>1, <3>2
  <2>4. /\ flight'[s] = joined
        /\ \A d \in Clients \ {s} : flight'[d] = flight[d]
        /\ flight' \in [Clients -> Flight \cup {None}]
    BY <1>2, <2>1, <2>2, <2>3
  <2>5. /\ joined.at = flight[s].at /\ joined.resp = flight[s].resp
        /\ joined.members = flight[s].members \cup {c}
    OBVIOUS
  <2> HIDE DEF joined, s
  <2>6. FlightTypeOK' BY <1>1, <2>3, <2>4 DEF FlightInv, FlightTypeOK
  <2>7. ASSUME NEW d \in Clients, flight'[d] # None PROVE FlightSound(d)'
    <3>1. flight[d] # None BY <2>1, <2>4, <2>7
    <3>2. FlightSound(d) /\ c \notin flight[d].members /\ d # c BY <1>1, <1>3, <3>1
    <3>3. flight[d].members \subseteq Clients \ {c} BY <1>2, <3>1, <3>2 DEF Flight
    <3>4. CASE d = s
      <4>1. /\ sgr'[key'[d]] = d
            /\ d \in flight'[d].members
            /\ flight'[d].at = "set" => flight'[d].resp \in Response
            /\ flight'[d].at = "return" => flight'[d].resp \in Response \cup {Failed}
        BY <1>1, <2>3, <2>4, <2>5, <3>2, <3>4 DEF FlightSound
      <4>2. \A e \in flight'[d].members : client'[e] = "waits" /\ key'[e] = key'[d]
        BY <1>1, <2>1, <2>4, <2>5, <3>2, <3>3, <3>4 DEF FlightSound
      <4> QED BY <4>1, <4>2 DEF FlightSound
    <3>5. CASE d # s BY <1>1, <2>3, <2>4, <3>2, <3>3, <3>5 DEF FlightSound
    <3> QED BY <3>4, <3>5
  <2>8. \A j \in Keys : sgr'[j] # None => flight'[sgr'[j]] # None /\ key'[sgr'[j]] = j
    BY <1>1, <1>4, <2>2, <2>3, <2>4
  <2>9. \A d \in Clients : client'[d] = "waits" =>
          sgr'[key'[d]] # None /\ d \in flight'[sgr'[key'[d]]].members
    <3>1. ASSUME NEW d \in Clients \ {c}, client'[d] = "waits"
          PROVE  sgr'[key'[d]] # None /\ d \in flight'[sgr'[key'[d]]].members
      <4>1. sgr[key[d]] # None /\ d \in flight[sgr[key[d]]].members /\ key[d] \in Keys
        BY <1>1, <1>2, <1>5, <3>1
      <4>2. sgr[key[d]] \in Clients BY <1>4, <4>1
      <4> QED BY <1>1, <2>3, <2>4, <2>5, <4>1, <4>2
    <3>2. sgr'[key'[c]] # None /\ c \in flight'[sgr'[key'[c]]].members
      BY <1>1, <1>8, <2>3, <2>4, <2>5 DEF s
    <3> QED BY <3>1, <3>2
  <2>10. Sound' BY <1>6, <2>7, <2>8, <2>9 DEF Sound
  <2> QED BY <2>6, <2>10 DEF FlightInv, FlightAssumption, Response, Flight, Directive
<1> QED BY <1>7, <1>8

\* The end of a flight: its members, who have all asked for the leader's key, have their
\* result, the key is free, and the others go on.
LEMMA ReturnsEffect ==
  ASSUME FlightInv, NEW c \in Clients, FlightReturns(c)
  PROVE  /\ flight[c] # None /\ flight[c].at = "return" /\ flight[c].resp \in Response \cup {Failed}
         /\ flight'[c] = None /\ \A d \in Clients \ {c} : flight'[d] = flight[d]
         /\ sgr'[key[c]] = None /\ \A k \in Keys \ {key[c]} : sgr'[k] = sgr[k]
         /\ \A d \in Clients : IF d \in flight[c].members
              THEN client[d] = "waits" /\ key[d] = key[c]
                   /\ client'[d] = "answered" /\ result'[d] = flight[c].resp
              ELSE client'[d] = client[d] /\ result'[d] = result[d]
         /\ key' = key /\ floor' = floor /\ origin' = origin
         /\ \A k \in Keys \ {key[c]} : served'[k] = served[k]
         /\ flight[c].resp = Failed => served'[key[c]] = served[key[c]]
         /\ flight[c].resp # Failed =>
              served'[key[c]] = IF flight[c].resp.version > served[key[c]]
                                THEN flight[c].resp.version ELSE served[key[c]]
         /\ FlightTypeOK'
PROOF
<1>1. /\ flight[c] # None /\ flight[c].at = "return" /\ FlightSound(c)
      /\ flight[c] \in Flight /\ None \notin Flight /\ key[c] \in Keys
  BY DEF FlightReturns, InFlight, FlightInv, FlightTypeOK, FlightAssumption, Sound
<1>2. flight[c].resp \in Response \cup {Failed} /\ flight[c].members \subseteq Clients
  BY <1>1 DEF FlightSound, Flight
<1>3. /\ client' = [d \in Clients |-> IF d \in flight[c].members THEN "answered" ELSE client[d]]
      /\ result' = [d \in Clients |-> IF d \in flight[c].members THEN flight[c].resp ELSE result[d]]
      /\ served' = IF flight[c].resp # Failed /\ flight[c].resp.version > served[key[c]]
                   THEN [served EXCEPT ![key[c]] = flight[c].resp.version] ELSE served
      /\ sgr' = [sgr EXCEPT ![key[c]] = None]
      /\ flight' = [flight EXCEPT ![c] = None]
      /\ key' = key /\ floor' = floor /\ origin' = origin
  BY DEF FlightReturns, Deliver
<1>4. \A d \in flight[c].members : client[d] = "waits" /\ key[d] = key[c]
  BY <1>1 DEF FlightSound
<1>5. /\ flight'[c] = None /\ \A d \in Clients \ {c} : flight'[d] = flight[d]
      /\ sgr'[key[c]] = None /\ \A k \in Keys \ {key[c]} : sgr'[k] = sgr[k]
      /\ flight' \in [Clients -> Flight \cup {None}] /\ sgr' \in [Keys -> Clients \cup {None}]
  BY <1>1, <1>3 DEF FlightInv, FlightTypeOK
<1>6. flight[c].resp # Failed => flight[c].resp.version \in 0 .. MaxVersion
  BY <1>2 DEF Response
<1>7. /\ \A k \in Keys \ {key[c]} : served'[k] = served[k]
      /\ flight[c].resp = Failed => served'[key[c]] = served[key[c]]
      /\ flight[c].resp # Failed =>
           served'[key[c]] = IF flight[c].resp.version > served[key[c]]
                             THEN flight[c].resp.version ELSE served[key[c]]
      /\ served' \in [Keys -> 0 .. MaxVersion]
  <2>1. served \in [Keys -> 0 .. MaxVersion] BY DEF FlightInv, FlightTypeOK
  <2>2. CASE flight[c].resp # Failed /\ flight[c].resp.version > served[key[c]]
    <3>1. served' = [served EXCEPT ![key[c]] = flight[c].resp.version] BY <1>3, <2>2
    <3> QED BY <1>1, <1>6, <2>1, <2>2, <3>1
  <2>3. CASE ~(flight[c].resp # Failed /\ flight[c].resp.version > served[key[c]])
    <3>1. served' = served BY <1>3, <2>3
    <3> QED BY <1>1, <2>1, <2>3, <3>1
  <2> QED BY <2>2, <2>3
<1>8. /\ client' \in [Clients -> {"idle", "waits", "answered"}]
      /\ result' \in [Clients -> Response \cup {None, Failed}]
  BY <1>2, <1>3 DEF FlightInv, FlightTypeOK
<1>9. FlightTypeOK' BY <1>3, <1>5, <1>7, <1>8 DEF FlightInv, FlightTypeOK
<1>10. \A d \in Clients : IF d \in flight[c].members
         THEN client[d] = "waits" /\ key[d] = key[c]
              /\ client'[d] = "answered" /\ result'[d] = flight[c].resp
         ELSE client'[d] = client[d] /\ result'[d] = result[d]
  BY <1>3, <1>4
<1> QED BY <1>1, <1>2, <1>3, <1>5, <1>7, <1>9, <1>10

\* A flight that ends leaves nobody waiting for it, and those of other keys alone.
LEMMA ReturnsInv ==
  ASSUME FlightInv, NEW c \in Clients, FlightReturns(c)
  PROVE  FlightInv'
PROOF
<1>1. /\ flight[c] # None /\ flight[c].resp \in Response \cup {Failed}
      /\ flight'[c] = None /\ \A d \in Clients \ {c} : flight'[d] = flight[d]
      /\ sgr'[key[c]] = None /\ \A k \in Keys \ {key[c]} : sgr'[k] = sgr[k]
      /\ \A d \in Clients : IF d \in flight[c].members
           THEN client[d] = "waits" /\ key[d] = key[c]
                /\ client'[d] = "answered" /\ result'[d] = flight[c].resp
           ELSE client'[d] = client[d] /\ result'[d] = result[d]
      /\ key' = key
      /\ FlightTypeOK'
  BY ReturnsEffect
<1>2. /\ \A d \in Clients : flight[d] # None => FlightSound(d)
      /\ \A k \in Keys : sgr[k] # None => sgr[k] \in Clients /\ flight[sgr[k]] # None /\ key[sgr[k]] = k
      /\ \A d \in Clients : client[d] = "waits" =>
           sgr[key[d]] # None /\ d \in flight[sgr[key[d]]].members
      /\ \A d \in Clients : key[d] \in Keys
      /\ \A d \in Clients : flight[d] # None => flight[d].members \subseteq Clients
  BY DEF FlightInv, FlightTypeOK, Sound, Flight
<1>3. ASSUME NEW d \in Clients, flight'[d] # None PROVE FlightSound(d)'
  <2>1. d # c /\ flight[d] # None /\ flight'[d] = flight[d] BY <1>1, <1>3
  <2>2. FlightSound(d) /\ FlightSound(c) BY <1>1, <1>2, <2>1
  <2>3. key[d] # key[c] BY <2>1, <2>2 DEF FlightSound
  <2>4. \A e \in flight[d].members : e \in Clients /\ e \notin flight[c].members
    BY <1>2, <2>1, <2>2, <2>3 DEF FlightSound
  <2> QED BY <1>1, <1>2, <2>1, <2>2, <2>3, <2>4 DEF FlightSound
<1>4. \A k \in Keys : sgr'[k] # None => flight'[sgr'[k]] # None /\ key'[sgr'[k]] = k
  BY <1>1, <1>2
<1>5. ASSUME NEW d \in Clients, client'[d] = "waits"
      PROVE  sgr'[key'[d]] # None /\ d \in flight'[sgr'[key'[d]]].members
  <2>1. d \notin flight[c].members /\ client[d] = "waits" BY <1>1, <1>5
  <2>2. sgr[key[d]] # None /\ d \in flight[sgr[key[d]]].members /\ sgr[key[d]] # c
        /\ sgr[key[d]] \in Clients
    BY <1>2, <2>1
  <2>3. key[d] # key[c] BY <1>1, <1>2, <2>2 DEF FlightSound
  <2> QED BY <1>1, <1>2, <2>2, <2>3
<1>6. \A d \in Clients : client'[d] = "answered" => result'[d] \in Response \cup {Failed}
  BY <1>1 DEF FlightInv, Sound
<1>7. Sound' BY <1>3, <1>4, <1>5, <1>6 DEF Sound
<1> QED BY <1>1, <1>7 DEF FlightInv, FlightAssumption, Response, Flight, Directive

\* What the origin answers is a response.
LEMMA AnswerOfOrigin ==
  ASSUME FlightInv, NEW c \in Clients, NEW header \in CacheControls
  PROVE  [version |-> origin[key[c]], header |-> header] \in Response
PROOF BY DEF FlightInv, FlightTypeOK, Response

\* What happens outside the store keeps flights and clients together.
LEMMA OutsideInv ==
  ASSUME FlightInv, Around \/ \E c \in Clients : FliesOutside(c)
  PROVE  FlightInv'
PROOF
<1>1. ASSUME NEW c \in Clients, NEW k \in Keys, Request(c, k) PROVE FlightInv'
  BY <1>1, RequestInv
<1>2. ASSUME NEW k \in Keys, OriginChanges(k) PROVE FlightInv'
  <2>1. /\ UNCHANGED <<client, key, result, floor, served, sgr, flight>>
        /\ origin' = [origin EXCEPT ![k] = @ + 1] /\ origin[k] < MaxVersion
    BY <1>2 DEF OriginChanges, clientVars
  <2>2. origin' \in [Keys -> 0 .. MaxVersion]
    <3>1. origin[k] + 1 \in 0 .. MaxVersion BY <2>1 DEF FlightInv, FlightTypeOK, FlightAssumption
    <3> QED BY <2>1, <3>1 DEF FlightInv, FlightTypeOK
  <2>3. Sound' BY <2>1 DEF FlightInv, Sound, FlightSound
  <2>4. FlightTypeOK' BY <2>1, <2>2 DEF FlightInv, FlightTypeOK
  <2> QED BY <2>3, <2>4 DEF FlightInv, FlightAssumption, Response, Flight, Directive
<1>3. ASSUME NEW c \in Clients, FlightReturns(c) PROVE FlightInv' BY <1>3, ReturnsInv
<1>4. ASSUME NEW c \in Clients, FlightFetchFails(c) PROVE FlightInv'
  BY <1>4, ProceedsInv DEF FlightFetchFails, InFlight
<1>5. ASSUME NEW c \in Clients, NEW header \in CacheControls, FlightFetches(c, header)
      PROVE  FlightInv'
  <2> DEFINE resp == [version |-> origin[key[c]], header |-> header]
  <2>1. resp \in Response BY AnswerOfOrigin
  <2>2. flight[c] # None /\ (Proceeds(c, "set", resp) \/ Proceeds(c, "return", resp))
    BY <1>5 DEF FlightFetches, InFlight
  <2> HIDE DEF resp
  <2> QED BY <2>1, <2>2, ProceedsInv
<1> QED BY <1>1, <1>2, <1>3, <1>4, <1>5 DEF Around, FliesOutside

\* So does what the store answers.
LEMMA StoreInv ==
  ASSUME FlightInv, NEW c \in Clients,
         \/ \E data \in Response \cup {None, Failed} : FlightGets(c, data)
         \/ FlightGetFails(c) \/ FlightSets(c)
  PROVE  FlightInv'
PROOF
<1>1. ASSUME NEW data \in Response \cup {None, Failed}, FlightGets(c, data) PROVE FlightInv'
  BY <1>1, ProceedsInv DEF FlightGets, InFlight
<1>2. CASE FlightGetFails(c) BY <1>2, ProceedsInv DEF FlightGetFails, InFlight
<1>3. CASE FlightSets(c)
  <2>1. flight[c] # None /\ flight[c].resp \in Response
    BY <1>3 DEF FlightSets, InFlight, FlightInv, Sound, FlightSound
  <2> QED BY <1>3, <2>1, ProceedsInv DEF FlightSets
<1> QED BY <1>1, <1>2, <1>3
=============================================================================
