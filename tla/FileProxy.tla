------------------------------ MODULE FileProxy ------------------------------
(***************************************************************************)
(* The reverse proxy over a shard of the cache in files: the flights of    *)
(* Flights call Get and Set of FileShard, as main wires them               *)
(* (src/initial/inbox_handler/revers.go, src/initial/stores/               *)
(* cach_file_store.go).  Nothing under src/ calls Delete or                *)
(* StartCompactization but the tests, so that the shard's other actor is   *)
(* the goroutine that deletes expired records.                             *)
(*                                                                         *)
(* Other than the memory store's, a read may fail, may find bytes that are *)
(* not a response, and does not look at the expiration; and what is stored *)
(* outlives the process, which may end at any time and start anew.         *)
(***************************************************************************)
EXTENDS FileShard

CONSTANTS Clients, CacheControls, MaxVersion, IntMax, Second, Failed,
  TimeDel,  \* fcs.timeDel: the default lifetime
  ReloadFor \* 20 minutes: the lifetime a start gives to what it finds

VARIABLES client, key, result, sgr, flight, origin, served, floor,
  behind  \* history: keys with a read that failed since they were last stored

flightVars == <<client, key, result, sgr, flight, origin, served, floor>>
proxyVars  == <<vars, flightVars, behind>>

INSTANCE Flights

ASSUME FileProxyAssumption == FlightAssumption /\ TimeDel \in Nat /\ ReloadFor \in Nat
                               /\ Response \subseteq Values

-----------------------------------------------------------------------------
FileProxyInit == Init /\ FlightInit /\ behind = {}

\* What the flight gets out of the cache; bytes that are no response make it fail.
Parsed(data) == IF data = Garbage THEN Failed ELSE data

GetsFromFile(c) ==
  /\ LockFree
  /\ FlightGets(c, Parsed(Get(key[c])))
  /\ UNCHANGED <<vars, behind>>

\* ReadAt fails: the flight fetches, and does not store what it gets.
ReadFails(c) ==
  /\ LockFree /\ FailBytes # {} /\ Found(key[c]) # None
  /\ FlightGetFails(c)
  /\ behind' = behind \cup {key[c]}
  /\ UNCHANGED vars

\* Set writes or fails, and then index[key[c]] says which.
Stores(c, resp) ==
  /\ Set(key[c], resp, now + Kept(resp, TimeDel))
  /\ behind' = IF index'[key[c]] # index[key[c]] THEN behind \ {key[c]} ELSE behind

\* Set returns MemoryLimit, which is only logged.
Refused(resp) == LockFree /\ ActiveFile.size + RecSize[resp] > MaxSize

SetsInFile(c) ==
  LET resp == flight[c].resp
  IN  /\ FlightSets(c)
      /\ IF Kept(resp, TimeDel) = None THEN UNCHANGED <<vars, behind>>
         ELSE Stores(c, resp) \/ (Refused(resp) /\ UNCHANGED <<vars, behind>>)

-----------------------------------------------------------------------------
(* The process ends, by a shutdown or a crash, and is started on its file *)

\* The requests under way get no answer.
FlightsLost ==
  /\ client' = [c \in Clients |-> IF client[c] = "waits" THEN "idle" ELSE client[c]]
  /\ sgr' = [k \in Keys |-> None] /\ flight' = [c \in Clients |-> None]
  /\ UNCHANGED <<key, result, origin, served, floor>>

\* What a start reads for k: the last record of the key, if it is live.
Reloaded(k) == {r \in file.recs : r.key = k /\ IsLast(r, file) /\ ~r.del}

\* Mutant: the start indexes what it reads, tombstones included.
Restarts_IgnoresTombstones ==
  /\ ~torn
  /\ FlightsLost
  /\ file' = [file EXCEPT !.size = file.end]
  /\ index' = [k \in Keys |->
       LET found == {r \in file.recs : r.key = k /\ IsLast(r, file)}
       IN  IF found = {} THEN None
           ELSE LET r == CHOOSE r \in found : TRUE
                IN  [off |-> r.off, exp |-> now + ReloadFor, len |-> RecSize[r.val]]]
  /\ deleter' = "idle" /\ sweepLeft' = {}
  /\ UNCHANGED <<fileComp, torn, indexComp, isActiveComp, triggerComp, compVars, now, lifeVars,
                 behind>>

\* The counter is the size of the file, and the index is read from it.  Files with bytes
\* of failed writes, and the choice among several files, are for Restart.
Restarts ==
  /\ ~torn
  /\ FlightsLost
  /\ file' = [file EXCEPT !.size = file.end]
  /\ index' = [k \in Keys |->
       IF Reloaded(k) = {} THEN None
       ELSE LET r == CHOOSE r \in Reloaded(k) : TRUE
            IN  [off |-> r.off, exp |-> now + ReloadFor, len |-> RecSize[r.val]]]
  /\ deleter' = "idle" /\ sweepLeft' = {}
  /\ UNCHANGED <<fileComp, torn, indexComp, isActiveComp, triggerComp, compVars, now, lifeVars,
                 behind>>

-----------------------------------------------------------------------------
FileFlies(c) ==
  \/ GetsFromFile(c) \/ ReadFails(c) \/ SetsInFile(c)
  \/ FliesOutside(c) /\ UNCHANGED <<vars, behind>>

FileProxyNext ==
  \/ \E c \in Clients : FileFlies(c)
  \/ Around /\ UNCHANGED <<vars, behind>>
  \/ (Deleter \/ Tick) /\ UNCHANGED <<flightVars, behind>>
  \/ Restarts

FileProxySpec == FileProxyInit /\ [][FileProxyNext]_proxyVars

-----------------------------------------------------------------------------
(* Properties *)

\* No request gets an older version than one that was answered before it was sent, unless
\* a read of its key has failed since the key was stored (the flight that could not read
\* has let its members see what the cache does not have), or a failed write has shifted
\* the file.  Expiry, refused and failing Sets, the sweep and a new start of the process
\* do not take a client back.
NoGoingBackInFiles ==
  [][\A c \in Clients :
       client[c] = "waits" /\ client'[c] = "answered" /\ key[c] \notin behind /\ ~torn
         => NotTakenBack(c)']_proxyVars

\* A Set by way of a flight finds no entry for its key: what the flight did not find when
\* it read, nobody stores before it does.  So a Set never has to bury an old record, and
\* one that fails costs no response that was there.
SetsAreFirst ==
  \A c \in Clients : InFlight(c, "set") => ActiveIndex[key[c]] = None

\* What the shard counts of its file stays within twice the limit, and so does the file
\* itself as long as no failed write has left bytes in it: every record was within the
\* limit when it was written, and has one tombstone at most, over all the lives of the
\* process.
TwiceTheLimit == file.size <= 2 * MaxSize /\ (~torn => file.end <= 2 * MaxSize)
=============================================================================
