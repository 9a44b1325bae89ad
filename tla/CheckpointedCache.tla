-------------------------- MODULE CheckpointedCache --------------------------
(***************************************************************************)
(* What a caller of a file shard may rely on, with no file, no offsets and *)
(* no goroutines: a map from keys to a value and its expiration, in which  *)
(*   - a read returns what was put last, or nothing;                       *)
(*   - an entry goes away by itself only when it has expired, and then     *)
(*     outside a compaction;                                               *)
(*   - a compaction changes no entry, whatever callers do meanwhile, but   *)
(*     it is a checkpoint: one that fails takes back every put made since  *)
(*     it began;                                                           *)
(*   - a removal made during a compaction only uncovers the entry of the   *)
(*     checkpoint, and the compaction may then drop it ("lost") or not.    *)
(* A file shard implements this module (FileShard!RefinesCache), and so    *)
(* does the memory store, which has no compaction (ReversProxy!RefinesCache). *)
(***************************************************************************)
EXTENDS Integers

CONSTANTS Keys, Values, Expirations, None

VARIABLES
  store,  \* what a read returns: [val, exp] or None
  saved,  \* the entries at the start of the running compaction
  lost,   \* keys removed during it that it will not carry over
  phase,  \* "open", "compacting", or "doomed": it is going to be rolled back
  now

vars == <<store, saved, lost, phase, now>>

Item    == [val : Values, exp : Expirations]
Empty   == [k \in Keys |-> None]

Init == store = Empty /\ saved = Empty /\ lost = {} /\ phase = "open" /\ now = 0

Put(k, item) ==
  /\ item \in Item
  /\ UNCHANGED <<now, phase, saved>>
  /\ store' = [store EXCEPT ![k] = item]
  /\ lost' = lost \ {k}

Remove(k) ==
  /\ store[k] # None
  /\ UNCHANGED <<now, phase, saved>>
  /\ store' = [store EXCEPT ![k] = saved[k]]
  /\ \/ lost' = lost
     \/ phase = "compacting" /\ saved[k] # None /\ lost' = lost \cup {k}

Expire(k) ==
  /\ phase = "open"
  /\ store[k] # None /\ store[k].exp < now
  /\ store' = [store EXCEPT ![k] = None]
  /\ UNCHANGED <<saved, lost, phase, now>>

BeginCompaction ==
  /\ phase = "open"
  /\ phase' = "compacting" /\ saved' = store
  /\ UNCHANGED <<store, lost, now>>

Commit ==
  /\ phase = "compacting" /\ phase' = "open"
  /\ store' = [k \in Keys |-> IF k \in lost THEN None ELSE store[k]]
  /\ saved' = Empty /\ lost' = {}
  /\ UNCHANGED now

Doom ==
  /\ phase = "compacting"
  /\ phase' = "doomed" /\ lost' = {}
  /\ UNCHANGED <<store, saved, now>>

Abort ==
  /\ phase = "doomed" /\ phase' = "open"
  /\ store' = saved /\ saved' = Empty
  /\ UNCHANGED <<lost, now>>

Tick == now' = now + 1 /\ UNCHANGED <<phase, store, saved, lost>>

\* What callers do, and what the cache does by itself.
Calls    == \E k \in Keys : Remove(k) \/ Put(k, store'[k])
Internal == Tick \/ BeginCompaction \/ Commit \/ Doom \/ Abort \/ \E k \in Keys : Expire(k)

Next == Internal \/ Calls

Spec == Init /\ [][Next]_vars
=============================================================================
