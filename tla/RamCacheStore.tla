---------------------------- MODULE RamCacheStore ----------------------------
(***************************************************************************)
(* The cache in memory (src/initial/stores/cach_ram_store.go): maps in     *)
(* shards, each under its RWMutex, and a goroutine that sweeps the expired *)
(* items out of one shard after the other.                                 *)
(*                                                                         *)
(* A step is a critical section of a shard's mutex.  The module has no     *)
(* specification of its own: ReversProxy calls its operations and lets its *)
(* goroutine run.  Del is left out: nothing calls it.                      *)
(***************************************************************************)
EXTENDS Integers

CONSTANTS
  Keys,
  ShardOf,   \* ShardOf[k]: the shard of a key
  QtShards,
  TimeDel,   \* rcs.timeDel: the default lifetime, and the period of the sweep
  MaxTime,   \* bound: the clock stops here
  None       \* no item

ASSUME RamAssumption ==
  /\ QtShards \in Nat \ {0} /\ ShardOf \in [Keys -> 0 .. QtShards - 1]
  /\ TimeDel \in Nat \ {0} /\ MaxTime \in Nat

VARIABLES
  dataStack, \* dataStack[k]: [Data, Expiration] or None
  shard,     \* the shard the sweep is at; QtShards between two sweeps
  scanned,   \* this shard has been scanned
  forDel,    \* the keys found so far, never emptied during a sweep
  left,      \* those DelWithCheckExp has still to be called for
  sweepNow,  \* the sweep's now
  nextTick,  \* when the ticker has something for the sweep
  now

sweepVars == <<shard, scanned, forDel, left, sweepNow, nextTick>>

RamInit ==
  /\ dataStack = [k \in Keys |-> None]
  /\ shard = QtShards /\ scanned = FALSE /\ forDel = {} /\ left = {}
  /\ sweepNow = 0 /\ nextTick = TimeDel
  /\ now = 0

-----------------------------------------------------------------------------
(* The operations *)

SetWithExp(k, data, exp) ==
  dataStack' = [dataStack EXCEPT ![k] = [Data |-> data, Expiration |-> now + exp]]

Set(k, data) == SetWithExp(k, data, TimeDel)

Dead(k, t) == dataStack[k] # None /\ t > dataStack[k].Expiration

Get(k) == IF dataStack[k] = None \/ Dead(k, now) THEN None ELSE dataStack[k].Data

\* Mutant: the item is deleted without another look at it.
DelWithCheckExp_Unchecked(k) == dataStack' = [dataStack EXCEPT ![k] = None]

DelWithCheckExp(k) ==
  dataStack' = IF Dead(k, now) THEN [dataStack EXCEPT ![k] = None] ELSE dataStack

-----------------------------------------------------------------------------
(* DelExpiration *)

SweepBegins ==
  /\ shard = QtShards /\ now >= nextTick
  /\ shard' = 0 /\ forDel' = {} /\ sweepNow' = now
  /\ nextTick' = (now \div TimeDel + 1) * TimeDel
  /\ UNCHANGED <<dataStack, scanned, left, now>>

\* Mutant: the loop goes one shard too far.
SweepScans_TooFar ==
  /\ shard <= QtShards /\ ~scanned
  /\ forDel' = forDel \cup {k \in Keys : ShardOf[k] = shard /\ Dead(k, sweepNow)}
  /\ left' = forDel'
  /\ scanned' = TRUE
  /\ UNCHANGED <<dataStack, shard, sweepNow, nextTick, now>>

SweepScans ==
  /\ shard < QtShards /\ ~scanned
  /\ forDel' = forDel \cup {k \in Keys : ShardOf[k] = shard /\ Dead(k, sweepNow)}
  /\ left' = forDel'
  /\ scanned' = TRUE
  /\ UNCHANGED <<dataStack, shard, sweepNow, nextTick, now>>

SweepDeletes(k) ==
  /\ scanned /\ k \in left
  /\ DelWithCheckExp(k)
  /\ left' = left \ {k}
  /\ UNCHANGED <<shard, scanned, forDel, sweepNow, nextTick, now>>

\* Mutant: the loop over the shards ends with the first.
SweepMovesOn_FirstOnly ==
  /\ scanned /\ left = {}
  /\ shard' = QtShards /\ scanned' = FALSE
  /\ UNCHANGED <<dataStack, forDel, left, sweepNow, nextTick, now>>

SweepMovesOn ==
  /\ scanned /\ left = {}
  /\ shard' = shard + 1 /\ scanned' = FALSE
  /\ UNCHANGED <<dataStack, forDel, left, sweepNow, nextTick, now>>

Sweep == SweepBegins \/ SweepScans \/ SweepMovesOn \/ \E k \in Keys : SweepDeletes(k)
=============================================================================
