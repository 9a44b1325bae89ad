------------------------------ MODULE FileShard ------------------------------
(***************************************************************************)
(* One shard of the file cache (src/initial/stores/file_shard.go): an      *)
(* append-only file, an index from keys to positions in it, a goroutine    *)
(* that deletes expired records and a goroutine that compacts the file     *)
(* into a new one while requests go on being served.                       *)
(*                                                                         *)
(* A step of the model is a critical section of the shard's RWMutex; the   *)
(* two goroutines are several steps long and interleave with the callers.  *)
(* Only DeleteExp keeps the lock over several steps of the model (one per  *)
(* tombstone): the others wait for "lock free" meanwhile.                  *)
(*                                                                         *)
(* Abstractions.  The content of a file is the set of the records written  *)
(* to it, each with its offset; bytes that are not a whole record (the     *)
(* rest of a failed write, or garbage copied) are a gap in that set.       *)
(* Offsets and lengths are in units of the model: RecSize gives a record's *)
(* length.  Keys are all of one length.  Time is a clock of MaxTime ticks. *)
(***************************************************************************)
EXTENDS Integers

CONSTANTS
  Keys,        \* the keys that hash to this shard
  Values,      \* response bodies
  RecSize,     \* RecSize[v]: length of the record that holds v
  MaxSize,     \* fs.maxSize
  Expirations, \* the expiration times callers pass to Set
  MaxTime,     \* bound: the clock stops here
  FailBytes,   \* what a failing write may leave behind, in bytes; {} = disk never fails
  MaxEnd,      \* bound: no write fails so as to leave a file longer than this
  None,        \* no index entry, no value
  Garbage      \* bytes that are not the record that was asked for

LogRec == [off : Nat, key : Keys, val : Values, del : BOOLEAN]
File   == [recs : SUBSET LogRec, end : Nat, size : Nat]
Entry  == [off : Nat, exp : Int, len : Nat]
Carried == [key : Keys, rec : LogRec \cup {Garbage}]

ASSUME RecSizeAssumption == RecSize \in [Values -> Nat \ {0}]
ASSUME BoundsAssumption ==
  MaxSize \in Nat /\ MaxTime \in Nat /\ MaxEnd \in Nat /\ Expirations \subseteq Int
ASSUME FailBytesAssumption == FailBytes \subseteq Nat
ASSUME SentinelAssumption ==
  /\ None \notin Entry \cup Carried \cup Values \cup {Garbage} \cup [val : Values, exp : Int]
  /\ Garbage \notin LogRec \cup Values

VARIABLES
  file,         \* fs.file with fs.sizeFile
  fileComp,     \* fs.fileComp with fs.sizeFileComp; empty when there is none
  index,        \* fs.index
  indexComp,    \* fs.indexComp
  isActiveComp, \* fs.isActiveComp
  triggerComp,  \* fs.triggerComp holds a token
  compactor,    \* where the checkTrigger goroutine is
  snapshot,     \* snapshotKeys of the running compaction
  todo,         \* its keys not yet visited by the copy loop
  carried,      \* the record read under RLock and not yet written
  leakedRLock,  \* a panic left the read lock held for ever
  deleter,      \* where the StartDeleteExp goroutine is
  sweepLeft,    \* expired keys the running DeleteExp has still to delete
  now,          \* the clock
  ctxDone,      \* the run context is cancelled
  stopped,      \* Close has called stopFunc
  closed,       \* Close has returned
  torn          \* history: some failed write left bytes in a file

diskVars == <<file, fileComp, torn>>
mapVars  == <<index, indexComp, isActiveComp>>
compVars == <<compactor, snapshot, todo, carried, leakedRLock>>
delVars  == <<deleter, sweepLeft>>
lifeVars == <<ctxDone, stopped, closed>>
vars == <<diskVars, mapVars, triggerComp, compVars, delVars, now, lifeVars>>

-----------------------------------------------------------------------------
(* Files and records *)

EmptyFile  == [recs |-> {}, end |-> 0, size |-> 0]
EmptyIndex == [k \in Keys |-> None]

\* The length of what ReadAt returned for entry e.
Length(rec, e) == IF rec = Garbage THEN e.len ELSE RecSize[rec.val]

\* Mutant: the offset is taken after the length has been added.
Written_OffsetTooLate(f, k, v, d) ==
  [recs |-> f.recs \cup {[off |-> f.end - RecSize[v], key |-> k, val |-> v, del |-> d]},
   end  |-> f.end + RecSize[v],
   size |-> f.size + RecSize[v]]

\* O_APPEND puts the record at the physical end; the shard counts its length.
Written(f, k, v, d) ==
  [recs |-> f.recs \cup {[off |-> f.end, key |-> k, val |-> v, del |-> d]},
   end  |-> f.end + RecSize[v],
   size |-> f.size + RecSize[v]]

\* A failed write of n bytes: they are in the file and not in the counter.
Tear(f, n) == [f EXCEPT !.end = @ + n]

\* getRecord: the record whose bytes are exactly the ones e points to.
RecordsAt(f, e) == {r \in f.recs : r.off = e.off /\ RecSize[r.val] = e.len}
ReadAt(f, e) == IF RecordsAt(f, e) = {} THEN Garbage ELSE CHOOSE r \in RecordsAt(f, e) : TRUE

\* Write back a record that was read through entry e, with the delete flag d.
Rewrite(f, rec, e, d) ==
  IF rec = Garbage
  THEN [f EXCEPT !.end = @ + e.len, !.size = @ + e.len]
  ELSE Written(f, rec.key, rec.val, d)

\* A compaction's copy of such a record: the Delete byte is written as it was read.
CopyOf(f, rec, e) == Rewrite(f, rec, e, rec # Garbage /\ rec.del)

\* The write of a record of the given length to f may fail and leave n bytes.
MayFail(f, length, n) == n < length /\ f.end + n <= MaxEnd

-----------------------------------------------------------------------------
(* What the operations read and update *)

ActiveFile  == IF isActiveComp THEN fileComp ELSE file
ActiveIndex == IF isActiveComp THEN indexComp ELSE index

UpdateActive(f, idx) ==
  /\ IF isActiveComp
     THEN fileComp' = f /\ indexComp' = idx /\ UNCHANGED <<file, index>>
     ELSE file' = f /\ index' = idx /\ UNCHANGED <<fileComp, indexComp>>
  /\ UNCHANGED isActiveComp

FailActive(f, n) ==
  /\ UpdateActive(Tear(f, n), ActiveIndex)
  /\ torn' = (torn \/ n > 0)

LockFree == deleter # "sweep" /\ ~leakedRLock
Indexed(idx) == {k \in Keys : idx[k] # None}
\* Mutant: an entry is dead one tick late.
Expired_Late == {k \in Indexed(index) : now > index[k].exp + 1}

Expired == {k \in Indexed(index) : now > index[k].exp}

\* Get: the compaction's file first, the old file for what it has not got yet.
Found(k) == IF isActiveComp /\ indexComp[k] # None THEN indexComp[k] ELSE index[k]
FoundRecord(k) ==
  ReadAt(IF isActiveComp /\ indexComp[k] # None THEN fileComp ELSE file, Found(k))
Get(k) ==
  IF Found(k) = None THEN None
  ELSE IF FoundRecord(k) = Garbage THEN Garbage ELSE FoundRecord(k).val

-----------------------------------------------------------------------------
Init ==
  /\ file = EmptyFile /\ fileComp = EmptyFile
  /\ index = EmptyIndex /\ indexComp = EmptyIndex /\ isActiveComp = FALSE
  /\ triggerComp = FALSE
  /\ compactor = "idle" /\ snapshot = EmptyIndex /\ todo = {} /\ carried = None
  /\ leakedRLock = FALSE
  /\ deleter = "idle" /\ sweepLeft = {}
  /\ now = 0
  /\ ctxDone = FALSE /\ stopped = FALSE /\ closed = FALSE
  /\ torn = FALSE

-----------------------------------------------------------------------------
(* Callers: Set and Delete *)

\* Mutant: the tombstone is forgotten.
Buried_NoTombstone(f, old) == f

\* The file once the old record of k, if it has one, has got its tombstone.
Buried(f, old) == IF old = None THEN f ELSE Rewrite(f, ReadAt(f, old), old, TRUE)

\* Mutant: the offset is read before the tombstone is written.
SetWrites_StaleOffset(k, v, e) ==
  /\ UpdateActive(Written(Buried(ActiveFile, ActiveIndex[k]), k, v, FALSE),
        [ActiveIndex EXCEPT ![k] = [off |-> ActiveFile.size, exp |-> e, len |-> RecSize[v]]])
  /\ UNCHANGED torn

\* Mutant: the offset is read after the record has been written.
SetWrites_OffsetAfterWrite(k, v, e) ==
  LET f == Written(Buried(ActiveFile, ActiveIndex[k]), k, v, FALSE)
  IN  /\ UpdateActive(f,
            [ActiveIndex EXCEPT ![k] = [off |-> f.size, exp |-> e, len |-> RecSize[v]]])
      /\ UNCHANGED torn

SetWrites(k, v, e) ==
  LET g == Buried(ActiveFile, ActiveIndex[k])
  IN  /\ UpdateActive(Written(g, k, v, FALSE),
            [ActiveIndex EXCEPT ![k] = [off |-> g.size, exp |-> e, len |-> RecSize[v]]])
      /\ UNCHANGED torn

\* Nothing but the tombstone is attempted; the index keeps the old entry.
TombstoneFails(k, n) ==
  /\ ActiveIndex[k] # None
  /\ MayFail(ActiveFile, ActiveIndex[k].len, n)
  /\ FailActive(ActiveFile, n)

\* Mutant: the index is updated before the write, and not put back when it fails.
SetFailsOnRecord_IndexFirst(k, v, n) ==
  LET g == Buried(ActiveFile, ActiveIndex[k])
  IN  /\ MayFail(g, RecSize[v], n)
      /\ UpdateActive(Tear(g, n),
           [ActiveIndex EXCEPT ![k] = [off |-> g.size, exp |-> now, len |-> RecSize[v]]])
      /\ torn' = (torn \/ n > 0)

SetFailsOnRecord(k, v, n) ==
  LET g == Buried(ActiveFile, ActiveIndex[k])
  IN  MayFail(g, RecSize[v], n) /\ FailActive(g, n)

SetFails(k, v) == \E n \in FailBytes : TombstoneFails(k, n) \/ SetFailsOnRecord(k, v, n)

\* A Set that returns MemoryLimit, or that panics on a garbage record, changes nothing.
Set(k, v, e) ==
  /\ LockFree /\ ~closed
  /\ ActiveFile.size + RecSize[v] <= MaxSize
  /\ SetWrites(k, v, e) \/ SetFails(k, v)
  /\ UNCHANGED <<triggerComp, compVars, delVars, now, lifeVars>>

DeleteWrites(k) ==
  /\ UpdateActive(Buried(ActiveFile, ActiveIndex[k]), [ActiveIndex EXCEPT ![k] = None])
  /\ UNCHANGED torn

DeleteFails(k) == \E n \in FailBytes : TombstoneFails(k, n)

\* A Delete of a key the active index has not got returns LossOfRecording.
Delete(k) ==
  /\ LockFree /\ ~closed
  /\ ActiveIndex[k] # None
  /\ DeleteWrites(k) \/ DeleteFails(k)
  /\ UNCHANGED <<triggerComp, compVars, delVars, now, lifeVars>>

-----------------------------------------------------------------------------
(* The StartDeleteExp goroutine *)

\* Mutant: DeleteExp does not look at isActiveComp.
DeleteExpBegin_InCompaction ==
  /\ deleter = "idle" /\ LockFree
  /\ Expired # {}
  /\ deleter' = "sweep" /\ sweepLeft' = Expired
  /\ UNCHANGED <<diskVars, mapVars, triggerComp, compVars, now, lifeVars>>

\* A tick: DeleteExp takes the lock, and goes on only outside a compaction.
DeleteExpBegin ==
  /\ deleter = "idle" /\ LockFree
  /\ ~isActiveComp
  /\ Expired # {}
  /\ deleter' = "sweep" /\ sweepLeft' = Expired
  /\ UNCHANGED <<diskVars, mapVars, triggerComp, compVars, now, lifeVars>>

\* Mutant: the index keeps the entry.
DeleteExpKey_KeepsEntry(k) ==
  /\ deleter = "sweep" /\ k \in sweepLeft /\ ~ctxDone
  /\ file' = Buried(file, index[k])
  /\ sweepLeft' = sweepLeft \ {k}
  /\ deleter' = IF sweepLeft' = {} THEN "idle" ELSE "sweep"
  /\ UNCHANGED <<fileComp, torn, mapVars, triggerComp, compVars, now, lifeVars>>

DeleteExpKey(k) ==
  /\ deleter = "sweep" /\ k \in sweepLeft /\ ~ctxDone
  /\ file' = Buried(file, index[k])
  /\ index' = [index EXCEPT ![k] = None]
  /\ sweepLeft' = sweepLeft \ {k}
  /\ deleter' = IF sweepLeft' = {} THEN "idle" ELSE "sweep"
  /\ UNCHANGED <<fileComp, torn, indexComp, isActiveComp, triggerComp, compVars, now, lifeVars>>

\* A record that cannot be read is skipped: it stays until the next tick.
DeleteExpSkips(k) ==
  /\ deleter = "sweep" /\ k \in sweepLeft /\ ~ctxDone
  /\ FailBytes # {}
  /\ sweepLeft' = sweepLeft \ {k}
  /\ deleter' = IF sweepLeft' = {} THEN "idle" ELSE "sweep"
  /\ UNCHANGED <<diskVars, mapVars, triggerComp, compVars, now, lifeVars>>

\* A write error or a panic ends the goroutine; the deferred unlock still runs.
DeleteExpFails(k) ==
  /\ deleter = "sweep" /\ k \in sweepLeft /\ ~ctxDone
  /\ \/ ReadAt(file, index[k]) = Garbage /\ UNCHANGED <<file, torn>>
     \/ \E n \in FailBytes : /\ MayFail(file, index[k].len, n)
                             /\ file' = Tear(file, n) /\ torn' = (torn \/ n > 0)
  /\ deleter' = "done" /\ sweepLeft' = {}
  /\ UNCHANGED <<fileComp, mapVars, triggerComp, compVars, now, lifeVars>>

DeleteExpCancelled ==
  /\ deleter = "sweep" /\ ctxDone
  /\ deleter' = "idle" /\ sweepLeft' = {}
  /\ UNCHANGED <<diskVars, mapVars, triggerComp, compVars, now, lifeVars>>

\* A tick while the read lock is leaked: Lock never returns.
DeleterBlocks ==
  /\ deleter = "idle" /\ leakedRLock
  /\ deleter' = "blocked"
  /\ UNCHANGED <<diskVars, mapVars, triggerComp, compVars, sweepLeft, now, lifeVars>>

\* Mutant: the loop does not watch stopContext.
DeleterStops_RunContextOnly ==
  /\ deleter = "idle" /\ ctxDone
  /\ deleter' = "done"
  /\ UNCHANGED <<diskVars, mapVars, triggerComp, compVars, sweepLeft, now, lifeVars>>

DeleterStops ==
  /\ deleter = "idle" /\ (ctxDone \/ stopped)
  /\ deleter' = "done"
  /\ UNCHANGED <<diskVars, mapVars, triggerComp, compVars, sweepLeft, now, lifeVars>>

-----------------------------------------------------------------------------
(* The checkTrigger goroutine *)

StartCompactization ==
  /\ ~triggerComp
  /\ triggerComp' = TRUE
  /\ UNCHANGED <<diskVars, mapVars, compVars, delVars, now, lifeVars>>

\* The token is received; with the context cancelled Compactization returns at once.
CheckTrigger ==
  /\ compactor = "idle" /\ triggerComp
  /\ triggerComp' = FALSE
  /\ compactor' = IF ctxDone THEN "idle" ELSE "begin"
  /\ UNCHANGED <<diskVars, mapVars, snapshot, todo, carried, leakedRLock, delVars, now, lifeVars>>

CompactBegin ==
  /\ compactor = "begin" /\ LockFree
  /\ fileComp' = EmptyFile /\ indexComp' = EmptyIndex /\ isActiveComp' = TRUE
  /\ snapshot' = index /\ todo' = Indexed(index)
  /\ compactor' = "copy"
  /\ UNCHANGED <<file, index, torn, triggerComp, carried, leakedRLock, delVars, now, lifeVars>>

\* newCacheFile failed: nothing was switched, and the caller rolls back all the same.
CompactBeginFails ==
  /\ compactor = "begin" /\ LockFree
  /\ FailBytes # {}
  /\ compactor' = "failed"
  /\ UNCHANGED <<diskVars, mapVars, triggerComp, snapshot, todo, carried, leakedRLock,
                 delVars, now, lifeVars>>

\* Under RLock: skip a key written since, read the others from the old file.
CompactRead(k) ==
  /\ compactor = "copy" /\ k \in todo /\ ~ctxDone
  /\ deleter # "sweep"
  /\ todo' = todo \ {k}
  /\ IF indexComp[k] # None
     THEN UNCHANGED <<compactor, carried>>
     ELSE /\ carried' = [key |-> k, rec |-> ReadAt(file, snapshot[k])]
          /\ compactor' = "write"
  /\ UNCHANGED <<diskVars, mapVars, triggerComp, snapshot, leakedRLock, delVars, now, lifeVars>>

CompactReadFails(k) ==
  /\ compactor = "copy" /\ k \in todo /\ ~ctxDone
  /\ deleter # "sweep"
  /\ indexComp[k] = None /\ FailBytes # {}
  /\ compactor' = "failed"
  /\ UNCHANGED <<diskVars, mapVars, triggerComp, snapshot, todo, carried, leakedRLock,
                 delVars, now, lifeVars>>

\* The parser panics on garbage: SafeGo recovers, and nobody releases the RLock.
CompactPanics(k) ==
  /\ compactor = "copy" /\ k \in todo /\ ~ctxDone
  /\ deleter # "sweep"
  /\ indexComp[k] = None /\ ReadAt(file, snapshot[k]) = Garbage
  /\ compactor' = "done" /\ leakedRLock' = TRUE
  /\ UNCHANGED <<diskVars, mapVars, triggerComp, snapshot, todo, carried, delVars, now, lifeVars>>

\* Mutant: a cancelled compaction returns no error, so nobody rolls it back.
CompactInterrupted_NoError ==
  /\ compactor = "copy" /\ todo # {} /\ ctxDone
  /\ compactor' = "idle"
  /\ UNCHANGED <<diskVars, mapVars, triggerComp, snapshot, todo, carried, leakedRLock,
                 delVars, now, lifeVars>>

CompactInterrupted ==
  /\ compactor = "copy" /\ todo # {} /\ ctxDone
  /\ compactor' = "failed"
  /\ UNCHANGED <<diskVars, mapVars, triggerComp, snapshot, todo, carried, leakedRLock,
                 delVars, now, lifeVars>>

\* Mutant: the second look at indexComp is missing.
CompactWrite_NoRecheck ==
  LET k == carried.key
  IN  /\ compactor = "write" /\ LockFree
      /\ fileComp' = CopyOf(fileComp, carried.rec, snapshot[k])
      /\ indexComp' = [indexComp EXCEPT ![k] =
           [off |-> fileComp.size, exp |-> snapshot[k].exp,
            len |-> Length(carried.rec, snapshot[k])]]
      /\ compactor' = "copy" /\ carried' = None
      /\ UNCHANGED <<file, torn, index, isActiveComp, triggerComp, snapshot, todo, leakedRLock,
                     delVars, now, lifeVars>>

\* Mutant: the copy begins a new lifetime.
CompactWrite_Renews ==
  LET k   == carried.key
      len == Length(carried.rec, snapshot[k])
  IN  /\ compactor = "write" /\ LockFree
      /\ IF indexComp[k] # None
         THEN UNCHANGED <<fileComp, indexComp>>
         ELSE /\ fileComp' = CopyOf(fileComp, carried.rec, snapshot[k])
              /\ indexComp' = [indexComp EXCEPT ![k] =
                   [off |-> fileComp.size, exp |-> now + snapshot[k].exp, len |-> len]]
      /\ compactor' = "copy" /\ carried' = None
      /\ UNCHANGED <<file, torn, index, isActiveComp, triggerComp, snapshot, todo, leakedRLock,
                     delVars, now, lifeVars>>

\* Under Lock: look again, and write only what nobody has written meanwhile.
CompactWrite ==
  LET k   == carried.key
      len == Length(carried.rec, snapshot[k])
  IN  /\ compactor = "write" /\ LockFree
      /\ IF indexComp[k] # None
         THEN UNCHANGED <<fileComp, indexComp>>
         ELSE /\ fileComp' = CopyOf(fileComp, carried.rec, snapshot[k])
              /\ indexComp' = [indexComp EXCEPT ![k] =
                   [off |-> fileComp.size, exp |-> snapshot[k].exp, len |-> len]]
      /\ compactor' = "copy" /\ carried' = None
      /\ UNCHANGED <<file, torn, index, isActiveComp, triggerComp, snapshot, todo, leakedRLock,
                     delVars, now, lifeVars>>

CompactWriteFails(n) ==
  /\ compactor = "write" /\ LockFree
  /\ indexComp[carried.key] = None
  /\ MayFail(fileComp, Length(carried.rec, snapshot[carried.key]), n)
  /\ fileComp' = Tear(fileComp, n) /\ torn' = (torn \/ n > 0)
  /\ compactor' = "failed" /\ carried' = None
  /\ UNCHANGED <<file, mapVars, triggerComp, snapshot, todo, leakedRLock, delVars, now, lifeVars>>

CompactEnd ==
  /\ compactor = "copy" /\ todo = {} /\ LockFree
  /\ file' = fileComp /\ fileComp' = EmptyFile
  /\ index' = indexComp /\ indexComp' = EmptyIndex
  /\ isActiveComp' = FALSE
  /\ compactor' = "idle" /\ snapshot' = EmptyIndex
  /\ UNCHANGED <<torn, triggerComp, todo, carried, leakedRLock, delVars, now, lifeVars>>

\* Mutant: indexComp is not cleared.
RollbackCompact_KeepsIndex ==
  /\ compactor = "failed" /\ LockFree
  /\ fileComp' = EmptyFile /\ isActiveComp' = FALSE
  /\ compactor' = "idle" /\ snapshot' = EmptyIndex /\ todo' = {}
  /\ UNCHANGED <<file, index, indexComp, torn, triggerComp, carried, leakedRLock,
                 delVars, now, lifeVars>>

RollbackCompact ==
  /\ compactor = "failed" /\ LockFree
  /\ fileComp' = EmptyFile /\ indexComp' = EmptyIndex /\ isActiveComp' = FALSE
  /\ compactor' = "idle" /\ snapshot' = EmptyIndex /\ todo' = {}
  /\ UNCHANGED <<file, index, torn, triggerComp, carried, leakedRLock, delVars, now, lifeVars>>

CompactorStops ==
  /\ compactor = "idle" /\ (ctxDone \/ stopped)
  /\ compactor' = "done"
  /\ UNCHANGED <<diskVars, mapVars, triggerComp, snapshot, todo, carried, leakedRLock,
                 delVars, now, lifeVars>>

-----------------------------------------------------------------------------
(* Clock and life cycle *)

Tick ==
  /\ now < MaxTime
  /\ now' = now + 1
  /\ UNCHANGED <<diskVars, mapVars, triggerComp, compVars, delVars, lifeVars>>

Cancel ==
  /\ ~ctxDone
  /\ ctxDone' = TRUE
  /\ UNCHANGED <<diskVars, mapVars, triggerComp, compVars, delVars, now, stopped, closed>>

CloseBegin ==
  /\ ~stopped
  /\ stopped' = TRUE
  /\ UNCHANGED <<diskVars, mapVars, triggerComp, compVars, delVars, now, ctxDone, closed>>

\* wg.Wait has returned: both goroutines are gone, and the file is closed.
CloseEnd ==
  /\ stopped /\ ~closed
  /\ compactor = "done" /\ deleter = "done"
  /\ closed' = TRUE
  /\ UNCHANGED <<diskVars, mapVars, triggerComp, compVars, delVars, now, ctxDone, stopped>>

-----------------------------------------------------------------------------
Caller == \E k \in Keys : Delete(k) \/ \E v \in Values, e \in Expirations : Set(k, v, e)

Deleter ==
  \/ DeleteExpBegin \/ DeleteExpCancelled \/ DeleterBlocks \/ DeleterStops
  \/ \E k \in Keys : DeleteExpKey(k) \/ DeleteExpSkips(k) \/ DeleteExpFails(k)

Compactor ==
  \/ CheckTrigger \/ CompactBegin \/ CompactBeginFails
  \/ \E k \in Keys : CompactRead(k) \/ CompactReadFails(k) \/ CompactPanics(k)
  \/ CompactInterrupted \/ CompactWrite \/ \E n \in FailBytes : CompactWriteFails(n)
  \/ CompactEnd \/ RollbackCompact \/ CompactorStops

Serving == Caller \/ Deleter \/ Compactor \/ StartCompactization \/ Tick
Stopping == Cancel \/ CloseBegin \/ CloseEnd

Next == Serving \/ Stopping

Spec == Init /\ [][Next]_vars

\* The same shard while nobody shuts it down: the runs with larger files use it.
ServingSpec == Init /\ [][Serving]_vars

\* The goroutines keep running, and a disk that fails does not fail for ever.  Strong
\* fairness where the lock may be taken over and over by others (Go's RWMutex starves
\* nobody), where a select with several ready cases picks one at random, and where a
\* tick may fall into a compaction.
Fairness ==
  /\ WF_vars(Deleter) /\ SF_vars(DeleteExpBegin) /\ SF_vars(DeleterStops)
  /\ \A k \in Keys : SF_vars(DeleteExpKey(k))
  /\ SF_vars(Compactor) /\ SF_vars(CompactorStops)
  /\ WF_vars(CloseEnd)

FairSpec == Spec /\ Fairness
-----------------------------------------------------------------------------
(* Properties *)

\* Type invariant.
TypeOK ==
  /\ file \in File /\ fileComp \in File
  /\ index \in [Keys -> Entry \cup {None}] /\ indexComp \in [Keys -> Entry \cup {None}]
  /\ isActiveComp \in BOOLEAN /\ triggerComp \in BOOLEAN
  /\ compactor \in {"idle", "begin", "copy", "write", "failed", "done"}
  /\ snapshot \in [Keys -> Entry \cup {None}]
  /\ todo \subseteq Keys
  /\ carried \in Carried \cup {None}
  /\ (compactor = "write") => carried # None
  /\ leakedRLock \in BOOLEAN
  /\ deleter \in {"idle", "sweep", "blocked", "done"}
  /\ sweepLeft \subseteq Keys
  /\ now \in Nat
  /\ ctxDone \in BOOLEAN /\ stopped \in BOOLEAN /\ closed \in BOOLEAN /\ torn \in BOOLEAN

\* r is the record entry e of key k promises: live, of that key, where e says.
IsRecordOf(r, k, e) ==
  /\ r.off = e.off /\ RecSize[r.val] = e.len
  /\ r.key = k /\ ~r.del

Points(f, idx) == \A k \in Indexed(idx) : \E r \in f.recs : IsRecordOf(r, k, idx[k])

\* Every entry of an index points at a live record of its own key: as long as no
\* failed write has left bytes behind, neither the rewriting of a key, nor its
\* deletion, nor a compaction that callers interleave with, makes an offset stale.
IndexSound == ~torn => Points(file, index) /\ Points(fileComp, indexComp)

\* The last record of its key in a file: what a restart that reads the file keeps.
IsLast(r, f) == r \in f.recs /\ \A s \in f.recs : s.key = r.key => s.off <= r.off

Restores(f, idx) ==
  \A r \in f.recs : IsLast(r, f) /\ ~r.del => idx[r.key] # None /\ idx[r.key].off = r.off

\* Nothing comes back from the dead: a record that initIndexFromFile would restore
\* if the process stopped here is one the index holds now, at that very offset.
NoResurrection == ~torn => Restores(file, index) /\ Restores(fileComp, indexComp)

\* While a compaction runs nobody changes the old index, so the snapshot the copy
\* loop works from stays true although it is read without the lock.
SnapshotFrozen == isActiveComp => snapshot = index

\* No compaction is under way without the goroutine that has to finish it, and
\* none of its leftovers survives the end of it.
CompactionOwned ==
  /\ isActiveComp => compactor \in {"copy", "write", "failed"} \/ leakedRLock
  /\ ~isActiveComp => fileComp = EmptyFile /\ indexComp = EmptyIndex /\ todo = {}

\* A lock is leaked only by a compaction that met bytes a failed write had left.
LeakNeedsTornWrite == leakedRLock => torn

\* What the message of Set's MemoryLimit error says: there is an allowed file size, and
\* the file does not exceed it.
SizeWithinLimit == file.size <= MaxSize

\* What the README says of the cache lifetime: a response is served no longer than that.
ExpiredNotServed == \A k \in Keys : Get(k) # None => now <= Found(k).exp

\* A compaction that has begun comes to an end, committed or rolled back, unless it
\* has met the garbage of a failed write.
CompactionFinishes == isActiveComp ~> (~isActiveComp \/ leakedRLock)

\* Close returns, whatever the two goroutines were doing when it was called, unless
\* the deleting goroutine waits for a lock that a panic has leaked.
CloseReturns == stopped ~> (closed \/ deleter = "blocked")

\* An expired record is deleted or written anew, unless the goroutine that deletes has
\* ended: by a shutdown, by a write of its own that failed, or blocked for ever.
Dead(k) == index[k] # None /\ index[k].exp < now
ExpiredDeleted == \A k \in Keys : Dead(k) ~> (~Dead(k) \/ deleter \in {"done", "blocked"})
-----------------------------------------------------------------------------
(* What the shard implements *)

ItemAt(f, e) == IF e = None THEN None ELSE [val |-> ReadAt(f, e).val, exp |-> e.exp]

\* Keys whose entry the running copy loop has passed and has not carried over.
Dropped ==
  {k \in Indexed(index) : /\ indexComp[k] = None /\ k \notin todo
                          /\ compactor = "write" => carried.key # k}

Compacting == isActiveComp /\ compactor # "failed"

Store == [k \in Keys |-> IF isActiveComp /\ indexComp[k] # None
                        THEN ItemAt(fileComp, indexComp[k]) ELSE ItemAt(file, index[k])]
Saved == [k \in Keys |-> IF isActiveComp THEN ItemAt(file, index[k]) ELSE None]
Lost  == IF Compacting THEN Dropped ELSE {}
Phase == IF Compacting THEN "compacting" ELSE IF isActiveComp THEN "doomed" ELSE "open"

Cache == INSTANCE CheckpointedCache
           WITH store <- Store, saved <- Saved, lost <- Lost, phase <- Phase

\* A step of the shard is one of the cache, by the same party: a Set puts what it was
\* given or nothing, and the goroutines, whose steps are those that change their own
\* variables, put and remove nothing of their own.
StepsMatch ==
  IF compVars' # compVars \/ delVars' # delVars
  THEN [Cache!Internal]_(Cache!vars)
  ELSE \A k \in Keys, v \in Values, e \in Expirations :
         Set(k, v, e) => [Cache!Put(k, [val |-> v, exp |-> e])]_(Cache!vars)

\* On a disk whose failing writes leave no bytes, a shard is a checkpointed cache:
\* no interleaving of callers, expiry and compaction makes a read return anything
\* but the value put last, except by the rules that module states.
RefinesCache == Cache!Spec /\ [][StepsMatch]_vars

\* A write that fails, of whichever party, changes nothing a reader can see: be it a
\* tombstone, the record after one or a copy, and whatever bytes it and those that failed
\* before it have left.
Visible == [k \in Keys |-> Get(k)]
WriteFails ==
  \/ \E k \in Keys, v \in Values : SetFails(k, v)
  \/ \E k \in Keys : DeleteFails(k) \/ DeleteExpFails(k)
  \/ \E n \in FailBytes : CompactWriteFails(n)
FailedWriteInvisible == [][WriteFails => Visible' = Visible]_vars
=============================================================================
