--------------------------- MODULE FileShardProofs ---------------------------
(***************************************************************************)
(* Proofs about a file shard, for all keys, values, record lengths, limits *)
(* and failures of the disk.  The argument has two layers:                 *)
(*   Shape    who may be doing what: no sweep overlaps a compaction, the   *)
(*            snapshot is the index, what is left to copy is indexed;      *)
(*   Content  what the files hold, until a failed write leaves bytes:      *)
(*            both files are well laid out, both indexes fit their files,  *)
(*            and the record the copy loop carries is the one to copy.     *)
(* Shape is inductive alone; Content is inductive given Shape.  A shard    *)
(* whose start was cancelled has not indexed all of its file, and has      *)
(* Content(FALSE); one that began with nothing has Content(TRUE).  With it *)
(* a shard whose files no failed write has torn is shown to implement      *)
(* CheckpointedCache, step by step: every step, mapped by Store, Saved,    *)
(* Lost and Phase, is a step of the cache or a stutter, and one of the     *)
(* party that took it.                                                     *)
(***************************************************************************)
EXTENDS FileShard, TLAPS

Index == [Keys -> Entry \cup {None}]

Shape ==
  /\ TypeOK
  /\ SnapshotFrozen
  /\ CompactionOwned
  /\ compactor \in {"copy", "write"} => isActiveComp /\ todo \subseteq Indexed(snapshot)
  /\ compactor = "write" => snapshot[carried.key] # None
  /\ deleter = "sweep" => ~isActiveComp

\* Records do not overlap the end of the file, and no two begin at one offset.
LaidOut(f) ==
  /\ f.size = f.end
  /\ \A r \in f.recs : r.off + RecSize[r.val] <= f.end
  /\ \A r, s \in f.recs : r.off = s.off => r = s

\* File and index agree; where all is true the index has all that the file would restore.
Fits(all, f, idx) == LaidOut(f) /\ Points(f, idx) /\ (all => Restores(f, idx))

CarriedSound ==
  compactor = "write" =>
    /\ carried.rec \in file.recs
    /\ IsRecordOf(carried.rec, carried.key, snapshot[carried.key])

Content(all) ==
  /\ ~torn => Fits(all, file, index) /\ Fits(all, fileComp, indexComp) /\ CarriedSound
  /\ LeakNeedsTornWrite

-----------------------------------------------------------------------------
(* Lemmas on files *)

\* Appending a record to a file keeps the types.
LEMMA AppendType ==
  ASSUME NEW f \in File, NEW k \in Keys, NEW v \in Values, NEW d \in BOOLEAN
  PROVE  Written(f, k, v, d) \in File
BY RecSizeAssumption DEF Written, File, LogRec

\* What is read is a record of the file, or garbage.
LEMMA ReadAtType ==
  ASSUME NEW f \in File, NEW e
  PROVE  ReadAt(f, e) \in f.recs \cup {Garbage} /\ ReadAt(f, e) \in LogRec \cup {Garbage}
BY DEF ReadAt, RecordsAt, File

\* Writing back what was read keeps the types.
LEMMA RewriteType ==
  ASSUME NEW f \in File, NEW rec \in LogRec \cup {Garbage}, NEW e \in Entry, NEW d \in BOOLEAN
  PROVE  Rewrite(f, rec, e, d) \in File
<1>1. CASE rec = Garbage
  <2>1. Rewrite(f, rec, e, d) =
          [recs |-> f.recs, end |-> f.end + e.len, size |-> f.size + e.len]
    BY <1>1 DEF Rewrite, File
  <2> QED BY <2>1 DEF File, Entry
<1>2. CASE rec # Garbage
  <2>1. rec.key \in Keys /\ rec.val \in Values
    BY <1>2 DEF LogRec
  <2> QED BY <1>2, <2>1, AppendType DEF Rewrite
<1> QED BY <1>1, <1>2

LEMMA BuriedType ==
  ASSUME NEW f \in File, NEW e \in Entry \cup {None}
  PROVE  Buried(f, e) \in File
BY ReadAtType, RewriteType DEF Buried

LEMMA TearType ==
  ASSUME NEW f \in File, NEW n \in Nat
  PROVE  Tear(f, n) \in File
BY DEF Tear, File

\* A failed write that leaves nothing leaves the file as it was.
LEMMA TearZero ==
  ASSUME NEW f \in File
  PROVE  Tear(f, 0) = f
BY DEF Tear, File

LEMMA EmptyTypes == EmptyFile \in File /\ EmptyIndex \in Index
BY DEF EmptyFile, EmptyIndex, File, Index

\* An entry for a new record, and the removal of one, keep the types.
LEMMA IndexType ==
  ASSUME NEW idx \in Index, NEW k \in Keys, NEW o \in Nat, NEW e \in Int, NEW v \in Values
  PROVE  /\ [idx EXCEPT ![k] = [off |-> o, exp |-> e, len |-> RecSize[v]]] \in Index
         /\ [idx EXCEPT ![k] = None] \in Index
<1>1. [off |-> o, exp |-> e, len |-> RecSize[v]] \in Entry
  BY RecSizeAssumption DEF Entry
<1> QED BY <1>1 DEF Index

-----------------------------------------------------------------------------
(* Lemmas on files that fit their index *)

\* In a well laid out file the entry of a live record reads that record.
LEMMA ReadsRecord ==
  ASSUME NEW f \in File, LaidOut(f), NEW r \in f.recs, NEW k, NEW e, IsRecordOf(r, k, e)
  PROVE  ReadAt(f, e) = r
<1>1. r \in RecordsAt(f, e)
  BY DEF RecordsAt, IsRecordOf
<1>2. \A s \in RecordsAt(f, e) : s = r
  BY DEF RecordsAt, IsRecordOf, LaidOut
<1> QED BY <1>1, <1>2 DEF ReadAt

\* An indexed key can be read: the record is there, of that key, and not deleted.
LEMMA ReadsEntry ==
  ASSUME NEW f \in File, NEW idx \in Index, LaidOut(f), Points(f, idx),
         NEW k \in Keys, idx[k] # None
  PROVE  /\ ReadAt(f, idx[k]) \in f.recs
         /\ IsRecordOf(ReadAt(f, idx[k]), k, idx[k])
         /\ ReadAt(f, idx[k]) # Garbage
         /\ ReadAt(f, idx[k]) \in LogRec
<1>1. PICK r \in f.recs : IsRecordOf(r, k, idx[k])
  BY DEF Points, Indexed
<1>2. ReadAt(f, idx[k]) = r
  BY <1>1, ReadsRecord
<1> QED BY <1>1, <1>2, SentinelAssumption DEF File

\* An appended record leaves the layout good, and lies behind all the others.
LEMMA AppendLaidOut ==
  ASSUME NEW f \in File, LaidOut(f), NEW k \in Keys, NEW v \in Values, NEW d \in BOOLEAN
  PROVE  /\ LaidOut(Written(f, k, v, d))
         /\ \A r \in f.recs : r.off < f.end
<1> DEFINE n == [off |-> f.end, key |-> k, val |-> v, del |-> d]
<1>1. f.recs \subseteq LogRec /\ f.end \in Nat /\ f.size \in Nat
  BY DEF File
<1>2. \A r \in f.recs : r.off \in Nat /\ RecSize[r.val] \in Nat \ {0}
  BY <1>1, RecSizeAssumption DEF LogRec
<1>3. \A r \in f.recs : r.off < f.end
  BY <1>1, <1>2 DEF LaidOut
<1>4. RecSize[v] \in Nat \ {0}
  BY RecSizeAssumption
<1>5. /\ Written(f, k, v, d).recs = f.recs \cup {n}
      /\ Written(f, k, v, d).end = f.end + RecSize[v]
      /\ Written(f, k, v, d).size = f.size + RecSize[v]
  BY DEF Written
<1>6. n.off = f.end /\ n.val = v
  OBVIOUS
<1>7. \A r \in f.recs \cup {n} : r.off + RecSize[r.val] <= f.end + RecSize[v]
  BY <1>1, <1>2, <1>4, <1>6 DEF LaidOut
<1>8. \A r, s \in f.recs \cup {n} : r.off = s.off => r = s
  BY <1>1, <1>2, <1>3, <1>6 DEF LaidOut
<1>9. Written(f, k, v, d).size = Written(f, k, v, d).end
  BY <1>5 DEF LaidOut
<1>10. LaidOut(Written(f, k, v, d))
  BY <1>5, <1>7, <1>8, <1>9 DEF LaidOut
<1> QED BY <1>3, <1>10

\* A live record appended, with its entry, keeps a file and its index together.
LEMMA PutFits ==
  ASSUME NEW all, NEW f \in File, NEW idx \in Index, Fits(all, f, idx),
         NEW k \in Keys, NEW v \in Values, NEW e \in Int
  PROVE  Fits(all, Written(f, k, v, FALSE),
              [idx EXCEPT ![k] = [off |-> f.size, exp |-> e, len |-> RecSize[v]]])
<1> DEFINE n == [off |-> f.end, key |-> k, val |-> v, del |-> FALSE]
           g == Written(f, k, v, FALSE)
           new == [off |-> f.size, exp |-> e, len |-> RecSize[v]]
           jdx == [idx EXCEPT ![k] = new]
<1>1. LaidOut(g) /\ \A r \in f.recs : r.off < f.end
  BY AppendLaidOut DEF Fits
<1>2. g.recs = f.recs \cup {n} /\ n.off = f.end /\ n.key = k /\ n.val = v /\ ~n.del
  BY DEF Written
<1>3. f.size = f.end /\ new.off = f.size /\ new.len = RecSize[v]
  BY DEF Fits, LaidOut
<1>4. jdx[k] = new /\ \A j \in Keys \ {k} : jdx[j] = idx[j]
  BY DEF Index
<1>5. new # None
  <2>1. new \in Entry
    BY RecSizeAssumption DEF Entry, File
  <2> QED BY <2>1, SentinelAssumption
<1>6. Points(g, jdx)
  <2> SUFFICES ASSUME NEW j \in Indexed(jdx)
               PROVE  \E r \in g.recs : IsRecordOf(r, j, jdx[j])
    BY DEF Points
  <2>1. CASE j = k
    <3>1. IsRecordOf(n, k, new)
      BY <1>2, <1>3 DEF IsRecordOf
    <3> QED BY <2>1, <3>1, <1>2, <1>4
  <2>2. CASE j # k
    <3>1. j \in Indexed(idx) /\ jdx[j] = idx[j]
      BY <2>2, <1>4 DEF Indexed
    <3> QED BY <3>1, <1>2 DEF Points, Fits
  <2> QED BY <2>1, <2>2
<1>7. ASSUME all PROVE Restores(g, jdx)
  <2>0. Restores(f, idx) BY <1>7 DEF Fits
  <2> SUFFICES ASSUME NEW r \in g.recs, IsLast(r, g), ~r.del
               PROVE  jdx[r.key] # None /\ jdx[r.key].off = r.off
    BY DEF Restores
  <2>1. CASE r = n
    BY <2>1, <1>2, <1>3, <1>4, <1>5
  <2>2. CASE r # n
    <3>1. r \in f.recs /\ r.key \in Keys /\ r.off \in Nat /\ f.end \in Nat
      BY <2>2, <1>2 DEF File, LogRec
    <3>2. r.key # k
      <4>1. r.key = n.key => n.off <= r.off
        BY <1>2 DEF IsLast
      <4>2. ~(f.end <= r.off)
        BY <3>1, <1>1
      <4> QED BY <4>1, <4>2, <1>2
    <3>3. IsLast(r, f)
      BY <3>1, <1>2 DEF IsLast
    <3> QED BY <2>0, <3>1, <3>2, <3>3, <1>4 DEF Restores
  <2> QED BY <2>1, <2>2
<1> QED BY <1>1, <1>6, <1>7 DEF Fits

\* The tombstone of an indexed key keeps the file together with the index that still
\* has the key, and with the one that has it no more.
LEMMA BuryFits ==
  ASSUME NEW all, NEW f \in File, NEW idx \in Index, Fits(all, f, idx), NEW k \in Keys
  PROVE  /\ Fits(all, Buried(f, idx[k]), idx)
         /\ Fits(all, Buried(f, idx[k]), [idx EXCEPT ![k] = None])
<1> DEFINE jdx == [idx EXCEPT ![k] = None]
<1>1. CASE idx[k] = None
  <2>1. Buried(f, idx[k]) = f /\ jdx = idx
    BY <1>1 DEF Buried, Index
  <2> QED BY <2>1
<1>2. CASE idx[k] # None
  <2> DEFINE o == ReadAt(f, idx[k])
             n == [off |-> f.end, key |-> k, val |-> o.val, del |-> TRUE]
             g == Written(f, k, o.val, TRUE)
  <2>1. o \in f.recs /\ IsRecordOf(o, k, idx[k]) /\ o # Garbage /\ o \in LogRec
    BY <1>2, ReadsEntry DEF Fits
  <2>2. o.key = k /\ o.val \in Values
    BY <2>1 DEF IsRecordOf, LogRec
  <2>3. Buried(f, idx[k]) = g
    BY <1>2, <2>1, <2>2 DEF Buried, Rewrite
  <2>4. LaidOut(g) /\ \A r \in f.recs : r.off < f.end
    BY <2>2, AppendLaidOut DEF Fits
  <2>5. g.recs = f.recs \cup {n} /\ n.off = f.end /\ n.key = k /\ n.del
    BY DEF Written
  <2>6. \A j \in Keys \ {k} : jdx[j] = idx[j]
    BY DEF Index
  <2>7. Points(g, idx)
    BY <2>5 DEF Points, Fits
  <2>8. Points(g, jdx)
    <3> SUFFICES ASSUME NEW j \in Indexed(jdx)
                 PROVE  \E r \in g.recs : IsRecordOf(r, j, jdx[j])
      BY DEF Points
    <3>1. j # k
      BY DEF Indexed, Index
    <3>2. jdx[j] = idx[j] /\ j \in Indexed(idx)
      BY <3>1, <2>6 DEF Indexed
    <3> QED BY <3>2, <2>7 DEF Points
  <2>9. ASSUME all, NEW r \in g.recs, IsLast(r, g), ~r.del
        PROVE  /\ r.key # k
               /\ idx[r.key] # None /\ idx[r.key].off = r.off
               /\ jdx[r.key] # None /\ jdx[r.key].off = r.off
    <3>1. r \in f.recs /\ r.key \in Keys /\ r.off \in Nat /\ f.end \in Nat
      BY <2>9, <2>5 DEF File, LogRec
    <3>2. r.key # k
      <4>1. r.key = n.key => n.off <= r.off
        BY <2>9, <2>5 DEF IsLast
      <4>2. ~(f.end <= r.off)
        BY <3>1, <2>4
      <4> QED BY <4>1, <4>2, <2>5
    <3>3. IsLast(r, f)
      BY <2>9, <3>1, <2>5 DEF IsLast
    <3>4. idx[r.key] # None /\ idx[r.key].off = r.off
      <4>1. Restores(f, idx) BY <2>9 DEF Fits
      <4> QED BY <2>9, <3>1, <3>3, <4>1 DEF Restores
    <3> QED BY <3>1, <3>2, <3>4, <2>6
  <2>10. all => Restores(g, idx) /\ Restores(g, jdx)
    BY <2>9 DEF Restores
  <2> QED BY <2>3, <2>4, <2>7, <2>8, <2>10 DEF Fits
<1> QED BY <1>1, <1>2

\* The same for the whole of a Set that succeeds.
LEMMA RewriteKeyFits ==
  ASSUME NEW all, NEW f \in File, NEW idx \in Index, Fits(all, f, idx),
         NEW k \in Keys, NEW v \in Values, NEW e \in Int
  PROVE  LET g == Buried(f, idx[k])
         IN  Fits(all, Written(g, k, v, FALSE),
                  [idx EXCEPT ![k] = [off |-> g.size, exp |-> e, len |-> RecSize[v]]])
<1> DEFINE g == Buried(f, idx[k])
           jdx == [idx EXCEPT ![k] = None]
           new == [off |-> g.size, exp |-> e, len |-> RecSize[v]]
<1>1. Fits(all, g, jdx) /\ g \in File
  BY BuryFits, BuriedType DEF Index
<1>2. jdx \in Index
  BY DEF Index
<1>3. Fits(all, Written(g, k, v, FALSE), [jdx EXCEPT ![k] = new])
  BY <1>1, <1>2, PutFits
<1>4. [jdx EXCEPT ![k] = new] = [idx EXCEPT ![k] = new]
  BY DEF Index
<1> QED BY <1>3, <1>4

LEMMA EmptyFits ==
  ASSUME NEW all
  PROVE  Fits(all, EmptyFile, EmptyIndex)
BY DEF Fits, LaidOut, Points, Restores, Indexed, EmptyFile, EmptyIndex

-----------------------------------------------------------------------------
(* Shape *)

LEMMA InitShape == Init => Shape
<1> SUFFICES ASSUME Init PROVE Shape
  OBVIOUS
<1>1. TypeOK
  BY EmptyTypes DEF Init, TypeOK, Index
<1>2. SnapshotFrozen /\ CompactionOwned
  BY DEF Init, SnapshotFrozen, CompactionOwned
<1> QED BY <1>1, <1>2 DEF Init, Shape

\* The file and the index that are written to are always of their types.
LEMMA ActiveType == Shape => ActiveFile \in File /\ ActiveIndex \in Index
BY DEF Shape, TypeOK, ActiveFile, ActiveIndex, Index

\* Whatever a caller writes to the active file and index, under the lock.
LEMMA UpdateActiveShape ==
  ASSUME Shape, NEW f \in File, NEW idx \in Index, UpdateActive(f, idx), torn' \in BOOLEAN,
         UNCHANGED <<triggerComp, compVars, delVars, now, lifeVars>>
  PROVE  Shape'
<1> USE DEF Index
<1>1. TypeOK'
  <2>1. file' \in File /\ fileComp' \in File /\ isActiveComp' \in BOOLEAN
    BY DEF Shape, TypeOK, UpdateActive
  <2>2. index' \in Index /\ indexComp' \in Index
    BY DEF Shape, TypeOK, UpdateActive
  <2> QED BY <2>1, <2>2 DEF Shape, TypeOK, compVars, delVars, lifeVars
<1>2. CASE isActiveComp
  <2>1. UNCHANGED <<file, index, isActiveComp, snapshot, compactor, todo, carried, deleter, leakedRLock>>
    BY <1>2 DEF UpdateActive, compVars, delVars
  <2>2. SnapshotFrozen' /\ CompactionOwned'
    BY <1>2, <2>1 DEF Shape, SnapshotFrozen, CompactionOwned
  <2> QED BY <1>1, <1>2, <2>1, <2>2 DEF Shape, Indexed
<1>3. CASE ~isActiveComp
  <2>1. UNCHANGED <<fileComp, indexComp, isActiveComp, snapshot, compactor, todo, carried, deleter, leakedRLock>>
    BY <1>3 DEF UpdateActive, compVars, delVars
  <2>2. SnapshotFrozen' /\ CompactionOwned'
    BY <1>3, <2>1 DEF Shape, SnapshotFrozen, CompactionOwned
  <2> QED BY <1>1, <1>3, <2>1, <2>2 DEF Shape, Indexed
<1> QED BY <1>2, <1>3

LEMMA FailActiveShape ==
  ASSUME Shape, NEW f \in File, NEW n \in FailBytes, FailActive(f, n),
         UNCHANGED <<triggerComp, compVars, delVars, now, lifeVars>>
  PROVE  Shape'
<1>1. Tear(f, n) \in File
  BY TearType, FailBytesAssumption
<1>2. torn' \in BOOLEAN
  BY DEF FailActive, Shape, TypeOK
<1> QED BY <1>1, <1>2, ActiveType, UpdateActiveShape DEF FailActive

LEMMA SetShape ==
  ASSUME Shape, NEW k \in Keys, NEW v \in Values, NEW e \in Int, Set(k, v, e)
  PROVE  Shape'
<1> DEFINE g == Buried(ActiveFile, ActiveIndex[k])
<1>1. ActiveFile \in File /\ ActiveIndex \in Index /\ ActiveIndex[k] \in Entry \cup {None}
  BY ActiveType DEF Index
<1>2. g \in File /\ g.size \in Nat
  <2>1. g \in File
    BY <1>1, BuriedType
  <2> QED BY <2>1 DEF File
<1>3. UNCHANGED <<triggerComp, compVars, delVars, now, lifeVars>>
  BY DEF Set
<1>4. CASE SetWrites(k, v, e)
  <2> DEFINE idx == [ActiveIndex EXCEPT ![k] = [off |-> g.size, exp |-> e, len |-> RecSize[v]]]
  <2>1. Written(g, k, v, FALSE) \in File
    BY <1>2, AppendType
  <2>2. idx \in Index
    BY <1>1, <1>2, IndexType
  <2>3. UpdateActive(Written(g, k, v, FALSE), idx) /\ torn' \in BOOLEAN
    BY <1>4 DEF SetWrites, Shape, TypeOK
  <2> HIDE DEF g, idx
  <2> QED BY <1>3, <2>1, <2>2, <2>3, UpdateActiveShape
<1>5. CASE SetFails(k, v)
  BY <1>1, <1>2, <1>3, <1>5, FailActiveShape DEF SetFails, TombstoneFails, SetFailsOnRecord
<1> QED BY <1>4, <1>5 DEF Set

LEMMA DeleteShape ==
  ASSUME Shape, NEW k \in Keys, Delete(k)
  PROVE  Shape'
<1>1. ActiveFile \in File /\ ActiveIndex \in Index /\ ActiveIndex[k] \in Entry \cup {None}
  BY ActiveType DEF Index
<1>2. UNCHANGED <<triggerComp, compVars, delVars, now, lifeVars>>
  BY DEF Delete
<1>3. CASE DeleteWrites(k)
  <2>1. Buried(ActiveFile, ActiveIndex[k]) \in File
    BY <1>1, BuriedType
  <2>2. [ActiveIndex EXCEPT ![k] = None] \in Index
    BY <1>1 DEF Index
  <2>3. torn' \in BOOLEAN
    BY <1>3 DEF DeleteWrites, Shape, TypeOK
  <2> QED BY <1>2, <1>3, <2>1, <2>2, <2>3, UpdateActiveShape DEF DeleteWrites
<1>4. CASE DeleteFails(k)
  BY <1>1, <1>2, <1>4, FailActiveShape DEF DeleteFails, TombstoneFails
<1> QED BY <1>3, <1>4 DEF Delete

\* The StartDeleteExp goroutine: it never runs a sweep during a compaction.
LEMMA DeleterShape ==
  ASSUME Shape, Deleter
  PROVE  Shape'
<1> USE DEF Shape, SnapshotFrozen, CompactionOwned, diskVars, mapVars, compVars, lifeVars
<1>1. CASE DeleteExpBegin
  BY <1>1 DEF DeleteExpBegin, TypeOK, Expired, Indexed
<1>2. CASE DeleteExpCancelled
  BY <1>2 DEF DeleteExpCancelled, TypeOK
<1>3. CASE DeleterBlocks \/ DeleterStops
  BY <1>3 DEF DeleterBlocks, DeleterStops, TypeOK
<1>4. ASSUME NEW k \in Keys, DeleteExpKey(k) PROVE Shape'
  <2>1. ~isActiveComp
    BY <1>4 DEF DeleteExpKey
  <2>2. file' \in File
    <3>1. file \in File /\ index[k] \in Entry \cup {None}
      BY DEF TypeOK
    <3> QED BY <1>4, <3>1, BuriedType DEF DeleteExpKey
  <2>3. index' \in Index
    BY <1>4 DEF DeleteExpKey, TypeOK, Index
  <2>4. TypeOK'
    BY <1>4, <2>2, <2>3 DEF DeleteExpKey, TypeOK, Index
  <2> QED BY <1>4, <2>1, <2>4 DEF DeleteExpKey
<1>5. ASSUME NEW k \in Keys, DeleteExpSkips(k) PROVE Shape'
  BY <1>5 DEF DeleteExpSkips, TypeOK
<1>6. ASSUME NEW k \in Keys, DeleteExpFails(k) PROVE Shape'
  <2>1. file' \in File /\ torn' \in BOOLEAN
    BY <1>6, TearType, FailBytesAssumption DEF DeleteExpFails, TypeOK
  <2>2. TypeOK'
    BY <1>6, <2>1 DEF DeleteExpFails, TypeOK
  <2> QED BY <1>6, <2>2 DEF DeleteExpFails
<1> QED BY <1>1, <1>2, <1>3, <1>4, <1>5, <1>6 DEF Deleter

\* The checkTrigger goroutine: each step leaves its own marks consistent.
LEMMA CompactorShape ==
  ASSUME Shape, Compactor
  PROVE  Shape'
<1> USE DEF Shape, SnapshotFrozen, CompactionOwned, diskVars, mapVars, delVars, lifeVars
<1>1. CASE CheckTrigger \/ CompactBeginFails \/ CompactInterrupted \/ CompactorStops
  <2>1. CASE CheckTrigger
    <3>1. TypeOK'
      BY <2>1 DEF CheckTrigger, TypeOK
    <3> QED BY <2>1, <3>1 DEF CheckTrigger
  <2>2. CASE CompactBeginFails
    <3>1. TypeOK'
      BY <2>2 DEF CompactBeginFails, TypeOK
    <3> QED BY <2>2, <3>1 DEF CompactBeginFails
  <2>3. CASE CompactInterrupted
    <3>1. TypeOK'
      BY <2>3 DEF CompactInterrupted, TypeOK
    <3> QED BY <2>3, <3>1 DEF CompactInterrupted
  <2>4. CASE CompactorStops
    <3>1. TypeOK'
      BY <2>4 DEF CompactorStops, TypeOK
    <3> QED BY <2>4, <3>1 DEF CompactorStops
  <2> QED BY <1>1, <2>1, <2>2, <2>3, <2>4
<1>2. CASE CompactBegin
  <2>1. TypeOK'
    BY <1>2, EmptyTypes DEF CompactBegin, TypeOK, Index, Indexed
  <2> QED BY <1>2, <2>1 DEF CompactBegin, Indexed, LockFree
<1>3. ASSUME NEW k \in Keys, CompactRead(k) PROVE Shape'
  <2>1. carried' \in Carried \cup {None} /\ (compactor' = "write" => carried' # None)
    <3>1. [key |-> k, rec |-> ReadAt(file, snapshot[k])] \in Carried
      BY ReadAtType DEF TypeOK, Carried
    <3>2. [key |-> k, rec |-> ReadAt(file, snapshot[k])] # None
      BY <3>1, SentinelAssumption
    <3> QED BY <1>3, <3>1, <3>2 DEF CompactRead, TypeOK
  <2>2. TypeOK'
    BY <1>3, <2>1 DEF CompactRead, TypeOK
  <2>3. compactor' = "write" => snapshot'[carried'.key] # None
    BY <1>3 DEF CompactRead, Indexed
  <2> QED BY <1>3, <2>2, <2>3 DEF CompactRead, Indexed
<1>4. ASSUME NEW k \in Keys, CompactReadFails(k) \/ CompactPanics(k) PROVE Shape'
  BY <1>4 DEF CompactReadFails, CompactPanics, TypeOK
<1>5. CASE CompactWrite
  <2> DEFINE k == carried.key
             e == snapshot[k]
             len == Length(carried.rec, e)
  <2>1. carried \in Carried /\ k \in Keys /\ carried.rec \in LogRec \cup {Garbage} /\ e \in Entry
    BY <1>5 DEF CompactWrite, TypeOK, Carried
  <2>2. fileComp' \in File
    <3>1. fileComp \in File
      BY DEF TypeOK
    <3>2. CopyOf(fileComp, carried.rec, e) \in File
      BY <2>1, <3>1, RewriteType DEF CopyOf, LogRec
    <3> QED BY <1>5, <3>1, <3>2 DEF CompactWrite
  <2>3. len \in Nat /\ e.exp \in Int /\ fileComp.size \in Nat
    BY <2>1, RecSizeAssumption DEF Length, Entry, LogRec, TypeOK, File
  <2>4. indexComp' \in Index
    <3>1. [off |-> fileComp.size, exp |-> e.exp, len |-> len] \in Entry
      BY <2>3 DEF Entry
    <3> HIDE DEF e, len
    <3> QED BY <1>5, <2>1, <3>1 DEF CompactWrite, TypeOK, Index, e, len
  <2>5. TypeOK'
    BY <1>5, <2>2, <2>4 DEF CompactWrite, TypeOK, Index
  <2> QED BY <1>5, <2>5 DEF CompactWrite
<1>6. ASSUME NEW n \in FailBytes, CompactWriteFails(n) PROVE Shape'
  <2>1. fileComp' \in File /\ torn' \in BOOLEAN
    BY <1>6, TearType, FailBytesAssumption DEF CompactWriteFails, TypeOK
  <2>2. TypeOK'
    BY <1>6, <2>1 DEF CompactWriteFails, TypeOK
  <2> QED BY <1>6, <2>2 DEF CompactWriteFails
<1>7. CASE CompactEnd \/ RollbackCompact
  <2>1. CASE CompactEnd
    <3>1. TypeOK'
      BY <2>1, EmptyTypes DEF CompactEnd, TypeOK, Index
    <3> QED BY <2>1, <3>1 DEF CompactEnd, LockFree
  <2>2. CASE RollbackCompact
    <3>1. TypeOK'
      BY <2>2, EmptyTypes DEF RollbackCompact, TypeOK, Index
    <3> QED BY <2>2, <3>1 DEF RollbackCompact, LockFree
  <2> QED BY <1>7, <2>1, <2>2
<1> QED BY <1>1, <1>2, <1>3, <1>4, <1>5, <1>6, <1>7 DEF Compactor

LEMMA StutterShape == Shape /\ UNCHANGED vars => Shape'
BY DEF Shape, TypeOK, SnapshotFrozen, CompactionOwned, Indexed,
       vars, diskVars, mapVars, compVars, delVars, lifeVars

\* The clock, the trigger and the shutdown touch nothing that Shape relates.
LEMMA OtherShape ==
  ASSUME Shape, StartCompactization \/ Tick \/ Stopping
  PROVE  Shape'
<1> USE DEF Shape, SnapshotFrozen, CompactionOwned, Indexed,
            diskVars, mapVars, compVars, delVars, lifeVars
<1>1. CASE StartCompactization
  BY <1>1 DEF StartCompactization, TypeOK
<1>2. CASE Tick
  BY <1>2 DEF Tick, TypeOK
<1>3. CASE Stopping
  <2>1. TypeOK'
    <3>1. CASE Cancel
      BY <3>1 DEF Cancel, TypeOK
    <3>2. CASE CloseBegin
      BY <3>2 DEF CloseBegin, TypeOK
    <3>3. CASE CloseEnd
      BY <3>3 DEF CloseEnd, TypeOK
    <3> QED BY <1>3, <3>1, <3>2, <3>3 DEF Stopping
  <2>2. UNCHANGED <<mapVars, fileComp, compVars, deleter>>
    BY <1>3 DEF Stopping, Cancel, CloseBegin, CloseEnd
  <2> QED BY <2>1, <2>2
<1> QED BY <1>1, <1>2, <1>3

LEMMA NextShape == Shape /\ [Next]_vars => Shape'
<1> SUFFICES ASSUME Shape, [Next]_vars PROVE Shape'
  OBVIOUS
<1>1. CASE Caller
  BY <1>1, SetShape, DeleteShape, BoundsAssumption DEF Caller
<1>2. CASE UNCHANGED vars
  BY <1>2, StutterShape
<1> QED BY <1>1, <1>2, DeleterShape, CompactorShape, OtherShape DEF Next, Serving

-----------------------------------------------------------------------------
(* Content *)

LEMMA InitContent ==
  ASSUME NEW all, Init
  PROVE  Content(all)
BY EmptyFits DEF Init, Content, CarriedSound, LeakNeedsTornWrite

\* While a compaction copies, the old file still fits the index it was taken from:
\* what the loop reads is the record it wants, never garbage.
LEMMA CopyReads ==
  ASSUME NEW all, Shape, Content(all), ~torn, compactor = "copy", NEW k \in todo
  PROVE  /\ ReadAt(file, snapshot[k]) \in file.recs
         /\ IsRecordOf(ReadAt(file, snapshot[k]), k, snapshot[k])
         /\ ReadAt(file, snapshot[k]) # Garbage
<1>1. file \in File /\ index \in Index /\ k \in Keys
  BY DEF Shape, TypeOK, Index
<1>2. snapshot = index /\ index[k] # None
  BY DEF Shape, SnapshotFrozen, Indexed
<1>3. LaidOut(file) /\ Points(file, index)
  BY DEF Content, Fits
<1> QED BY <1>1, <1>2, <1>3, ReadsEntry

\* What a caller writes keeps the content sound if the pair it leaves fits; the copy
\* loop's record is in the old file, which nobody writes to meanwhile.
LEMMA UpdateActiveContent ==
  ASSUME NEW all, Shape, Content(all), NEW f, NEW idx, UpdateActive(f, idx),
         ~torn' => ~torn /\ Fits(all, f, idx), torn => torn',
         UNCHANGED compVars
  PROVE  Content(all)'
<1>1. LeakNeedsTornWrite'
  BY DEF Content, LeakNeedsTornWrite, compVars
<1>2. ASSUME ~torn' PROVE Fits(all, file, index)' /\ Fits(all, fileComp, indexComp)' /\ CarriedSound'
  <2>1. ~torn /\ Fits(all, f, idx) /\ Fits(all, file, index) /\ Fits(all, fileComp, indexComp) /\ CarriedSound
    BY <1>2 DEF Content
  <2>2. CASE isActiveComp
    <3>1. UNCHANGED <<file, index>> /\ fileComp' = f /\ indexComp' = idx
      BY <2>2 DEF UpdateActive
    <3> QED BY <2>1, <3>1 DEF CarriedSound, compVars, Fits, LaidOut, Points, Restores, Indexed, IsLast, IsRecordOf
  <2>3. CASE ~isActiveComp
    <3>1. UNCHANGED <<fileComp, indexComp>> /\ file' = f /\ index' = idx
      BY <2>3 DEF UpdateActive
    <3>2. compactor' # "write"
      BY <2>3 DEF Shape, compVars
    <3> QED BY <2>1, <3>1, <3>2 DEF CarriedSound, Fits, LaidOut, Points, Restores, Indexed, IsLast, IsRecordOf
  <2> QED BY <2>2, <2>3
<1> QED BY <1>1, <1>2 DEF Content

LEMMA ActiveFits ==
  ASSUME NEW all, Content(all), ~torn
  PROVE  Fits(all, ActiveFile, ActiveIndex)
BY DEF Content, ActiveFile, ActiveIndex

\* A write that fails after f was written: if it leaves bytes, nothing is claimed.
LEMMA FailActiveContent ==
  ASSUME NEW all, Shape, Content(all), NEW f \in File, NEW n \in FailBytes, FailActive(f, n),
         ~torn => Fits(all, f, ActiveIndex), UNCHANGED compVars
  PROVE  Content(all)'
<1>1. UpdateActive(Tear(f, n), ActiveIndex) /\ torn' = (torn \/ n > 0) /\ torn \in BOOLEAN
  BY DEF FailActive, Shape, TypeOK
<1>2. ASSUME ~torn' PROVE ~torn /\ Fits(all, Tear(f, n), ActiveIndex)
  <2>1. ~torn /\ ~(n > 0)
    BY <1>1, <1>2, Zenon
  <2>2. n = 0
    BY <2>1, FailBytesAssumption
  <2> QED BY <2>1, <2>2, TearZero
<1>3. torn => torn'
  BY <1>1, Zenon
<1> QED BY <1>1, <1>2, <1>3, UpdateActiveContent

LEMMA SetContent ==
  ASSUME NEW all, Shape, Content(all), NEW k \in Keys, NEW v \in Values, NEW e \in Int, Set(k, v, e)
  PROVE  Content(all)'
<1> DEFINE g == Buried(ActiveFile, ActiveIndex[k])
<1>1. ActiveFile \in File /\ ActiveIndex \in Index /\ ActiveIndex[k] \in Entry \cup {None}
  BY ActiveType DEF Index
<1>2. g \in File
  BY <1>1, BuriedType
<1>3. UNCHANGED compVars
  BY DEF Set
<1>4. ~torn => Fits(all, ActiveFile, ActiveIndex) /\ Fits(all, g, ActiveIndex)
  BY <1>1, ActiveFits, BuryFits
<1>5. CASE SetWrites(k, v, e)
  <2> DEFINE f == Written(g, k, v, FALSE)
             idx == [ActiveIndex EXCEPT ![k] = [off |-> g.size, exp |-> e, len |-> RecSize[v]]]
  <2>1. UpdateActive(f, idx) /\ torn' = torn
    BY <1>5 DEF SetWrites
  <2>2. ~torn => Fits(all, f, idx)
    BY <1>1, <1>4, RewriteKeyFits
  <2> HIDE DEF f, idx
  <2> QED BY <1>3, <2>1, <2>2, UpdateActiveContent
<1>6. CASE SetFails(k, v)
  BY <1>1, <1>2, <1>3, <1>4, <1>6, FailActiveContent DEF SetFails, TombstoneFails, SetFailsOnRecord
<1> QED BY <1>5, <1>6 DEF Set

LEMMA DeleteContent ==
  ASSUME NEW all, Shape, Content(all), NEW k \in Keys, Delete(k)
  PROVE  Content(all)'
<1>1. ActiveFile \in File /\ ActiveIndex \in Index
  BY ActiveType
<1>2. UNCHANGED compVars
  BY DEF Delete
<1>3. CASE DeleteWrites(k)
  <2>1. ~torn => Fits(all, Buried(ActiveFile, ActiveIndex[k]), [ActiveIndex EXCEPT ![k] = None])
    BY <1>1, ActiveFits, BuryFits
  <2> QED BY <1>2, <1>3, <2>1, UpdateActiveContent DEF DeleteWrites
<1>4. CASE DeleteFails(k)
  BY <1>1, <1>2, <1>4, ActiveFits, FailActiveContent DEF DeleteFails, TombstoneFails
<1> QED BY <1>3, <1>4 DEF Delete

\* A step that leaves files, indexes, the copy loop's record and the lock alone.
LEMMA StutterContent ==
  ASSUME NEW all, Content(all), UNCHANGED <<diskVars, index, indexComp, snapshot, carried, leakedRLock>>,
         compactor' = "write" => compactor = "write"
  PROVE  Content(all)'
BY DEF Content, CarriedSound, LeakNeedsTornWrite, Fits, LaidOut, Points, Restores,
       Indexed, IsLast, IsRecordOf, diskVars

LEMMA DeleterContent ==
  ASSUME NEW all, Shape, Content(all), Deleter
  PROVE  Content(all)'
<1>1. CASE DeleteExpBegin \/ DeleteExpCancelled \/ DeleterBlocks \/ DeleterStops
  BY <1>1, StutterContent
     DEF DeleteExpBegin, DeleteExpCancelled, DeleterBlocks, DeleterStops, mapVars, compVars
<1>2. ASSUME NEW k \in Keys, DeleteExpSkips(k) PROVE Content(all)'
  BY <1>2, StutterContent DEF DeleteExpSkips, mapVars, compVars
<1>3. ASSUME NEW k \in Keys, DeleteExpKey(k) \/ DeleteExpFails(k) PROVE Content(all)'
  <2>1. ~isActiveComp /\ file \in File /\ index \in Index
    BY <1>3 DEF DeleteExpKey, DeleteExpFails, Shape, TypeOK, Index
  <2>2. ActiveFile = file /\ ActiveIndex = index /\ UNCHANGED compVars
    BY <1>3, <2>1 DEF ActiveFile, ActiveIndex, DeleteExpKey, DeleteExpFails
  <2>3. CASE DeleteExpKey(k)
    <3> DEFINE f == Buried(file, index[k])
               idx == [index EXCEPT ![k] = None]
    <3>1. UpdateActive(f, idx) /\ torn' = torn
      BY <2>1, <2>3 DEF DeleteExpKey, UpdateActive
    <3>2. ~torn => Fits(all, f, idx)
      BY <2>1, BuryFits DEF Content
    <3> HIDE DEF f, idx
    <3> QED BY <2>2, <3>1, <3>2, UpdateActiveContent
  <2>4. CASE DeleteExpFails(k) /\ UNCHANGED <<file, torn>>
    BY <2>4, StutterContent DEF DeleteExpFails, diskVars, mapVars, compVars
  <2>5. ASSUME DeleteExpFails(k), NEW n \in FailBytes, file' = Tear(file, n), torn' = (torn \/ n > 0)
        PROVE  Content(all)'
    <3>1. FailActive(file, n)
      BY <2>1, <2>2, <2>5 DEF DeleteExpFails, FailActive, UpdateActive, mapVars
    <3>2. ~torn => Fits(all, file, ActiveIndex)
      BY <2>2 DEF Content
    <3> QED BY <2>1, <2>2, <3>1, <3>2, FailActiveContent
  <2> QED BY <1>3, <2>3, <2>4, <2>5 DEF DeleteExpFails
<1> QED BY <1>1, <1>2, <1>3 DEF Deleter

\* The record the copy loop has read stays the record to copy until it is written.
LEMMA CompactWriteContent ==
  ASSUME NEW all, Shape, Content(all), CompactWrite
  PROVE  Content(all)'
<1> DEFINE k == carried.key
           r == carried.rec
           e == snapshot[k]
<1>1. UNCHANGED <<file, torn, index, leakedRLock, snapshot>> /\ compactor' = "copy"
  BY DEF CompactWrite
<1>2. LeakNeedsTornWrite'
  BY <1>1 DEF Content, LeakNeedsTornWrite
<1>3. ASSUME ~torn' PROVE Fits(all, file, index)' /\ Fits(all, fileComp, indexComp)' /\ CarriedSound'
  <2>1. ~torn /\ Fits(all, file, index) /\ Fits(all, fileComp, indexComp) /\ CarriedSound /\ compactor = "write"
    BY <1>1, <1>3 DEF Content, CompactWrite
  <2>2. carried \in Carried /\ k \in Keys /\ e \in Entry /\ fileComp \in File /\ indexComp \in Index
    BY <2>1 DEF Shape, TypeOK, Carried, Index
  <2>3. /\ r \in LogRec /\ r # Garbage /\ r.key = k /\ r.val \in Values /\ RecSize[r.val] = e.len
        /\ r.del = FALSE
    BY <2>1, SentinelAssumption DEF CarriedSound, Shape, TypeOK, File, IsRecordOf, LogRec
  <2>4. Fits(all, fileComp', indexComp')
    <3>1. CASE indexComp[k] # None
      BY <2>1, <3>1 DEF CompactWrite
    <3>2. CASE indexComp[k] = None
      <4> DEFINE idx == [indexComp EXCEPT ![k] =
                          [off |-> fileComp.size, exp |-> e.exp, len |-> RecSize[r.val]]]
      <4>1. fileComp' = Written(fileComp, k, r.val, FALSE) /\ indexComp' = idx
        BY <2>3, <3>2 DEF CompactWrite, CopyOf, Rewrite, Length
      <4>2. e.exp \in Int
        BY <2>2 DEF Entry
      <4>3. Fits(all, Written(fileComp, k, r.val, FALSE), idx)
        BY <2>1, <2>2, <2>3, <4>2, PutFits
      <4> QED BY <4>1, <4>3
    <3> QED BY <3>1, <3>2
  <2>5. CarriedSound'
    BY <1>1 DEF CarriedSound
  <2> QED BY <1>1, <2>1, <2>4, <2>5 DEF Fits, LaidOut, Points, Restores, Indexed, IsLast, IsRecordOf
<1> QED BY <1>2, <1>3 DEF Content

LEMMA CompactorContent ==
  ASSUME NEW all, Shape, Content(all), Compactor
  PROVE  Content(all)'
<1> USE DEF diskVars, mapVars
<1>1. CASE CheckTrigger \/ CompactBeginFails \/ CompactInterrupted \/ CompactorStops
  BY <1>1, StutterContent
     DEF CheckTrigger, CompactBeginFails, CompactInterrupted, CompactorStops
<1>2. CASE CompactBegin
  <2>1. fileComp' = EmptyFile /\ indexComp' = EmptyIndex
        /\ UNCHANGED <<file, index, torn, leakedRLock>> /\ compactor' # "write"
    BY <1>2 DEF CompactBegin
  <2> QED BY <2>1, EmptyFits DEF Content, CarriedSound, LeakNeedsTornWrite, Fits, LaidOut,
             Points, Restores, Indexed, IsLast, IsRecordOf
<1>3. ASSUME NEW k \in Keys, CompactRead(k) PROVE Content(all)'
  <2>1. CASE indexComp[k] # None
    BY <1>3, <2>1, StutterContent DEF CompactRead
  <2>2. CASE indexComp[k] = None
    <3> DEFINE r == ReadAt(file, snapshot[k])
    <3>1. compactor = "copy" /\ k \in todo /\ carried' = [key |-> k, rec |-> r]
          /\ UNCHANGED <<file, fileComp, index, indexComp, torn, leakedRLock, snapshot>>
      BY <1>3, <2>2 DEF CompactRead
    <3>2. ~torn => r \in file.recs /\ IsRecordOf(r, k, snapshot[k])
      BY <3>1, CopyReads
    <3>3. ~torn' => CarriedSound'
      <4> HIDE DEF r
      <4> QED BY <3>1, <3>2 DEF CarriedSound, IsRecordOf
    <3> QED BY <3>1, <3>3 DEF Content, LeakNeedsTornWrite, Fits, LaidOut, Points, Restores,
               Indexed, IsLast, IsRecordOf
  <2> QED BY <2>1, <2>2
<1>4. ASSUME NEW k \in Keys, CompactReadFails(k) PROVE Content(all)'
  BY <1>4, StutterContent DEF CompactReadFails
<1>5. ASSUME NEW k \in Keys, CompactPanics(k) PROVE Content(all)'
  <2>1. torn
    BY <1>5, CopyReads DEF CompactPanics, Shape, TypeOK
  <2> QED BY <1>5, <2>1 DEF CompactPanics, Content, LeakNeedsTornWrite
<1>6. CASE CompactWrite
  BY <1>6, CompactWriteContent
<1>7. ASSUME NEW n \in FailBytes, CompactWriteFails(n) PROVE Content(all)'
  <2>1. CASE n > 0
    BY <1>7, <2>1 DEF CompactWriteFails, Content, LeakNeedsTornWrite
  <2>2. CASE n = 0
    <3>1. fileComp' = fileComp /\ torn' = torn
      BY <1>7, <2>2, TearZero DEF CompactWriteFails, Shape, TypeOK
    <3> QED BY <1>7, <3>1 DEF CompactWriteFails, Content, CarriedSound, LeakNeedsTornWrite, Fits,
               LaidOut, Points, Restores, Indexed, IsLast, IsRecordOf
  <2> QED BY <2>1, <2>2, FailBytesAssumption
<1>8. CASE CompactEnd \/ RollbackCompact
  <2>1. /\ fileComp' = EmptyFile /\ indexComp' = EmptyIndex /\ compactor' = "idle"
        /\ UNCHANGED <<torn, leakedRLock>>
        /\ \/ file' = file /\ index' = index
           \/ file' = fileComp /\ index' = indexComp
    BY <1>8 DEF CompactEnd, RollbackCompact
  <2>2. ~torn => Fits(all, file', index')
    BY <2>1 DEF Content
  <2>3. LeakNeedsTornWrite' /\ CarriedSound'
    BY <2>1 DEF Content, LeakNeedsTornWrite, CarriedSound
  <2>4. Fits(all, fileComp', indexComp')
    BY <2>1, EmptyFits
  <2> QED BY <2>1, <2>2, <2>3, <2>4 DEF Content, Fits, LaidOut, Points, Restores, Indexed,
             IsLast, IsRecordOf
<1> QED BY <1>1, <1>2, <1>3, <1>4, <1>5, <1>6, <1>7, <1>8 DEF Compactor

LEMMA NextContent ==
  ASSUME NEW all, Shape, Content(all), [Next]_vars
  PROVE  Content(all)'
<1>1. CASE Caller
  BY <1>1, SetContent, DeleteContent, BoundsAssumption DEF Caller
<1>2. CASE StartCompactization \/ Tick \/ Stopping \/ UNCHANGED vars
  BY <1>2, StutterContent
     DEF StartCompactization, Tick, Stopping, Cancel, CloseBegin, CloseEnd, vars, mapVars, compVars
<1> QED BY <1>1, <1>2, DeleterContent, CompactorContent DEF Next, Serving

-----------------------------------------------------------------------------
(* Failed writes *)

\* A file that grows, and stays well laid out, is read as before.
LEMMA GrowthKeepsReads ==
  ASSUME NEW f \in File, NEW g \in File, NEW idx \in Index,
         LaidOut(f), Points(f, idx), LaidOut(g), f.recs \subseteq g.recs,
         NEW k \in Keys, idx[k] # None
  PROVE  ReadAt(g, idx[k]) = ReadAt(f, idx[k])
<1>1. PICK r \in f.recs : IsRecordOf(r, k, idx[k])
  BY DEF Points, Indexed
<1>2. ReadAt(f, idx[k]) = r /\ ReadAt(g, idx[k]) = r
  BY <1>1, ReadsRecord
<1> QED BY <1>2

\* Bytes that are not a record are not read.
LEMMA TearReads ==
  ASSUME NEW f \in File, NEW n \in Nat, NEW e
  PROVE  ReadAt(Tear(f, n), e) = ReadAt(f, e)
BY DEF ReadAt, RecordsAt, Tear, File

\* The tombstone that goes before a failing write only adds to the file.
LEMMA BuriedGrows ==
  ASSUME NEW all, NEW f \in File, NEW idx \in Index, Fits(all, f, idx), NEW k \in Keys
  PROVE  /\ LaidOut(Buried(f, idx[k]))
         /\ f.recs \subseteq Buried(f, idx[k]).recs
<1>1. LaidOut(Buried(f, idx[k]))
  BY BuryFits DEF Fits
<1>2. CASE idx[k] = None
  BY <1>1, <1>2 DEF Buried
<1>3. CASE idx[k] # None
  <2>1. ReadAt(f, idx[k]) # Garbage
    BY <1>3, ReadsEntry DEF Fits
  <2> QED BY <1>1, <1>3, <2>1 DEF Buried, Rewrite, Written
<1> QED BY <1>2, <1>3

\* A key the compaction's index has not got is read from the old file.
ReadsOldFile ==
  \A k \in Keys :
    ~(isActiveComp /\ indexComp[k] # None) => FoundRecord(k) = ReadAt(file, index[k])

LEMMA ReadsOld == ReadsOldFile
BY DEF ReadsOldFile, FoundRecord, Found

\* A failed write to the active file, after f was written, changes no read if f reads as the
\* active file does.
LEMMA FailActiveInvisible ==
  ASSUME Shape, NEW f \in File, NEW n \in FailBytes, FailActive(f, n),
         \A k \in Keys : ActiveIndex[k] # None =>
           ReadAt(f, ActiveIndex[k]) = ReadAt(ActiveFile, ActiveIndex[k])
  PROVE  Visible' = Visible
<1> SUFFICES ASSUME NEW k \in Keys PROVE Get(k)' = Get(k)
  BY DEF Visible
<1>1. n \in Nat
  BY FailBytesAssumption
<1>2. UNCHANGED <<index, indexComp, isActiveComp>> /\ Found(k)' = Found(k)
  BY DEF FailActive, UpdateActive, ActiveIndex, Found
<1>3. CASE Found(k) = None
  BY <1>2, <1>3 DEF Get
<1>4. CASE Found(k) # None
  <2>1. FoundRecord(k)' = FoundRecord(k)
    <3>1. CASE isActiveComp /\ indexComp[k] # None
      <4>1. fileComp' = Tear(f, n) /\ ReadAt(f, indexComp[k]) = ReadAt(fileComp, indexComp[k])
        BY <3>1 DEF FailActive, UpdateActive, ActiveFile, ActiveIndex
      <4>2. ReadAt(fileComp', indexComp[k]) = ReadAt(fileComp, indexComp[k])
        BY <1>1, <4>1, TearReads
      <4>3. FoundRecord(k) = ReadAt(fileComp, indexComp[k])
            /\ FoundRecord(k)' = ReadAt(fileComp', indexComp[k])
        BY <1>2, <3>1 DEF FoundRecord, Found, ReadAt, RecordsAt
      <4> QED BY <4>2, <4>3
    <3>2. CASE ~(isActiveComp /\ indexComp[k] # None)
      <4>1. ReadAt(file', index[k]) = ReadAt(file, index[k])
        <5>1. CASE isActiveComp
          BY <5>1 DEF FailActive, UpdateActive
        <5>2. CASE ~isActiveComp
          <6>1. file' = Tear(f, n)
            BY <5>2 DEF FailActive, UpdateActive
          <6>2. ReadAt(f, index[k]) = ReadAt(file, index[k])
            BY <1>4, <3>2, <5>2 DEF Found, ActiveFile, ActiveIndex
          <6> QED BY <1>1, <6>1, <6>2, TearReads
        <5> QED BY <5>1, <5>2
      <4>2. FoundRecord(k) = ReadAt(file, index[k])
        BY <3>2, ReadsOld DEF ReadsOldFile
      <4>3. FoundRecord(k)' = ReadAt(file, index[k])'
        <5>1. (ReadsOldFile)'
          BY ReadsOld, PTL
        <5> QED BY <1>2, <3>2, <5>1 DEF ReadsOldFile
      <4>4. ReadAt(file, index[k])' = ReadAt(file', index[k])
        BY <1>2 DEF ReadAt, RecordsAt
      <4> QED BY <4>1, <4>2, <4>3, <4>4
    <3> QED BY <3>1, <3>2
  <2> QED BY <1>2, <2>1 DEF Get
<1> QED BY <1>3, <1>4

\* A failed write is one to the active file, of the first record it was to write or of the
\* one after a tombstone; or it is the panic of the sweep, which writes nothing.
LEMMA FailingWrite ==
  ASSUME Shape, WriteFails
  PROVE  \/ UNCHANGED <<diskVars, mapVars>>
         \/ \E n \in FailBytes :
              \/ FailActive(ActiveFile, n)
              \/ \E k \in Keys : FailActive(Buried(ActiveFile, ActiveIndex[k]), n)
<1> DEFINE Goal == \/ UNCHANGED <<diskVars, mapVars>>
                   \/ \E n \in FailBytes :
                        \/ FailActive(ActiveFile, n)
                        \/ \E k \in Keys : FailActive(Buried(ActiveFile, ActiveIndex[k]), n)
<1>1. ASSUME NEW k \in Keys, NEW v \in Values, SetFails(k, v) PROVE Goal
  BY <1>1 DEF SetFails, TombstoneFails, SetFailsOnRecord
<1>2. ASSUME NEW k \in Keys, DeleteFails(k) PROVE Goal
  BY <1>2 DEF DeleteFails, TombstoneFails
<1>3. ASSUME NEW k \in Keys, DeleteExpFails(k) PROVE Goal
  <2>1. ~isActiveComp /\ UNCHANGED <<fileComp, mapVars>>
    BY <1>3 DEF DeleteExpFails, Shape
  <2>2. CASE UNCHANGED <<file, torn>>
    BY <2>1, <2>2 DEF diskVars
  <2>3. ASSUME NEW n \in FailBytes, file' = Tear(file, n), torn' = (torn \/ n > 0)
        PROVE  FailActive(ActiveFile, n)
    BY <2>1, <2>3 DEF FailActive, UpdateActive, ActiveFile, ActiveIndex, mapVars
  <2> QED BY <1>3, <2>2, <2>3 DEF DeleteExpFails
<1>4. ASSUME NEW n \in FailBytes, CompactWriteFails(n) PROVE Goal
  <2>1. isActiveComp
    BY <1>4 DEF CompactWriteFails, Shape
  <2>2. FailActive(ActiveFile, n)
    BY <1>4, <2>1
       DEF CompactWriteFails, FailActive, UpdateActive, ActiveFile, ActiveIndex, mapVars
  <2> QED BY <2>2
<1> HIDE DEF Goal
<1>5. Goal BY <1>1, <1>2, <1>3, <1>4 DEF WriteFails
<1> QED BY <1>5 DEF Goal

\* Only a failed write tears a file.
LEMMA TornStep ==
  ASSUME [Next]_vars, torn' # torn
  PROVE  WriteFails
<1>1. ASSUME NEW k \in Keys, NEW v \in Values, NEW e \in Expirations, Set(k, v, e)
      PROVE  WriteFails
  BY <1>1 DEF Set, SetWrites, WriteFails
<1>2. ASSUME NEW k \in Keys, Delete(k) PROVE WriteFails
  BY <1>2 DEF Delete, DeleteWrites, WriteFails
<1>3. ~(UNCHANGED vars) /\ ~StartCompactization /\ ~Tick /\ ~Stopping
  BY DEF vars, diskVars, StartCompactization, Tick, Stopping, Cancel, CloseBegin, CloseEnd
<1>4. CASE Deleter
  <2>1. /\ ~DeleteExpBegin /\ ~DeleteExpCancelled /\ ~DeleterBlocks /\ ~DeleterStops
        /\ \A k \in Keys : ~DeleteExpKey(k) /\ ~DeleteExpSkips(k)
    BY DEF DeleteExpBegin, DeleteExpCancelled, DeleterBlocks, DeleterStops, DeleteExpKey,
           DeleteExpSkips, diskVars
  <2> QED BY <1>4, <2>1 DEF Deleter, WriteFails
<1>5. CASE Compactor
  <2>1. /\ ~CheckTrigger /\ ~CompactBegin /\ ~CompactBeginFails /\ ~CompactInterrupted
        /\ ~CompactWrite /\ ~CompactEnd /\ ~RollbackCompact /\ ~CompactorStops
        /\ \A k \in Keys : ~CompactRead(k) /\ ~CompactReadFails(k) /\ ~CompactPanics(k)
    BY DEF CheckTrigger, CompactBegin, CompactBeginFails, CompactInterrupted, CompactWrite,
           CompactEnd, RollbackCompact, CompactorStops, CompactRead, CompactReadFails,
           CompactPanics, diskVars
  <2> QED BY <1>5, <2>1 DEF Compactor, WriteFails
<1> QED BY <1>1, <1>2, <1>3, <1>4, <1>5 DEF Next, Serving, Caller

-----------------------------------------------------------------------------
(* Theorems *)

\* The inductive invariant of a shard, from Init and preserved by every step.
THEOREM ShapeAndContent == Spec => [](Shape /\ Content(TRUE))
<1>1. Init => Shape /\ Content(TRUE)
  BY InitShape, InitContent
<1>2. (Shape /\ Content(TRUE)) /\ [Next]_vars => (Shape /\ Content(TRUE))'
  BY NextShape, NextContent
<1> QED BY <1>1, <1>2, PTL DEF Spec

\* Every variable of a shard keeps its type.
THEOREM TypeCorrect == Spec => []TypeOK
BY ShapeAndContent, PTL DEF Shape

\* The copy loop's snapshot stays equal to the index for as long as it is used.
THEOREM SnapshotIsFrozen == Spec => []SnapshotFrozen
BY ShapeAndContent, PTL DEF Shape

\* A compaction always has an owner, and leaves nothing when it is over.
THEOREM CompactionIsOwned == Spec => []CompactionOwned
BY ShapeAndContent, PTL DEF Shape

\* Without bytes of failed writes, every index entry points at its live record.
THEOREM IndexIsSound == Spec => []IndexSound
<1>1. Content(TRUE) => IndexSound
  BY DEF Content, Fits, IndexSound
<1> QED BY <1>1, ShapeAndContent, PTL

\* Without bytes of failed writes, a file restores no entry its index has not got.
THEOREM NothingResurrected == Spec => []NoResurrection
<1>1. Content(TRUE) => NoResurrection
  BY DEF Content, Fits, NoResurrection
<1> QED BY <1>1, ShapeAndContent, PTL

\* The read lock is leaked by a panic only after a failed write has left bytes.
THEOREM NoLeakWithoutTornWrite == Spec => []LeakNeedsTornWrite
BY ShapeAndContent, PTL DEF Content

-----------------------------------------------------------------------------
(* The states in which the map to CheckpointedCache is sound *)

\* What the running DeleteExp has still to delete has expired: callers and the compactor
\* wait for the lock that it holds.
Sweeping == deleter = "sweep" => sweepLeft \subseteq Expired

\* The states in which the map is defined.
Clean == Shape /\ Content(TRUE) /\ Sweeping /\ ~torn

LEMMA InitSweeping == Init => Sweeping
BY DEF Init, Sweeping

\* Nobody touches the index, or sets back the clock, while a sweep holds the lock.
LEMMA NextSweeping == Shape /\ Sweeping /\ [Next]_vars => Sweeping'
<1> SUFFICES ASSUME Shape, Sweeping, [Next]_vars PROVE Sweeping' OBVIOUS
<1> USE DEF Sweeping, Expired, Indexed, LockFree
<1>1. CASE Caller BY <1>1 DEF Caller, Set, Delete, delVars
<1>2. CASE Deleter
  <2>1. CASE DeleteExpBegin BY <2>1 DEF DeleteExpBegin, mapVars
  <2>2. ASSUME NEW k \in Keys, DeleteExpKey(k) PROVE Sweeping'
    <3>1. \A j \in Keys \ {k} : index'[j] = index[j]
      BY <2>2 DEF DeleteExpKey, Shape, TypeOK
    <3> QED BY <2>2, <3>1 DEF DeleteExpKey
  <2>3. ASSUME NEW k \in Keys, DeleteExpSkips(k) \/ DeleteExpFails(k) PROVE Sweeping'
    BY <2>3 DEF DeleteExpSkips, DeleteExpFails, mapVars
  <2>4. CASE DeleteExpCancelled \/ DeleterBlocks \/ DeleterStops
    BY <2>4 DEF DeleteExpCancelled, DeleterBlocks, DeleterStops
  <2> QED BY <1>2, <2>1, <2>2, <2>3, <2>4 DEF Deleter
<1>3. CASE Compactor
  <2>1. CASE CompactEnd \/ RollbackCompact \/ CompactBegin
    BY <2>1 DEF CompactEnd, RollbackCompact, CompactBegin, delVars
  <2>2. CASE ~(CompactEnd \/ RollbackCompact \/ CompactBegin)
    BY <1>3, <2>2 DEF Compactor, CheckTrigger, CompactBeginFails, CompactRead, CompactReadFails,
      CompactPanics, CompactInterrupted, CompactWrite, CompactWriteFails, CompactorStops,
      mapVars, delVars
  <2> QED BY <2>1, <2>2
<1>4. CASE Tick BY <1>4 DEF Tick, mapVars, delVars, Shape, TypeOK, Entry
<1>5. CASE StartCompactization \/ Stopping \/ UNCHANGED vars
  BY <1>5 DEF StartCompactization, Stopping, Cancel, CloseBegin, CloseEnd, vars, mapVars, delVars
<1> QED BY <1>1, <1>2, <1>3, <1>4, <1>5 DEF Next, Serving

-----------------------------------------------------------------------------
(* Items: what a reader gets from a file through an index *)

\* An indexed key has an item, which expires when its entry does.
LEMMA ItemOfEntry ==
  ASSUME NEW f \in File, NEW idx \in Index, Fits(TRUE, f, idx), NEW k \in Keys, idx[k] # None
  PROVE  ItemAt(f, idx[k]) # None /\ ItemAt(f, idx[k]).exp = idx[k].exp
<1>1. ReadAt(f, idx[k]).val \in Values BY ReadsEntry DEF Fits, LogRec
<1>2. idx[k].exp \in Int BY DEF Index, Entry
<1> QED BY <1>1, <1>2, SentinelAssumption DEF ItemAt

\* A file that grows, and stays well laid out, gives the same items.
LEMMA ItemKept ==
  ASSUME NEW f \in File, NEW g \in File, NEW idx \in Index, LaidOut(f), Points(f, idx),
         LaidOut(g), f.recs \subseteq g.recs, NEW k \in Keys
  PROVE  ItemAt(g, idx[k]) = ItemAt(f, idx[k])
BY GrowthKeepsReads DEF ItemAt

\* A record appended is the item of an entry for it.
LEMMA ItemOfAppend ==
  ASSUME NEW f \in File, LaidOut(f), NEW k \in Keys, NEW v \in Values, NEW e \in Int
  PROVE  ItemAt(Written(f, k, v, FALSE), [off |-> f.size, exp |-> e, len |-> RecSize[v]])
           = [val |-> v, exp |-> e]
<1> DEFINE r == [off |-> f.end, key |-> k, val |-> v, del |-> FALSE]
           n == [off |-> f.size, exp |-> e, len |-> RecSize[v]]
<1>1. Written(f, k, v, FALSE) \in File /\ LaidOut(Written(f, k, v, FALSE))
  BY AppendType, AppendLaidOut
<1>2. r \in Written(f, k, v, FALSE).recs BY DEF Written
<1>3. IsRecordOf(r, k, n) BY DEF LaidOut, IsRecordOf
<1>4. ReadAt(Written(f, k, v, FALSE), n) = r BY <1>1, <1>2, <1>3, ReadsRecord
<1>5. n # None BY SentinelAssumption, RecSizeAssumption DEF Entry, File
<1>6. r.val = v /\ n.exp = e OBVIOUS
<1> HIDE DEF r, n
<1>7. ItemAt(Written(f, k, v, FALSE), n) = [val |-> v, exp |-> e] BY <1>4, <1>5, <1>6 DEF ItemAt
<1> QED BY <1>7 DEF n

\* What a Set that writes makes of a file and its index.
SetFile(f, idx, k, v) == Written(Buried(f, idx[k]), k, v, FALSE)
SetIndex(f, idx, k, v, e) ==
  [idx EXCEPT ![k] = [off |-> Buried(f, idx[k]).size, exp |-> e, len |-> RecSize[v]]]

\* A Set changes the item of its key and of no other.
LEMMA ItemsAfterSet ==
  ASSUME NEW f \in File, NEW idx \in Index, LaidOut(f), Points(f, idx),
         NEW k \in Keys, NEW v \in Values, NEW e \in Int
  PROVE  \A j \in Keys :
           /\ SetIndex(f, idx, k, v, e)[j] = None <=> j # k /\ idx[j] = None
           /\ ItemAt(SetFile(f, idx, k, v), SetIndex(f, idx, k, v, e)[j])
                = IF j = k THEN [val |-> v, exp |-> e] ELSE ItemAt(f, idx[j])
<1> DEFINE g == Buried(f, idx[k])
           h == Written(g, k, v, FALSE)
           new == [off |-> g.size, exp |-> e, len |-> RecSize[v]]
           jdx == [idx EXCEPT ![k] = new]
<1>1. g \in File /\ LaidOut(g) /\ Points(g, idx) /\ f.recs \subseteq g.recs
  <2>1. Fits(FALSE, f, idx) BY DEF Fits
  <2>2. Fits(FALSE, g, idx) /\ f.recs \subseteq g.recs BY <2>1, BuryFits, BuriedGrows
  <2> QED BY <2>2, BuriedType DEF Fits, Index
<1>2. g \in File /\ LaidOut(g) BY <1>1
<1> HIDE DEF g
<1>3. h \in File /\ LaidOut(h) /\ g.recs \subseteq h.recs
  BY <1>2, AppendType, AppendLaidOut DEF Written
<1>4. new # None BY <1>2, SentinelAssumption, RecSizeAssumption DEF Entry, File
<1>5. ItemAt(h, new) = [val |-> v, exp |-> e] BY <1>2, ItemOfAppend
<1>6. \A j \in Keys : ItemAt(h, idx[j]) = ItemAt(f, idx[j])
  <2> HIDE DEF h
  <2>1. \A j \in Keys : ItemAt(h, idx[j]) = ItemAt(g, idx[j]) BY <1>1, <1>3, ItemKept
  <2>2. \A j \in Keys : ItemAt(g, idx[j]) = ItemAt(f, idx[j]) BY <1>1, <1>2, ItemKept
  <2> QED BY <2>1, <2>2
<1>7. jdx[k] = new /\ \A j \in Keys \ {k} : jdx[j] = idx[j]
  <2> HIDE DEF new
  <2> QED BY DEF Index
<1>8. ASSUME NEW j \in Keys
      PROVE  /\ jdx[j] = None <=> j # k /\ idx[j] = None
             /\ ItemAt(h, jdx[j]) = IF j = k THEN [val |-> v, exp |-> e] ELSE ItemAt(f, idx[j])
  <2> HIDE DEF h, new, jdx
  <2> QED BY <1>4, <1>5, <1>6, <1>7
<1> QED BY <1>8 DEF g, SetFile, SetIndex

\* A tombstone changes the item of no key of the index that remains.
LEMMA ItemsAfterBury ==
  ASSUME NEW f \in File, NEW idx \in Index, Fits(TRUE, f, idx), NEW k \in Keys, NEW j \in Keys
  PROVE  ItemAt(Buried(f, idx[k]), idx[j]) = ItemAt(f, idx[j])
BY BuryFits, BuriedType, BuriedGrows, ItemKept DEF Index, Fits
-----------------------------------------------------------------------------
(* The map, before and after a step *)

\* What the map shows after a step.
LEMMA MapAfter ==
  /\ Store' = [k \in Keys |-> IF isActiveComp' /\ indexComp'[k] # None
                             THEN ItemAt(fileComp', indexComp'[k]) ELSE ItemAt(file', index'[k])]
  /\ Saved' = [k \in Keys |-> IF isActiveComp' THEN ItemAt(file', index'[k]) ELSE None]
BY DEF Store, Saved, ItemAt, ReadAt, RecordsAt

\* A clean shard: two files that fit their indexes, and nobody to leave the lock behind.
LEMMA CleanFacts ==
  ASSUME Clean
  PROVE  /\ file \in File /\ fileComp \in File /\ index \in Index /\ indexComp \in Index
         /\ Fits(TRUE, file, index) /\ Fits(TRUE, fileComp, indexComp)
         /\ ~leakedRLock /\ isActiveComp \in BOOLEAN
         /\ isActiveComp => snapshot = index /\ compactor \in {"copy", "write", "failed"}
         /\ compactor \in {"copy", "write"} => isActiveComp
         /\ deleter = "sweep" => ~isActiveComp
BY DEF Clean, Shape, Content, TypeOK, Index, LeakNeedsTornWrite, SnapshotFrozen, CompactionOwned

\* A step that leaves what the map is made of alone, or changes of it only where the copy
\* loop is without dropping a key, is a stutter of the cache.
LEMMA SameMap ==
  ASSUME UNCHANGED <<file, fileComp, index, indexComp, isActiveComp, now>>,
         isActiveComp => (compactor' = "failed" <=> compactor = "failed"),
         Compacting => Dropped' = Dropped
  PROVE  UNCHANGED Cache!vars
<1>1. Store' = Store /\ Saved' = Saved BY MapAfter DEF Store, Saved
<1>2. Phase' = Phase /\ Lost' = Lost BY DEF Phase, Lost, Compacting
<1> QED BY <1>1, <1>2 DEF Cache!vars
\* The copy loop has dropped no key that is written now, and drops none because of that.
LEMMA DroppedAfterUpdate ==
  ASSUME Clean, isActiveComp, NEW k \in Keys, NEW n,
         indexComp' = [indexComp EXCEPT ![k] = n],
         UNCHANGED <<index, todo, compactor, carried>>
  PROVE  Dropped' \ {k} = Dropped \ {k} /\ (n # None => Dropped' = Dropped \ {k})
<1>1. \A j \in Keys \ {k} : indexComp'[j] = indexComp[j] BY CleanFacts DEF Index
<1>2. indexComp'[k] = n BY CleanFacts DEF Index
<1> QED BY <1>1, <1>2 DEF Dropped, Indexed

-----------------------------------------------------------------------------
(* Callers *)

\* A Set that writes puts its item.
LEMMA SetWritesPuts ==
  ASSUME Clean, NEW k \in Keys, NEW v \in Values, NEW e \in Expirations, SetWrites(k, v, e),
         UNCHANGED <<compVars, now>>
  PROVE  Cache!Put(k, [val |-> v, exp |-> e])
<1> DEFINE item == [val |-> v, exp |-> e]
           h == SetFile(ActiveFile, ActiveIndex, k, v)
           jdx == SetIndex(ActiveFile, ActiveIndex, k, v, e)
<1>0. e \in Int BY BoundsAssumption
<1>1. /\ file \in File /\ fileComp \in File /\ index \in Index /\ indexComp \in Index
      /\ Fits(TRUE, file, index) /\ Fits(TRUE, fileComp, indexComp) /\ isActiveComp \in BOOLEAN
  BY CleanFacts
<1>2. \A j \in Keys : /\ jdx[j] = None <=> j # k /\ ActiveIndex[j] = None
                      /\ ItemAt(h, jdx[j]) = IF j = k THEN item ELSE ItemAt(ActiveFile, ActiveIndex[j])
  <2>1. ActiveFile \in File /\ ActiveIndex \in Index /\ Fits(TRUE, ActiveFile, ActiveIndex)
    BY <1>1 DEF ActiveFile, ActiveIndex
  <2>2. LaidOut(ActiveFile) /\ Points(ActiveFile, ActiveIndex) BY <2>1 DEF Fits
  <2> QED BY <1>0, <2>1, <2>2, ItemsAfterSet
<1>3. UpdateActive(h, jdx) BY DEF SetWrites, SetFile, SetIndex
<1>4. item \in Cache!Item BY DEF Cache!Item
<1>5. CASE isActiveComp
  <2>1. ActiveFile = fileComp /\ ActiveIndex = indexComp BY <1>5 DEF ActiveFile, ActiveIndex
  <2>2. fileComp' = h /\ indexComp' = jdx /\ UNCHANGED <<file, index, isActiveComp>>
    BY <1>3, <1>5 DEF UpdateActive
  <2> HIDE DEF h, jdx, item
  <2>3. Saved' = Saved /\ Phase' = Phase
    BY <2>2, MapAfter DEF Saved, Phase, Compacting, compVars
  <2>4. Store' = [Store EXCEPT ![k] = item]
    BY <1>2, <1>5, <2>1, <2>2, MapAfter DEF Store
  <2>5. Lost' = Lost \ {k}
    <3> DEFINE n == [off |-> Buried(fileComp, indexComp[k]).size, exp |-> e, len |-> RecSize[v]]
    <3>1. indexComp' = [indexComp EXCEPT ![k] = n] BY <2>1, <2>2 DEF jdx, SetIndex
    <3> HIDE DEF n
    <3>2. n # None BY <1>1, <1>2, <2>2, <3>1 DEF Index
    <3>3. Dropped' = Dropped \ {k}
      BY <1>5, <2>2, <3>1, <3>2, DroppedAfterUpdate DEF compVars
    <3> QED BY <2>2, <3>3 DEF Lost, Compacting, compVars
  <2>6. Cache!Put(k, item) BY <1>4, <2>3, <2>4, <2>5 DEF Cache!Put
  <2> QED BY <2>6 DEF item
<1>6. CASE ~isActiveComp
  <2>1. ActiveFile = file /\ ActiveIndex = index BY <1>6 DEF ActiveFile, ActiveIndex
  <2>2. file' = h /\ index' = jdx /\ UNCHANGED <<fileComp, indexComp, isActiveComp>>
    BY <1>3, <1>6 DEF UpdateActive
  <2> HIDE DEF h, jdx, item
  <2>3. Saved' = Saved /\ Phase' = Phase /\ Lost' = Lost \ {k}
    BY <1>6, <2>2, MapAfter DEF Saved, Phase, Lost, Compacting
  <2>4. Store' = [Store EXCEPT ![k] = item]
    BY <1>2, <1>6, <2>1, <2>2, MapAfter DEF Store
  <2>5. Cache!Put(k, item) BY <1>4, <2>3, <2>4 DEF Cache!Put
  <2> QED BY <2>5 DEF item
<1> QED BY <1>1, <1>5, <1>6

\* A write that fails and leaves nothing, be it after a tombstone, changes no item.
LEMMA FailActiveStutters ==
  ASSUME Clean, ~torn', NEW n \in FailBytes, NEW f \in File, FailActive(f, n),
         LaidOut(f), ActiveFile.recs \subseteq f.recs, UNCHANGED <<compVars, now>>
  PROVE  UNCHANGED Cache!vars
<1>1. /\ file \in File /\ fileComp \in File /\ index \in Index /\ indexComp \in Index
      /\ Fits(TRUE, file, index) /\ Fits(TRUE, fileComp, indexComp) /\ isActiveComp \in BOOLEAN
  BY CleanFacts
<1>2. n = 0
  <2>1. ~(n > 0) BY Zenon DEF FailActive, Clean
  <2> QED BY <2>1, FailBytesAssumption
<1>3. UpdateActive(f, ActiveIndex) BY <1>2, TearZero DEF FailActive
<1>4. UNCHANGED <<index, indexComp, isActiveComp>> BY <1>3 DEF UpdateActive, ActiveIndex
<1>5. \A j \in Keys : /\ ItemAt(file', index[j]) = ItemAt(file, index[j])
                      /\ ItemAt(fileComp', indexComp[j]) = ItemAt(fileComp, indexComp[j])
  <2>0. /\ LaidOut(file) /\ Points(file, index) /\ LaidOut(fileComp) /\ Points(fileComp, indexComp)
    BY <1>1 DEF Fits
  <2>1. CASE isActiveComp
    <3>1. fileComp' = f /\ file' = file /\ fileComp.recs \subseteq f.recs
      BY <1>3, <2>1 DEF UpdateActive, ActiveFile
    <3> QED BY <1>1, <2>0, <3>1, ItemKept
  <2>2. CASE ~isActiveComp
    <3>1. file' = f /\ fileComp' = fileComp /\ file.recs \subseteq f.recs
      BY <1>3, <2>2 DEF UpdateActive, ActiveFile
    <3> QED BY <1>1, <2>0, <3>1, ItemKept
  <2> QED BY <2>1, <2>2
<1>6. Store' = Store /\ Saved' = Saved BY <1>4, <1>5, MapAfter DEF Store, Saved
<1>7. Phase' = Phase /\ Lost' = Lost
  BY <1>4 DEF Phase, Lost, Compacting, Dropped, Indexed, compVars
<1> QED BY <1>6, <1>7 DEF Cache!vars

\* A Set puts what it was given, or changes nothing.
LEMMA SetStep ==
  ASSUME Clean, ~torn', NEW k \in Keys, NEW v \in Values, NEW e \in Expirations, Set(k, v, e)
  PROVE  [Cache!Put(k, [val |-> v, exp |-> e])]_(Cache!vars)
<1>1. UNCHANGED <<compVars, now>> BY DEF Set
<1>2. ActiveFile \in File /\ ActiveIndex \in Index /\ Fits(TRUE, ActiveFile, ActiveIndex)
  BY ActiveType, ActiveFits DEF Clean
<1>3. LaidOut(ActiveFile) BY <1>2 DEF Fits
<1>4. ASSUME NEW n \in FailBytes, TombstoneFails(k, n) PROVE UNCHANGED Cache!vars
  BY <1>1, <1>2, <1>3, <1>4, FailActiveStutters DEF TombstoneFails
<1>5. ASSUME NEW n \in FailBytes, SetFailsOnRecord(k, v, n) PROVE UNCHANGED Cache!vars
  <2> DEFINE g == Buried(ActiveFile, ActiveIndex[k])
  <2>1. FailActive(g, n) BY <1>5 DEF SetFailsOnRecord
  <2>2. g \in File /\ LaidOut(g) /\ ActiveFile.recs \subseteq g.recs
    BY <1>2, BuriedType, BuriedGrows DEF Index
  <2> HIDE DEF g
  <2> QED BY <1>1, <2>1, <2>2, FailActiveStutters
<1> QED BY <1>1, <1>4, <1>5, SetWritesPuts DEF Set, SetFails

\* A Delete removes: during a compaction it uncovers the entry of the old file, which the
\* copy loop carries over if it has still to come to it.
LEMMA DeleteWritesRemoves ==
  ASSUME Clean, NEW k \in Keys, ActiveIndex[k] # None, DeleteWrites(k),
         UNCHANGED <<compVars, now>>
  PROVE  Cache!Remove(k)
<1> DEFINE h == Buried(ActiveFile, ActiveIndex[k])
           jdx == [ActiveIndex EXCEPT ![k] = None]
<1>1. /\ file \in File /\ fileComp \in File /\ index \in Index /\ indexComp \in Index
      /\ Fits(TRUE, file, index) /\ Fits(TRUE, fileComp, indexComp) /\ isActiveComp \in BOOLEAN
  BY CleanFacts
<1>2. ActiveFile \in File /\ ActiveIndex \in Index /\ Fits(TRUE, ActiveFile, ActiveIndex)
  BY <1>1 DEF ActiveFile, ActiveIndex
<1>3. /\ jdx[k] = None
      /\ \A j \in Keys \ {k} : jdx[j] = ActiveIndex[j]
      /\ \A j \in Keys : ItemAt(h, ActiveIndex[j]) = ItemAt(ActiveFile, ActiveIndex[j])
  BY <1>2, ItemsAfterBury DEF Index
<1>4. UpdateActive(h, jdx) BY DEF DeleteWrites
<1>5. ItemAt(ActiveFile, ActiveIndex[k]) # None BY <1>2, ItemOfEntry
<1>6. ItemAt(h, None) = None BY DEF ItemAt
<1>7. CASE isActiveComp
  <2>1. ActiveFile = fileComp /\ ActiveIndex = indexComp BY <1>7 DEF ActiveFile, ActiveIndex
  <2>2. fileComp' = h /\ indexComp' = jdx /\ UNCHANGED <<file, index, isActiveComp>>
    BY <1>4, <1>7 DEF UpdateActive
  <2>3. Saved' = Saved /\ Phase' = Phase
    BY <2>2, MapAfter DEF Saved, Phase, Compacting, compVars
  <2>4. Dropped' \ {k} = Dropped \ {k} BY <1>7, <2>1, <2>2, DroppedAfterUpdate DEF compVars
  <2> HIDE DEF h, jdx
  <2>5. Store[k] # None BY <1>5, <1>7, <2>1 DEF Store
  <2>6. Store' = [Store EXCEPT ![k] = Saved[k]]
    BY <1>3, <1>7, <2>1, <2>2, MapAfter DEF Store, Saved
  <2>7. k \notin Dropped BY <2>1 DEF Dropped
  <2>8. k \in Dropped' => Saved[k] # None
    BY <1>1, <1>7, <2>2, ItemOfEntry DEF Dropped, Indexed, Saved
  <2>9. CASE compactor = "failed"
    BY <2>2, <2>3, <2>5, <2>6, <2>9 DEF Lost, Compacting, compVars, Cache!Remove
  <2>10. CASE compactor # "failed"
    <3>1. Lost = Dropped /\ Lost' = Dropped' /\ Phase = "compacting"
      BY <1>7, <2>2, <2>10 DEF Lost, Phase, Compacting, compVars
    <3>2. Lost' = Lost \/ (k \in Dropped' /\ Lost' = Lost \cup {k})
      BY <2>4, <2>7, <3>1
    <3> QED BY <2>3, <2>5, <2>6, <2>8, <3>1, <3>2 DEF Cache!Remove
  <2> QED BY <2>9, <2>10
<1>8. CASE ~isActiveComp
  <2>1. ActiveFile = file /\ ActiveIndex = index BY <1>8 DEF ActiveFile, ActiveIndex
  <2>2. file' = h /\ index' = jdx /\ UNCHANGED <<fileComp, indexComp, isActiveComp>>
    BY <1>4, <1>8 DEF UpdateActive
  <2> HIDE DEF h, jdx
  <2>3. Saved' = Saved /\ Phase' = Phase /\ Lost' = Lost /\ Saved[k] = None
    BY <1>8, <2>2, MapAfter DEF Saved, Phase, Lost, Compacting
  <2>4. Store[k] # None BY <1>5, <1>8, <2>1 DEF Store
  <2>5. Store' = [Store EXCEPT ![k] = Saved[k]]
    BY <1>3, <1>6, <1>8, <2>1, <2>2, <2>3, MapAfter DEF Store
  <2> QED BY <2>3, <2>4, <2>5 DEF Cache!Remove
<1> QED BY <1>1, <1>7, <1>8

\* A Delete removes its key, or changes nothing.
LEMMA DeleteStep ==
  ASSUME Clean, ~torn', NEW k \in Keys, Delete(k)
  PROVE  [Cache!Remove(k)]_(Cache!vars)
<1>1. UNCHANGED <<compVars, now>> /\ ActiveIndex[k] # None BY DEF Delete
<1>2. ActiveFile \in File /\ Fits(TRUE, ActiveFile, ActiveIndex) BY ActiveType, ActiveFits DEF Clean
<1>3. ASSUME NEW n \in FailBytes, FailActive(ActiveFile, n) PROVE UNCHANGED Cache!vars
  BY <1>1, <1>2, <1>3, FailActiveStutters DEF Fits
<1> QED BY <1>1, <1>3, DeleteWritesRemoves DEF Delete, DeleteFails, TombstoneFails
-----------------------------------------------------------------------------
(* The goroutines *)

\* The deleting goroutine lets an expired entry go, or changes nothing.
LEMMA DeleterStep ==
  ASSUME Clean, ~torn', Deleter
  PROVE  [Cache!Internal]_(Cache!vars)
<1>1. /\ file \in File /\ fileComp \in File /\ index \in Index /\ indexComp \in Index
      /\ Fits(TRUE, file, index)
  BY CleanFacts
<1>2. ASSUME UNCHANGED <<file, mapVars, fileComp, compVars, now>> PROVE UNCHANGED Cache!vars
  BY <1>2, SameMap DEF mapVars, compVars, Dropped, Indexed
<1>3. CASE DeleteExpBegin \/ DeleteExpCancelled \/ DeleterBlocks \/ DeleterStops
  BY <1>2, <1>3
     DEF DeleteExpBegin, DeleteExpCancelled, DeleterBlocks, DeleterStops, diskVars
<1>4. ASSUME NEW k \in Keys, DeleteExpSkips(k) PROVE UNCHANGED Cache!vars
  BY <1>2, <1>4 DEF DeleteExpSkips, diskVars
<1>5. ASSUME NEW k \in Keys, DeleteExpFails(k) PROVE UNCHANGED Cache!vars
  <2>1. file' = file
    <3>1. ASSUME NEW n \in FailBytes, file' = Tear(file, n), torn' = (torn \/ n > 0)
          PROVE  file' = file
      <4>1. ~(n > 0) BY <3>1, Zenon DEF Clean
      <4> QED BY <1>1, <3>1, <4>1, TearZero, FailBytesAssumption
    <3> QED BY <1>5, <3>1 DEF DeleteExpFails
  <2> QED BY <1>2, <1>5, <2>1 DEF DeleteExpFails
<1>6. ASSUME NEW k \in Keys, DeleteExpKey(k) PROVE Cache!Expire(k)
  <2>1. /\ ~isActiveComp /\ index[k] # None /\ index[k].exp < now
    BY <1>1, <1>6, CleanFacts
       DEF DeleteExpKey, Clean, Sweeping, Expired, Indexed, Index, Entry, Shape, TypeOK
  <2>2. /\ file' = Buried(file, index[k]) /\ index' = [index EXCEPT ![k] = None]
        /\ UNCHANGED <<fileComp, indexComp, isActiveComp, compVars, now>>
    BY <1>6 DEF DeleteExpKey
  <2>3. Store[k] # None /\ Store[k].exp < now
    BY <1>1, <2>1, ItemOfEntry DEF Store
  <2>4. /\ index'[k] = None
        /\ \A j \in Keys \ {k} : index'[j] = index[j]
        /\ \A j \in Keys : ItemAt(file', index[j]) = ItemAt(file, index[j])
    BY <1>1, <2>2, ItemsAfterBury DEF Index
  <2>5. ItemAt(file', None) = None BY DEF ItemAt
  <2>6. Store' = [Store EXCEPT ![k] = None] BY <2>1, <2>2, <2>4, <2>5, MapAfter DEF Store
  <2>7. Saved' = Saved /\ Lost' = Lost /\ Phase' = Phase /\ Phase = "open"
    BY <2>1, <2>2, MapAfter DEF Saved, Lost, Phase, Compacting
  <2> QED BY <2>2, <2>3, <2>6, <2>7 DEF Cache!Expire
<1> QED BY <1>3, <1>4, <1>5, <1>6 DEF Deleter, Cache!Internal

\* The copy loop gives up: what was put since the compaction began will be taken back.
LEMMA GivesUp ==
  ASSUME Clean, compactor \in {"copy", "write"}, compactor' = "failed",
         UNCHANGED <<file, fileComp, index, indexComp, isActiveComp, now>>
  PROVE  Cache!Doom
<1>1. isActiveComp BY CleanFacts
<1>2. Store' = Store /\ Saved' = Saved BY MapAfter DEF Store, Saved
<1>3. Phase = "compacting" /\ Phase' = "doomed" /\ Lost' = {}
  BY <1>1 DEF Phase, Lost, Compacting
<1> QED BY <1>2, <1>3 DEF Cache!Doom

\* The copy of a record has the item of the record: nobody wrote the key meanwhile, and
\* the old file has not moved.
LEMMA CompactWriteStep ==
  ASSUME Clean, CompactWrite
  PROVE  UNCHANGED Cache!vars
<1> DEFINE k == carried.key
           r == carried.rec
           e == index[k]
<1>1. /\ file \in File /\ fileComp \in File /\ index \in Index /\ indexComp \in Index
      /\ Fits(TRUE, file, index) /\ Fits(TRUE, fileComp, indexComp)
      /\ isActiveComp /\ snapshot = index
  BY CleanFacts DEF CompactWrite
<1>2. /\ compactor = "write" /\ compactor' = "copy"
      /\ UNCHANGED <<file, index, isActiveComp, todo, now>>
  BY DEF CompactWrite
<1>3. CASE indexComp[k] # None
  <2>1. UNCHANGED <<fileComp, indexComp>> BY <1>3 DEF CompactWrite
  <2>2. Dropped' = Dropped BY <1>2, <1>3, <2>1 DEF Dropped, Indexed
  <2> QED BY <1>2, <2>1, <2>2, SameMap
<1>4. CASE indexComp[k] = None
  <2> DEFINE n == [off |-> fileComp.size, exp |-> e.exp, len |-> RecSize[r.val]]
  <2>1. carried \in Carried /\ k \in Keys /\ e \in Entry /\ e # None /\ e.exp \in Int
    BY <1>1, <1>2 DEF Clean, Shape, TypeOK, Carried, Index, Entry
  <2>2. r \in file.recs /\ IsRecordOf(r, k, e) /\ r \in LogRec /\ r # Garbage
    BY <1>1, <1>2, SentinelAssumption DEF Clean, Content, CarriedSound, File
  <2>3. r.key = k /\ r.val \in Values /\ RecSize[r.val] = e.len /\ r.del = FALSE
    BY <2>2 DEF IsRecordOf, LogRec
  <2>4. /\ fileComp' = Written(fileComp, k, r.val, FALSE)
        /\ indexComp' = [indexComp EXCEPT ![k] = n]
    BY <1>1, <1>4, <2>2, <2>3 DEF CompactWrite, CopyOf, Rewrite, Length
  <2>5. n # None BY <1>1, <2>1, <2>3, SentinelAssumption, RecSizeAssumption DEF Entry, File
  <2>6. ItemAt(fileComp', n) = [val |-> r.val, exp |-> e.exp]
    BY <1>1, <2>1, <2>3, <2>4, ItemOfAppend DEF Fits
  <2>7. ItemAt(file, e) = [val |-> r.val, exp |-> e.exp]
    <3>1. ReadAt(file, e) = r BY <1>1, <2>2, ReadsRecord DEF Fits
    <3> QED BY <2>1, <3>1 DEF ItemAt
  <2>8. \A j \in Keys : ItemAt(fileComp', indexComp[j]) = ItemAt(fileComp, indexComp[j])
    <3>1. fileComp' \in File /\ LaidOut(fileComp') /\ fileComp.recs \subseteq fileComp'.recs
      BY <1>1, <2>3, <2>4, <2>1, AppendType, AppendLaidOut DEF Fits, Written
    <3>2. LaidOut(fileComp) /\ Points(fileComp, indexComp) BY <1>1 DEF Fits
    <3> QED BY <1>1, <3>1, <3>2, ItemKept
  <2>9. indexComp'[k] = n /\ \A j \in Keys \ {k} : indexComp'[j] = indexComp[j]
    <3> HIDE DEF n
    <3> QED BY <1>1, <2>1, <2>4 DEF Index
  <2> HIDE DEF n
  <2>10. Store' = Store /\ Saved' = Saved
    BY <1>1, <1>2, <1>4, <2>1, <2>5, <2>6, <2>7, <2>8, <2>9, MapAfter DEF Store, Saved
  <2>11. Dropped' = Dropped BY <1>2, <2>1, <2>5, <2>9 DEF Dropped, Indexed
  <2>12. Phase' = Phase /\ Lost' = Lost BY <1>2, <2>11 DEF Phase, Lost, Compacting
  <2> QED BY <1>2, <2>10, <2>12 DEF Cache!vars
<1> QED BY <1>3, <1>4
\* A compaction begins with what readers see, and commits to it but for the keys that were
\* removed and not carried over, or it gives way to what it began with.
LEMMA CompactorStep ==
  ASSUME Clean, ~torn', Compactor
  PROVE  [Cache!Internal]_(Cache!vars)
<1>1. /\ file \in File /\ fileComp \in File /\ index \in Index /\ indexComp \in Index
      /\ ~leakedRLock /\ isActiveComp \in BOOLEAN
      /\ isActiveComp => snapshot = index /\ compactor \in {"copy", "write", "failed"}
      /\ compactor \in {"copy", "write"} => isActiveComp
  BY CleanFacts
<1> USE DEF Cache!Internal
<1>2. CASE CheckTrigger \/ CompactBeginFails \/ CompactorStops
  <2>1. /\ compactor \in {"idle", "begin"} /\ ~isActiveComp
        /\ UNCHANGED <<file, fileComp, index, indexComp, isActiveComp, now>>
    BY <1>1, <1>2 DEF CheckTrigger, CompactBeginFails, CompactorStops, diskVars, mapVars
  <2> QED BY <2>1, SameMap DEF Compacting
<1>3. CASE CompactBegin
  <2>1. ~isActiveComp /\ isActiveComp' = TRUE /\ compactor' = "copy"
        /\ indexComp' = EmptyIndex /\ todo' = Indexed(index)
        /\ UNCHANGED <<file, index, now>>
    BY <1>1, <1>3 DEF CompactBegin
  <2>2. Store' = Store /\ Saved' = Store BY <2>1, MapAfter DEF Store, EmptyIndex
  <2>3. Dropped' = {} BY <2>1 DEF Dropped, Indexed
  <2>4. Phase = "open" /\ Phase' = "compacting" /\ Lost = {} /\ Lost' = {}
    BY <2>1, <2>3 DEF Phase, Lost, Compacting
  <2> QED BY <2>1, <2>2, <2>4 DEF Cache!BeginCompaction
<1>4. ASSUME NEW k \in Keys, CompactRead(k) PROVE UNCHANGED Cache!vars
  <2>1. /\ compactor = "copy" /\ compactor' \in {"copy", "write"} /\ k \in todo
        /\ todo' = todo \ {k}
        /\ UNCHANGED <<file, fileComp, index, indexComp, isActiveComp, now>>
    BY <1>4 DEF CompactRead, diskVars, mapVars
  <2>2. \/ indexComp[k] # None /\ compactor' = "copy"
        \/ indexComp[k] = None /\ compactor' = "write" /\ carried'.key = k
    BY <1>4 DEF CompactRead
  <2>3. Dropped' = Dropped BY <2>1, <2>2 DEF Dropped, Indexed
  <2> QED BY <2>1, <2>3, SameMap
<1>5. ASSUME NEW k \in Keys, CompactReadFails(k) PROVE Cache!Doom
  BY <1>5, GivesUp DEF CompactReadFails, diskVars, mapVars
<1>6. ASSUME NEW k \in Keys PROVE ~CompactPanics(k)
  BY CopyReads DEF CompactPanics, Clean
<1>7. CASE CompactInterrupted
  BY <1>7, GivesUp DEF CompactInterrupted, diskVars, mapVars
<1>8. CASE CompactWrite BY <1>8, CompactWriteStep
<1>9. ASSUME NEW n \in FailBytes, CompactWriteFails(n) PROVE Cache!Doom
  <2>1. n = 0
    <3>1. ~(n > 0) BY <1>9, Zenon DEF CompactWriteFails, Clean
    <3> QED BY <3>1, FailBytesAssumption
  <2>2. fileComp' = fileComp BY <1>1, <1>9, <2>1, TearZero DEF CompactWriteFails
  <2> QED BY <1>9, <2>2, GivesUp DEF CompactWriteFails, mapVars
<1>10. CASE CompactEnd
  <2>1. /\ isActiveComp /\ compactor = "copy" /\ todo = {}
        /\ file' = fileComp /\ index' = indexComp /\ ~isActiveComp' /\ now' = now
    BY <1>1, <1>10 DEF CompactEnd
  <2>2. Phase = "compacting" /\ Phase' = "open" /\ Lost = Dropped /\ Lost' = {}
    BY <2>1 DEF Phase, Lost, Compacting
  <2>3. Saved' = Cache!Empty BY <2>1, MapAfter DEF Cache!Empty
  <2>4. ASSUME NEW k \in Keys
        PROVE  ItemAt(fileComp, indexComp[k]) = IF k \in Dropped THEN None ELSE Store[k]
    <3>1. CASE indexComp[k] # None BY <2>1, <3>1 DEF Dropped, Store
    <3>2. CASE indexComp[k] = None
      BY <2>1, <3>2 DEF Dropped, Indexed, Store, ItemAt
    <3> QED BY <3>1, <3>2
  <2>5. Store' = [k \in Keys |-> IF k \in Lost THEN None ELSE Store[k]]
    BY <2>1, <2>2, <2>4, MapAfter
  <2> QED BY <2>1, <2>2, <2>3, <2>5 DEF Cache!Commit
<1>11. CASE RollbackCompact
  <2>1. /\ compactor = "failed" /\ compactor' = "idle" /\ ~isActiveComp'
        /\ UNCHANGED <<file, index, now>>
    BY <1>11 DEF RollbackCompact
  <2>2. Phase' = "open" /\ Lost' = Lost /\ Saved' = Cache!Empty
    BY <2>1, MapAfter DEF Phase, Lost, Compacting, Cache!Empty
  <2>3. CASE isActiveComp
    <3>1. Phase = "doomed" BY <2>1, <2>3 DEF Phase, Compacting
    <3>2. Store' = Saved BY <2>1, <2>3, MapAfter DEF Saved
    <3> QED BY <2>1, <2>2, <3>1, <3>2 DEF Cache!Abort
  <2>4. CASE ~isActiveComp
    <3>1. Phase = "open" /\ Saved = Cache!Empty BY <2>4 DEF Phase, Compacting, Saved, Cache!Empty
    <3>2. Store' = Store BY <2>1, <2>4, MapAfter DEF Store
    <3> QED BY <2>1, <2>2, <3>1, <3>2 DEF Cache!vars
  <2> QED BY <2>3, <2>4
<1> QED BY <1>2, <1>3, <1>4, <1>5, <1>6, <1>7, <1>8, <1>9, <1>10, <1>11 DEF Compactor

\* The clock is the cache's clock; the trigger and the shutdown do not concern it.
LEMMA ClockStep ==
  ASSUME Clean, StartCompactization \/ Tick \/ Stopping
  PROVE  [Cache!Internal]_(Cache!vars)
<1>1. UNCHANGED <<file, fileComp, index, indexComp, isActiveComp, compVars, delVars>>
  BY DEF StartCompactization, Tick, Stopping, Cancel, CloseBegin, CloseEnd, diskVars, mapVars
<1>2. Dropped' = Dropped BY <1>1 DEF Dropped, Indexed, compVars
<1>3. CASE Tick
  <2>1. Store' = Store /\ Saved' = Saved BY <1>1, MapAfter DEF Store, Saved
  <2>2. Phase' = Phase /\ Lost' = Lost BY <1>1, <1>2 DEF Phase, Lost, Compacting, compVars
  <2>3. Cache!Tick BY <1>3, <2>1, <2>2 DEF Tick, Cache!Tick
  <2> QED BY <2>3 DEF Cache!Internal
<1>4. CASE StartCompactization \/ Stopping
  <2>1. now' = now BY <1>4 DEF StartCompactization, Stopping, Cancel, CloseBegin, CloseEnd
  <2>2. compactor' = compactor BY <1>1 DEF compVars
  <2> QED BY <1>1, <1>2, <2>1, <2>2, SameMap
<1> QED BY <1>3, <1>4

-----------------------------------------------------------------------------
(* The refinement *)

LEMMA InitMap == Init => Cache!Init
<1> SUFFICES ASSUME Init PROVE Cache!Init OBVIOUS
<1>1. Store = Cache!Empty BY DEF Init, Store, EmptyIndex, ItemAt, Cache!Empty
<1>2. Saved = Cache!Empty /\ Lost = {} /\ Phase = "open"
  BY DEF Init, Saved, Lost, Phase, Compacting, Cache!Empty
<1> QED BY <1>1, <1>2 DEF Init, Cache!Init

\* A step of the shard that leaves no bytes is a step of the cache ...
LEMMA NextMap == Clean /\ ~torn' /\ [Next]_vars => [Cache!Next]_(Cache!vars)
<1> SUFFICES ASSUME Clean, ~torn', [Next]_vars PROVE [Cache!Next]_(Cache!vars) OBVIOUS
<1>1. CASE Caller
  <2>1. ASSUME NEW k \in Keys, NEW v \in Values, NEW e \in Expirations, Set(k, v, e)
        PROVE  [Cache!Next]_(Cache!vars)
    <3> DEFINE item == [val |-> v, exp |-> e]
    <3>1. [Cache!Put(k, item)]_(Cache!vars) BY <2>1, SetStep
    <3>2. Cache!Put(k, item) => Cache!Put(k, Store'[k])
      <4>1. k \in DOMAIN Store BY DEF Store
      <4> HIDE DEF item
      <4> QED BY <4>1 DEF Cache!Put
    <3> HIDE DEF item
    <3> QED BY <3>1, <3>2 DEF Cache!Next, Cache!Calls
  <2>2. ASSUME NEW k \in Keys, Delete(k) PROVE [Cache!Next]_(Cache!vars)
    BY <2>2, DeleteStep DEF Cache!Next, Cache!Calls
  <2> QED BY <1>1, <2>1, <2>2 DEF Caller
<1>2. CASE UNCHANGED vars
  <2>1. Dropped' = Dropped BY <1>2 DEF Dropped, Indexed, vars, mapVars, compVars
  <2> QED BY <1>2, <2>1, SameMap DEF vars, diskVars, mapVars, compVars
<1> QED BY <1>1, <1>2, DeleterStep, CompactorStep, ClockStep DEF Next, Serving, Cache!Next

\* ... by the same party.
LEMMA NextMatch == Clean /\ ~torn' /\ [Next]_vars => [StepsMatch]_vars
<1> SUFFICES ASSUME Clean, ~torn', Next PROVE StepsMatch OBVIOUS
<1>1. CASE compVars' # compVars \/ delVars' # delVars
  <2>1. ~Caller BY <1>1 DEF Caller, Set, Delete
  <2>2. ~(StartCompactization \/ Tick \/ Stopping)
    BY <1>1 DEF StartCompactization, Tick, Stopping, Cancel, CloseBegin, CloseEnd
  <2> QED BY <1>1, <2>1, <2>2, DeleterStep, CompactorStep DEF Next, Serving, StepsMatch
<1>2. CASE ~(compVars' # compVars \/ delVars' # delVars)
  BY <1>2, SetStep DEF StepsMatch
<1> QED BY <1>1, <1>2

\* A shard on which no failed write leaves bytes is a checkpointed cache, for all keys,
\* values, lengths, limits and interleavings: a read returns the value put last, but for
\* the rules of CheckpointedCache.
THEOREM ShardRefinesCache == Spec /\ []~torn => RefinesCache
<1>1. Spec => [](Shape /\ Content(TRUE)) BY ShapeAndContent
<1>2. Spec => []Sweeping
  <2>1. Init => Sweeping BY InitSweeping
  <2>2. (Shape /\ Content(TRUE)) /\ Sweeping /\ [Next]_vars => Sweeping' BY NextSweeping
  <2> QED BY <1>1, <2>1, <2>2, PTL DEF Spec
<1>3. Init => Cache!Init BY InitMap
<1>4. /\ Shape /\ Content(TRUE) /\ Sweeping /\ ~torn /\ ~torn' /\ [Next]_vars
      => [Cache!Next]_(Cache!vars) /\ [StepsMatch]_vars
  BY NextMap, NextMatch DEF Clean
<1> QED BY <1>1, <1>2, <1>3, <1>4, PTL DEF Spec, RefinesCache, Cache!Spec

\* A disk whose writes fail, if they do, without leaving bytes: nothing is ever torn.
THEOREM CleanDiskNeverTorn ==
  ASSUME FailBytes \subseteq {0}
  PROVE  Spec => []~torn
<1>1. Init => ~torn BY DEF Init
<1>2. (Shape /\ Content(TRUE)) /\ ~torn /\ [Next]_vars => ~torn'
  <2> SUFFICES ASSUME Shape, Content(TRUE), ~torn, [Next]_vars, torn' PROVE FALSE OBVIOUS
  <2>1. torn' # torn OBVIOUS
  <2>2. WriteFails BY <2>1, TornStep
  <2>3. ~UNCHANGED <<diskVars, mapVars>> BY <2>1 DEF diskVars
  <2>4. PICK n \in FailBytes : \E f : FailActive(f, n) BY <2>2, <2>3, FailingWrite, Zenon
  <2>5. ~(n > 0) OBVIOUS
  <2> QED BY <2>4, <2>5 DEF FailActive
<1> QED BY <1>1, <1>2, ShapeAndContent, PTL DEF Spec

\* On such a disk the refinement needs nothing more.
COROLLARY CleanDiskRefinesCache ==
  ASSUME FailBytes \subseteq {0}
  PROVE  Spec => RefinesCache
BY ShardRefinesCache, CleanDiskNeverTorn, PTL
=============================================================================
