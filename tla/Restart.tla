------------------------------- MODULE Restart -------------------------------
(***************************************************************************)
(* A file shard over the life of several processes: the directory of its   *)
(* files, a process that stops at any moment, and the start that picks one *)
(* of the files and rebuilds the index from it (newFileShards in           *)
(* src/initial/stores/cach_file_store.go, NewFileShard, Init and           *)
(* initIndexFromFile in file_shard.go).                                    *)
(*                                                                         *)
(* Every end of the process is a crash for the shard: main neither calls   *)
(* Close nor waits for the shard's goroutines.  A process killed in the    *)
(* middle of a write is FileShard's failing write followed by the crash.   *)
(* What the operating system has accepted stays: loss of power is left out.*)
(*                                                                         *)
(* A file is called <shard>_<uuid>, so that a new name may come before or  *)
(* after the others in the order os.ReadDir lists them in.                 *)
(***************************************************************************)
EXTENDS FileShard

CONSTANTS
  Names,     \* the names a file may get, in ReadDir's order
  ReloadFor, \* the lifetime the start gives a record: 20 minutes
  MaxStarts, \* bound: the process is not started again
  MaxCalls   \* bound: callers write no more

ASSUME RestartAssumption ==
  /\ Names \subseteq Nat /\ None \notin Names /\ ReloadFor \in Nat /\ MaxStarts \in Nat
  /\ MaxCalls \in Nat

VARIABLES
  phase,    \* "down", "loading" (in initIndexFromFile), or "up"
  name,     \* the name of file, None while the process is down
  nameComp, \* the name of fileComp, None when there is none
  left,     \* the files in the directory the process has not open
  pos,      \* initIndexFromFile's offset
  starts,   \* how often the process has been started
  calls,    \* how often callers have called Set or Delete
  upSince,  \* history: when the index was complete
  born,     \* history: the length of file when the process adopted it
  wasWhole, \* history: file then held nothing but whole records
  was,      \* history: what file held when a process let go of it, None if unknown
  cut       \* history: a failed write of this process has left bytes

dirVars  == <<name, nameComp, left>>
histVars == <<upSince, born, wasWhole, was, cut>>
allVars  == <<vars, phase, dirVars, pos, starts, calls, histVars>>

-----------------------------------------------------------------------------
(* Files that are let go of *)

\* No byte of f is outside a record.
Covered(f, n) == \A p \in 0 .. n - 1 :
  \E r \in f.recs : r.off <= p /\ p < r.off + RecSize[r.val]
Whole(f) == Covered(f, f.end)

\* Keys whose last Set has failed between the tombstone and the record.
HalfSet(f, idx) ==
  {k \in Indexed(idx) : \E r \in f.recs : r.key = k /\ r.del /\ r.off > idx[k].off}

\* What f holds for a reader, if idx is a complete index of it and in step with it.
Held(f, idx) ==
  IF ~wasWhole \/ ctxDone \/ ~Points(f, idx) THEN None
  ELSE [k \in Keys |-> IF k \in Indexed(idx) \ HalfSet(f, idx) THEN ReadAt(f, idx[k]).val ELSE None]

Leftover(n, f, idx) == [name |-> n, file |-> f, was |-> Held(f, idx)]

UsedNames == {name, nameComp} \cup {l.name : l \in left}
Unused(n) == n \in Names \ UsedNames

-----------------------------------------------------------------------------
RestartInit ==
  /\ Init
  /\ phase = "down" /\ name = None /\ nameComp = None /\ left = {}
  /\ pos = 0 /\ starts = 0 /\ calls = 0
  /\ upSince = 0 /\ born = 0 /\ wasWhole = TRUE /\ was = None /\ cut = FALSE

\* The process ends: its memory is gone, and its files stay.
Crash ==
  /\ phase # "down"
  /\ phase' = "down"
  /\ left' = left
       \cup {[Leftover(name, file, index) EXCEPT !.was = IF phase = "up" THEN @ ELSE was]}
       \cup (IF nameComp = None THEN {} ELSE {Leftover(nameComp, fileComp, indexComp)})
  /\ name' = None /\ nameComp' = None
  /\ file' = EmptyFile /\ fileComp' = EmptyFile
  /\ index' = EmptyIndex /\ indexComp' = EmptyIndex /\ isActiveComp' = FALSE
  /\ triggerComp' = FALSE
  /\ compactor' = "idle" /\ snapshot' = EmptyIndex /\ todo' = {} /\ carried' = None
  /\ leakedRLock' = FALSE
  /\ deleter' = "idle" /\ sweepLeft' = {}
  /\ ctxDone' = FALSE
  /\ pos' = 0 /\ upSince' = 0 /\ born' = 0 /\ wasWhole' = TRUE /\ was' = None /\ cut' = FALSE
  /\ UNCHANGED <<torn, now, stopped, closed, starts, calls>>

-----------------------------------------------------------------------------
(* The start *)

\* Mutant: the counter begins at zero, whatever is in the file.
NewFileShard_CountsFromZero(n, f, held) ==
  /\ phase = "down" /\ starts < MaxStarts
  /\ phase' = "loading" /\ starts' = starts + 1
  /\ name' = n /\ file' = [f EXCEPT !.size = 0]
  /\ torn' = ~Whole(f)
  /\ born' = f.end /\ wasWhole' = Whole(f) /\ was' = held
  /\ UNCHANGED <<fileComp, mapVars, triggerComp, compVars, delVars, now, lifeVars, nameComp,
                 pos, calls, upSince, cut>>

\* Open the file, and count what is in it.
NewFileShard(n, f, held) ==
  /\ phase = "down" /\ starts < MaxStarts
  /\ phase' = "loading" /\ starts' = starts + 1
  /\ name' = n /\ file' = [f EXCEPT !.size = f.end]
  /\ torn' = ~Whole(f)
  /\ born' = f.end /\ wasWhole' = Whole(f) /\ was' = held
  /\ UNCHANGED <<fileComp, mapVars, triggerComp, compVars, delVars, now, lifeVars, nameComp,
                 pos, calls, upSince, cut>>

\* newFileShards: of the files with the shard's number the last one listed.
StartFromFile(l) ==
  /\ l \in left /\ \A m \in left : m.name <= l.name
  /\ NewFileShard(l.name, l.file, l.was)
  /\ left' = left \ {l}

\* There is none, or the directory cannot be listed, which is only logged: a new file.
StartAnew(n) ==
  /\ left = {} \/ FailBytes # {}
  /\ Unused(n)
  /\ NewFileShard(n, EmptyFile, EmptyIndex)
  /\ UNCHANGED left

Loading == phase = "loading" /\ UNCHANGED <<file, fileComp, torn, indexComp, isActiveComp,
  triggerComp, compVars, delVars, now, stopped, closed, dirVars, starts, calls,
  born, wasWhole, was, cut>>

\* Mutant: tombstones are passed over.
Indexes_NoTombstones(k, len, d) ==
  index' = IF d THEN index ELSE [index EXCEPT ![k] = [off |-> pos, exp |-> now + ReloadFor, len |-> len]]

\* A record of key k has been read at pos: the later record of a key replaces the earlier.
Indexes(k, len, d) ==
  index' = [index EXCEPT ![k] =
    IF d THEN None ELSE [off |-> pos, exp |-> now + ReloadFor, len |-> len]]

AtRecord == \E r \in file.recs : r.off = pos

LoadRecord ==
  /\ Loading
  /\ \E r \in file.recs :
       /\ r.off = pos
       /\ Indexes(r.key, RecSize[r.val], r.del)
       /\ pos' = pos + RecSize[r.val]
  /\ UNCHANGED <<ctxDone, phase, upSince>>

\* Bytes that begin no record: whatever they spell.  A length in them may reach over the
\* records that follow, or beyond the end of the file, where the rest is zero.
LoadGarbage ==
  /\ Loading
  /\ pos < file.end /\ ~AtRecord
  /\ \/ \E k \in Keys, v \in Values, d \in BOOLEAN :
          Indexes(k, RecSize[v], d) /\ pos' = pos + RecSize[v]
     \/ \E len \in 1 .. file.end :  \* a key nobody asks for
          /\ \E v \in Values : RecSize[v] <= len
          /\ pos' = pos + len /\ UNCHANGED index
  /\ UNCHANGED <<ctxDone, phase, upSince>>

\* Mutant: an incomplete record is taken for a broken file.
LoadEnds_StartsEmpty ==
  /\ Loading
  /\ pos >= file.end \/ ~AtRecord
  /\ phase' = "up" /\ upSince' = now
  /\ pos' = 0
  /\ index' = IF pos < file.end THEN EmptyIndex ELSE index
  /\ UNCHANGED ctxDone

\* The end of the file, met before a record or while the lengths of one are read.
LoadEnds ==
  /\ Loading
  /\ pos >= file.end \/ ~AtRecord
  /\ phase' = "up" /\ upSince' = now
  /\ pos' = 0
  /\ UNCHANGED <<index, ctxDone>>

\* The context is cancelled: initIndexFromFile returns no error, and the shard runs.
LoadCancelled ==
  /\ Loading
  /\ ctxDone' = TRUE
  /\ phase' = "up" /\ upSince' = now
  /\ pos' = 0
  /\ UNCHANGED index

-----------------------------------------------------------------------------
(* The shard at work: what its steps do to the directory *)

\* Bytes of f its counter does not know of.
Uncounted(f) == f.end - f.size

AtWork ==
  /\ phase = "up" /\ UNCHANGED <<phase, pos, starts, upSince, wasWhole, was>>
  /\ cut' = (cut \/ Uncounted(file') > Uncounted(file)
                 \/ Uncounted(fileComp') > Uncounted(fileComp))

NamedCompactBegin(n) ==
  /\ Unused(n) /\ CompactBegin
  /\ nameComp' = n
  /\ UNCHANGED <<name, left, born, calls>>

\* newCacheFile may fail after it has created the file.
NamedCompactBeginFails ==
  /\ CompactBeginFails
  /\ \/ UNCHANGED left
     \/ \E n \in Names : Unused(n) /\ left' = left \cup {Leftover(n, EmptyFile, EmptyIndex)}
  /\ UNCHANGED <<name, nameComp, born, calls>>

\* os.Remove may fail, which is only logged.
NamedCompactEnd ==
  /\ CompactEnd
  /\ name' = nameComp /\ nameComp' = None
  /\ born' = fileComp.end
  /\ \/ UNCHANGED left
     \/ FailBytes # {} /\ left' = left \cup {Leftover(name, file, index)}
  /\ UNCHANGED calls

\* Mutant: fs.fileComp is kept.
NamedRollback_KeepsHandle ==
  /\ RollbackCompact
  /\ \/ UNCHANGED left
     \/ /\ FailBytes # {} /\ nameComp # None
        /\ left' = left \cup {Leftover(nameComp, fileComp, indexComp)}
  /\ UNCHANGED <<name, nameComp, born, calls>>

NamedRollback ==
  /\ RollbackCompact
  /\ nameComp' = None
  /\ \/ UNCHANGED left
     \/ /\ FailBytes # {} /\ nameComp # None
        /\ left' = left \cup {Leftover(nameComp, fileComp, indexComp)}
  /\ UNCHANGED <<name, born, calls>>

CallerWrites ==
  /\ Caller
  /\ calls < MaxCalls /\ calls' = calls + 1
  /\ UNCHANGED <<dirVars, born>>

OtherStep ==
  /\ Deleter \/ Compactor \/ StartCompactization \/ Tick
  /\ ~(CompactBegin \/ CompactBeginFails \/ CompactEnd \/ RollbackCompact)
  /\ UNCHANGED <<dirVars, born, calls>>

Works ==
  /\ \/ \E n \in Names : NamedCompactBegin(n)
     \/ NamedCompactBeginFails \/ NamedCompactEnd \/ NamedRollback
     \/ CallerWrites \/ OtherStep
  /\ AtWork

Start == (\E l \in left : StartFromFile(l)) \/ \E n \in Names : StartAnew(n)
Load  == LoadRecord \/ LoadGarbage \/ LoadEnds \/ LoadCancelled

RestartNext == Start \/ Load \/ Works \/ Crash

RestartSpec == RestartInit /\ [][RestartNext]_allVars

-----------------------------------------------------------------------------
(* Properties *)

Holds == [Keys -> Values \cup {None}] \cup {None}

\* Type invariant.
RestartTypeOK ==
  /\ TypeOK
  /\ phase \in {"down", "loading", "up"}
  /\ {name, nameComp} \subseteq Names \cup {None}
  /\ left \subseteq [name : Names, file : File, was : Holds]
  /\ pos \in Nat /\ starts \in 0 .. MaxStarts /\ calls \in 0 .. MaxCalls
  /\ upSince \in Nat /\ born \in Nat /\ wasWhole \in BOOLEAN /\ was \in Holds
  /\ cut \in BOOLEAN
  /\ \A l, m \in left : l.name = m.name => l = m
  /\ {name, nameComp} \cap {l.name : l \in left} = {}

LoadCompletes == phase = "loading" /\ phase' = "up" /\ ~ctxDone'

\* A file of whole records gives back what it held when a process last let go of it: after
\* every history of writes, deletions, expiry and compactions, wherever the process
\* stopped, be it the file that was written or one that a compaction left behind.
RestoresItsFile == [][LoadCompletes /\ wasWhole /\ was # None => Visible' = was]_allVars

\* The bytes of f after its last record are fewer than a record has.
TornTail(f) ==
  \E p \in 0 .. f.end - 1 :
    Covered(f, p) /\ (\A r \in f.recs : r.off < p) /\ \A v \in Values : f.end - p < RecSize[v]

\* A write that was cut short at the end of the file costs at most one key its value.
TornTailContained ==
  [][LoadCompletes /\ TornTail(file) /\ was # None =>
       \A j, k \in Keys : Visible'[j] # was[j] /\ Visible'[k] # was[k] => j = k]_allVars

\* A start makes up for the tears of the processes before it: as long as it does not tear
\* the file itself, what it appends is where its index says, and all of that is indexed.
HealedByRestart ==
  phase = "up" /\ ~cut =>
    /\ \A k \in Indexed(index) :
         index[k].off >= born => \E r \in file.recs : IsRecordOf(r, k, index[k])
    /\ \A r \in file.recs :
         r.off >= born /\ IsLast(r, file) /\ ~r.del =>
           index[r.key] # None /\ index[r.key].off = r.off

\* However often it is started anew, written over or compacted: no record outlives both
\* the lifetimes callers ask for and the one the latest start gave it.
LifetimeBound ==
  phase = "up" => \A k \in Indexed(ActiveIndex) :
    \/ ActiveIndex[k].exp <= upSince + ReloadFor
    \/ \E e \in Expirations : ActiveIndex[k].exp <= e
=============================================================================
