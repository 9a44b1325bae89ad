---------------------------- MODULE RestartProofs ----------------------------
(***************************************************************************)
(* Proofs about Restart: what a start makes of the files the processes     *)
(* before it have left, for all keys, records, names, failures of the disk *)
(* and numbers of starts.  The invariant, RestartInv, has five parts:      *)
(*   Directory  who may be doing what (with Shape of FileShardProofs), and *)
(*              that every file in use or left behind has its own name;    *)
(*   Files      in every file records lie behind each other; an index that *)
(*              is complete accounts for the live records of its file, and *)
(*              what a file left behind is known to hold is what the last  *)
(*              record of each key in it says;                             *)
(*   LoadSound  the index under construction says what the records before  *)
(*              pos do, unless the tail of the file has been read past;    *)
(*   Lifetimes  expirations are the callers' or the start's;               *)
(*   Healing    behind born, records and index lead to each other.         *)
(* It is inductive alone; a start gives back what a file held because      *)
(* Files, of the file left behind, and LoadSound, at its end, say the same *)
(* of the records in it.  On top of it Fitting says that a start brings    *)
(* the shard into a state in which Content of FileShardProofs holds, so    *)
(* that what is proved of a shard that began with nothing is true of every *)
(* life that follows.                                                      *)
(***************************************************************************)
EXTENDS Restart, FileShardProofs

-----------------------------------------------------------------------------
(* The invariant *)

\* Who may be doing what, and which files have names.
Directory ==
  /\ RestartTypeOK /\ Shape
  /\ phase = "down" => name = None /\ file = EmptyFile /\ index = EmptyIndex
  /\ phase # "down" => name \in Names /\ name # nameComp
  /\ phase # "loading" => pos = 0
  /\ phase # "up" => /\ ~isActiveComp /\ compactor = "idle" /\ deleter = "idle"
                     /\ ~leakedRLock /\ ~cut
  /\ isActiveComp <=> nameComp # None

\* Records are written behind each other: no two of them share a byte.
Disjoint(f) ==
  /\ \A r \in f.recs : r.off + RecSize[r.val] <= f.end
  /\ \A r, s \in f.recs : r # s => r.off + RecSize[r.val] <= s.off \/ s.off + RecSize[s.val] <= r.off

\* An entry points at bytes of the file, as many as some record has.
Inside(f, idx) ==
  /\ f.size <= f.end
  /\ \A k \in Indexed(idx) : /\ idx[k].off < f.end
                             /\ \E v \in Values : idx[k].len = RecSize[v]

\* Nothing but whole records, and at most a tail too short to be one.
Tidy(f) ==
  \E p \in 0 .. f.end :
    Covered(f, p) /\ (\A r \in f.recs : r.off < p) /\ \A v \in Values : f.end - p < RecSize[v]

Counted(f) == Whole(f) => f.size = f.end

\* Some key's entry leads to r.
Reached(idx, r) == \E k \in Indexed(idx) : idx[k].off = r.off /\ idx[k].len = RecSize[r.val]

\* The live records a reader of the whole file would keep, or that are newer than their
\* key's entry, are accounted for.
Accounted(f, idx) ==
  /\ \A r \in f.recs : IsLast(r, f) /\ ~r.del => Reached(idx, r)
  /\ \A r \in f.recs : ~r.del /\ r.key \in Indexed(idx) /\ idx[r.key].off < r.off =>
       r.key \in HalfSet(f, idx) \/ Reached(idx, r)

\* A file and an index of it; the index is complete where c says so.
Consistent(c, f, idx) ==
  /\ Disjoint(f) /\ Inside(f, idx) /\ Counted(f)
  /\ c /\ Tidy(f) => Accounted(f, idx)

\* w is what the last record of each key in f says.
Keeps(f, w) ==
  /\ \A k \in Keys : w[k] # None =>
       \E r \in f.recs : IsLast(r, f) /\ r.key = k /\ ~r.del /\ r.val = w[k]
  /\ \A r \in f.recs : IsLast(r, f) /\ ~r.del => w[r.key] = r.val

Remembered(f, w) == w # None /\ Tidy(f) => Keeps(f, w)

\* The process has indexed the whole of the file it took, which had nothing but records.
Complete == phase = "up" /\ wasWhole /\ ~ctxDone

Files ==
  /\ Consistent(Complete, file, index) /\ Consistent(TRUE, fileComp, indexComp)
  /\ \A l \in left : Disjoint(l.file) /\ Remembered(l.file, l.was)

-----------------------------------------------------------------------------
(* Loading *)

LastBefore(r, f, p) ==
  r \in f.recs /\ r.off < p /\ \A s \in f.recs : s.key = r.key /\ s.off < p => s.off <= r.off

\* For k the index says what the records before p do.
Exact(f, idx, k, p) ==
  /\ idx[k] # None => \E r \in f.recs : LastBefore(r, f, p) /\ IsRecordOf(r, k, idx[k])
  /\ \A r \in f.recs : LastBefore(r, f, p) /\ r.key = k /\ ~r.del => idx[k] # None

\* No record lies across p.
Boundary(f, p) == \A r \in f.recs : r.off + RecSize[r.val] <= p \/ p <= r.off

ReadTo(f, idx, p) == p <= f.end /\ Boundary(f, p) /\ \A k \in Keys : Exact(f, idx, k, p)

\* The tail has been taken for a record, of one key at most.
ReadPast(f, idx, p) ==
  /\ f.end < p /\ ~Whole(f)
  /\ \A j, k \in Keys : ~Exact(f, idx, j, f.end) /\ ~Exact(f, idx, k, f.end) => j = k

LoadSound ==
  phase = "loading" =>
    /\ wasWhole <=> Whole(file)
    /\ born = file.end /\ file.size = file.end
    /\ Remembered(file, was)
    /\ Tidy(file) => ReadTo(file, index, pos) \/ ReadPast(file, index, pos)

-----------------------------------------------------------------------------
(* The life of a record *)

\* Nothing in idx outlives both what callers ask for and what a start at t gives.
Lives(idx, t) ==
  \A k \in Indexed(idx) : idx[k].exp <= t + ReloadFor \/ \E e \in Expirations : idx[k].exp <= e

Lifetimes ==
  /\ phase = "loading" => Lives(index, now)
  /\ phase = "up" => Lives(index, upSince) /\ Lives(indexComp, upSince)

-----------------------------------------------------------------------------
(* Healing *)

\* What has been written since the start, behind b, is what the index says, and all of it.
Mended(b, f, idx) ==
  /\ \A k \in Indexed(idx) : idx[k].off >= b => \E r \in f.recs : IsRecordOf(r, k, idx[k])
  /\ \A r \in f.recs :
       r.off >= b /\ IsLast(r, f) /\ ~r.del => idx[r.key] # None /\ idx[r.key].off = r.off

Healing ==
  /\ born <= file.end
  /\ phase = "up" /\ ~cut => /\ file.size = file.end /\ fileComp.size = fileComp.end
                            /\ Mended(born, file, index)

RestartInv == Directory /\ Files /\ LoadSound /\ Lifetimes /\ Healing

-----------------------------------------------------------------------------
(* Lemmas on files *)

\* The types of what a file is made of.
LEMMA FileTypes ==
  ASSUME NEW f \in File
  PROVE  /\ f.end \in Nat /\ f.size \in Nat /\ f.recs \subseteq LogRec
         /\ \A r \in f.recs : /\ r.off \in Nat /\ r.key \in Keys /\ r.val \in Values
                             /\ r.del \in BOOLEAN /\ RecSize[r.val] \in Nat \ {0}
BY RecSizeAssumption DEF File, LogRec

\* The record that a write adds.
Added(f, x, v, d) == [off |-> f.end, key |-> x, val |-> v, del |-> d]

\* What a write makes of a file, field by field.
LEMMA WrittenFields ==
  ASSUME NEW f \in File, NEW x \in Keys, NEW v \in Values, NEW d
  PROVE  /\ Written(f, x, v, d).recs = f.recs \cup {Added(f, x, v, d)}
         /\ Written(f, x, v, d).end = f.end + RecSize[v]
         /\ Written(f, x, v, d).size = f.size + RecSize[v]
         /\ Added(f, x, v, d).off = f.end /\ Added(f, x, v, d).key = x
         /\ Added(f, x, v, d).val = v /\ Added(f, x, v, d).del = d
         /\ RecSize[v] \in Nat \ {0}
BY RecSizeAssumption DEF Written, Added

\* Bytes that a failed write leaves add to the end and to nothing else.
LEMMA TearFields ==
  ASSUME NEW f \in File, NEW n \in Nat
  PROVE  /\ Tear(f, n) \in File /\ Tear(f, n).recs = f.recs
         /\ Tear(f, n).end = f.end + n /\ Tear(f, n).size = f.size
BY TearType DEF Tear, File

\* Garbage written back adds to end and counter, and no record.
LEMMA GarbageFields ==
  ASSUME NEW f \in File, NEW e \in Entry, NEW d
  PROVE  /\ Rewrite(f, Garbage, e, d) \in File /\ Rewrite(f, Garbage, e, d).recs = f.recs
         /\ Rewrite(f, Garbage, e, d).end = f.end + e.len
         /\ Rewrite(f, Garbage, e, d).size = f.size + e.len
<1>1. Rewrite(f, Garbage, e, d) = [recs |-> f.recs, end |-> f.end + e.len, size |-> f.size + e.len]
  BY DEF Rewrite, File
<1> QED BY <1>1 DEF File, Entry

\* Records below the end, one after the other: an offset belongs to one of them.
LEMMA OffsetUnique ==
  ASSUME NEW f \in File, Disjoint(f), NEW r \in f.recs, NEW s \in f.recs, r.off = s.off
  PROVE  r = s
BY FileTypes DEF Disjoint

\* Records begin before the end of their file.
LEMMA BelowEnd ==
  ASSUME NEW f \in File, Disjoint(f), NEW r \in f.recs
  PROVE  r.off < f.end
BY FileTypes DEF Disjoint

\* An entry that reads a record reads the one it leads to.
LEMMA ReadsThat ==
  ASSUME NEW f \in File, Disjoint(f), NEW e, NEW r \in f.recs, r.off = e.off, RecSize[r.val] = e.len
  PROVE  ReadAt(f, e) = r
<1>1. r \in RecordsAt(f, e) BY DEF RecordsAt
<1>2. \A s \in RecordsAt(f, e) : s = r BY OffsetUnique DEF RecordsAt
<1> QED BY <1>1, <1>2 DEF ReadAt

\* What is read and is not garbage is a record of the file, where the entry says.
LEMMA ReadsOne ==
  ASSUME NEW f \in File, NEW e, ReadAt(f, e) # Garbage
  PROVE  ReadAt(f, e) \in f.recs /\ ReadAt(f, e).off = e.off /\ RecSize[ReadAt(f, e).val] = e.len
BY DEF ReadAt, RecordsAt

\* A whole file is a tidy one.
LEMMA WholeTidy ==
  ASSUME NEW f \in File, Disjoint(f), Whole(f)
  PROVE  Tidy(f)
<1>1. f.end \in 0 .. f.end /\ Covered(f, f.end) BY FileTypes DEF Whole
<1>2. \A r \in f.recs : r.off < f.end BY BelowEnd
<1>3. \A v \in Values : f.end - f.end < RecSize[v] BY FileTypes, RecSizeAssumption
<1> QED BY <1>1, <1>2, <1>3 DEF Tidy

\* A record can only make a tidy file of one that was whole.
LEMMA WrittenTidy ==
  ASSUME NEW f \in File, Disjoint(f), NEW x \in Keys, NEW v \in Values, NEW d \in BOOLEAN,
         Tidy(Written(f, x, v, d))
  PROVE  Whole(f)
<1> DEFINE n == Added(f, x, v, d)
           g == Written(f, x, v, d)
<1>1. g.recs = f.recs \cup {n} /\ n \in g.recs /\ n.off = f.end /\ f.end \in Nat
  BY WrittenFields, FileTypes
<1> HIDE DEF g, n
<1>2. PICK p \in 0 .. g.end : Covered(g, p) /\ \A r \in g.recs : r.off < p
  BY DEF Tidy, g
<1>3. f.end < p BY <1>1, <1>2
<1>4. ASSUME NEW q \in 0 .. f.end - 1
      PROVE  \E r \in f.recs : r.off <= q /\ q < r.off + RecSize[r.val]
  <2>1. q \in 0 .. p - 1 BY <1>1, <1>3
  <2>2. PICK r \in g.recs : r.off <= q /\ q < r.off + RecSize[r.val] BY <1>2, <2>1 DEF Covered
  <2>3. r # n BY <1>1, <2>2
  <2> QED BY <1>1, <2>2, <2>3
<1> QED BY <1>4 DEF Whole, Covered

\* The tail of a tidy file begins where its records end.
LEMMA TailStart ==
  ASSUME NEW f \in File, Disjoint(f), NEW p \in Nat, Covered(f, p)
  PROVE  p <= f.end
<1> SUFFICES ASSUME f.end < p PROVE FALSE BY FileTypes
<1>1. f.end \in 0 .. p - 1 BY FileTypes
<1>2. PICK r \in f.recs : r.off <= f.end /\ f.end < r.off + RecSize[r.val] BY <1>1 DEF Covered
<1> QED BY <1>2, FileTypes DEF Disjoint

\* Bytes that are no record make no file tidy, nor whole.
LEMMA GrownTidy ==
  ASSUME NEW f \in File, Disjoint(f), NEW g \in File, NEW n \in Nat,
         g.recs = f.recs, g.end = f.end + n
  PROVE  /\ Tidy(g) => Tidy(f) /\ \A v \in Values : n < RecSize[v]
         /\ Whole(g) => Whole(f) /\ n = 0
<1>1. \A p : Covered(g, p) <=> Covered(f, p) BY DEF Covered
<1>2. f.end \in Nat /\ g.end \in Nat BY FileTypes
<1>3. ASSUME Tidy(g) PROVE Tidy(f) /\ \A v \in Values : n < RecSize[v]
  <2>1. PICK p \in 0 .. g.end :
          Covered(g, p) /\ (\A r \in g.recs : r.off < p) /\ \A v \in Values : g.end - p < RecSize[v]
    BY <1>3 DEF Tidy
  <2>2. p \in Nat /\ p <= f.end BY <1>1, <2>1, TailStart
  <2>3. \A v \in Values : f.end - p < RecSize[v] /\ n < RecSize[v]
    BY <1>2, <2>1, <2>2, RecSizeAssumption
  <2> QED BY <1>1, <1>2, <2>1, <2>2, <2>3 DEF Tidy
<1>4. ASSUME Whole(g) PROVE Whole(f) /\ n = 0
  <2>1. g.end <= f.end BY <1>1, <1>2, <1>4, TailStart DEF Whole
  <2>2. n = 0 BY <1>2, <2>1
  <2> QED BY <1>1, <1>2, <1>4, <2>2 DEF Whole
<1> QED BY <1>3, <1>4
-----------------------------------------------------------------------------
(* Files and indexes stay consistent *)

\* Whether an index accounts for a file depends on its records only.
LEMMA SameRecords ==
  ASSUME NEW f, NEW g, g.recs = f.recs, NEW idx, Accounted(f, idx)
  PROVE  Accounted(g, idx)
BY DEF Accounted, IsLast, HalfSet

\* A failed write leaves file and index consistent.
LEMMA TearConsistent ==
  ASSUME NEW f \in File, NEW idx \in Index, NEW c \in BOOLEAN, Consistent(c, f, idx), NEW n \in Nat
  PROVE  Consistent(c, Tear(f, n), idx)
<1> DEFINE g == Tear(f, n)
<1>1. g \in File /\ g.recs = f.recs /\ g.end = f.end + n /\ g.size = f.size BY TearFields
<1>2. Disjoint(f) /\ Inside(f, idx) /\ Counted(f) BY DEF Consistent
<1> HIDE DEF g
<1>3. Disjoint(g) BY <1>1, <1>2, FileTypes DEF Disjoint
<1>4. Inside(g, idx)
  <2>1. g.size <= g.end BY <1>1, <1>2, FileTypes DEF Inside
  <2>2. \A k \in Indexed(idx) : idx[k].off < f.end => idx[k].off < g.end
    BY <1>1, FileTypes DEF Indexed, Index, Entry
  <2> QED BY <1>2, <2>1, <2>2 DEF Inside
<1>5. Counted(g) BY <1>1, <1>2, GrownTidy, FileTypes DEF Counted
<1>6. c /\ Tidy(g) => Accounted(g, idx) BY <1>1, <1>2, GrownTidy, SameRecords DEF Consistent
<1> QED BY <1>3, <1>4, <1>5, <1>6 DEF Consistent, g

\* A new record has its place behind the others.
LEMMA WrittenDisjoint ==
  ASSUME NEW f \in File, Disjoint(f), NEW x \in Keys, NEW v \in Values, NEW d \in BOOLEAN
  PROVE  Disjoint(Written(f, x, v, d))
<1> DEFINE n == Added(f, x, v, d)
           g == Written(f, x, v, d)
<1>1. g.recs = f.recs \cup {n} /\ n.off = f.end /\ n.val = v
      /\ g.end = f.end + RecSize[v] /\ RecSize[v] \in Nat \ {0}
  BY WrittenFields
<1> HIDE DEF g, n
<1>2. \A r \in f.recs : r.off \in Nat /\ RecSize[r.val] \in Nat \ {0} BY FileTypes
<1>3. \A r \in g.recs : r.off + RecSize[r.val] <= g.end
  BY <1>1, <1>2, FileTypes DEF Disjoint
<1>4. \A r, s \in g.recs :
        r # s => r.off + RecSize[r.val] <= s.off \/ s.off + RecSize[s.val] <= r.off
  BY <1>1, <1>2, FileTypes DEF Disjoint
<1> QED BY <1>3, <1>4 DEF Disjoint, g

\* A file that is tidy after a write was whole before it, and so was counted exactly.
LEMMA WrittenCounted ==
  ASSUME NEW f \in File, Disjoint(f), Counted(f), NEW x \in Keys, NEW v \in Values, NEW d \in BOOLEAN
  PROVE  /\ Counted(Written(f, x, v, d))
         /\ Tidy(Written(f, x, v, d)) => Whole(f) /\ f.size = f.end
<1>1. Tidy(Written(f, x, v, d)) => Whole(f) /\ f.size = f.end BY WrittenTidy DEF Counted
<1>2. Whole(Written(f, x, v, d)) => Tidy(Written(f, x, v, d))
  BY WholeTidy, WrittenDisjoint, AppendType
<1> QED BY <1>1, <1>2, WrittenFields DEF Counted

\* Garbage written back is neither a record nor a tail.
LEMMA GarbageNotTidy ==
  ASSUME NEW f \in File, Disjoint(f), NEW e \in Entry, NEW v \in Values, e.len = RecSize[v],
         NEW d
  PROVE  /\ Disjoint(Rewrite(f, Garbage, e, d)) /\ ~Tidy(Rewrite(f, Garbage, e, d))
         /\ ~Whole(Rewrite(f, Garbage, e, d))
<1> DEFINE g == Rewrite(f, Garbage, e, d)
<1>1. /\ g \in File /\ g.recs = f.recs /\ g.end = f.end + e.len
      /\ e.len \in Nat \ {0}
  BY GarbageFields, RecSizeAssumption
<1> HIDE DEF g
<1>2. Disjoint(g) BY <1>1, FileTypes DEF Disjoint
<1>3. ~Tidy(g) BY <1>1, GrownTidy
<1>4. ~Whole(g) BY <1>1, <1>2, <1>3, WholeTidy
<1> QED BY <1>2, <1>3, <1>4 DEF g

\* The tombstone that accounts for what the entry it goes with led to.
LEMMA TombstoneAccounted ==
  ASSUME NEW f \in File, Disjoint(f), NEW idx \in Index, Inside(f, idx), Accounted(f, idx),
         NEW k \in Indexed(idx), NEW o \in f.recs, o.off = idx[k].off, RecSize[o.val] = idx[k].len,
         NEW jdx \in Index, Indexed(jdx) \subseteq Indexed(idx),
         \A j \in Indexed(jdx) : jdx[j] = idx[j],
         \A j \in Indexed(idx) \ {k} : j \in Indexed(jdx),
         NEW g, g = Written(f, o.key, o.val, TRUE)
  PROVE  Accounted(g, jdx)
<1> DEFINE n == Added(f, o.key, o.val, TRUE)
<1>0. o.key \in Keys /\ o.val \in Values BY FileTypes
<1>1. g.recs = f.recs \cup {n} /\ n \in g.recs /\ n.off = f.end /\ n.key = o.key /\ n.del
  BY DEF Written, Added
<1> HIDE DEF n
<1>2. \A r \in f.recs : r.off \in Nat /\ r.off < f.end BY FileTypes, BelowEnd
<1>3. ASSUME NEW r \in f.recs, Reached(idx, r), r # o PROVE Reached(jdx, r)
  <2>1. PICK j \in Indexed(idx) : idx[j].off = r.off /\ idx[j].len = RecSize[r.val]
    BY <1>3 DEF Reached
  <2>2. j # k BY <1>3, <2>1, OffsetUnique
  <2> QED BY <2>1, <2>2 DEF Reached
<1>4. ASSUME NEW r \in g.recs, IsLast(r, g), ~r.del PROVE Reached(jdx, r)
  <2>1. r \in f.recs BY <1>1, <1>4
  <2>2. r # o
    <3>1. r.key = n.key => n.off <= r.off BY <1>1, <1>4 DEF IsLast
    <3>2. f.end \in Nat BY FileTypes
    <3> QED BY <1>1, <1>2, <2>1, <3>1, <3>2
  <2>3. IsLast(r, f) BY <1>1, <1>4, <2>1 DEF IsLast
  <2> QED BY <1>3, <1>4, <2>1, <2>2, <2>3 DEF Accounted
<1>5. ASSUME NEW r \in g.recs, ~r.del, r.key \in Indexed(jdx), jdx[r.key].off < r.off
      PROVE  r.key \in HalfSet(g, jdx) \/ Reached(jdx, r)
  <2>1. r \in f.recs /\ r.key \in Indexed(idx) /\ jdx[r.key] = idx[r.key] BY <1>1, <1>5
  <2>2. CASE r.key \in HalfSet(f, idx) BY <1>1, <1>5, <2>1, <2>2 DEF HalfSet
  <2>3. CASE Reached(idx, r) /\ r # o BY <1>3, <2>1, <2>3
  <2>4. CASE r = o
    <3>1. idx[r.key].off \in Nat BY <2>1, FileTypes DEF Index, Indexed, Entry
    <3>2. n.off > jdx[r.key].off BY <1>1, <1>2, <1>5, <2>1, <3>1, FileTypes
    <3> QED BY <1>1, <1>5, <2>4, <3>2 DEF HalfSet
  <2> QED BY <1>5, <2>1, <2>2, <2>3, <2>4 DEF Accounted
<1> QED BY <1>4, <1>5 DEF Accounted

\* The tombstone of a key's record, with the key still in the index or not.
LEMMA BuryConsistent ==
  ASSUME NEW f \in File, NEW idx \in Index, NEW c \in BOOLEAN, Consistent(c, f, idx), NEW k \in Keys
  PROVE  /\ Consistent(c, Buried(f, idx[k]), idx)
         /\ Consistent(c, Buried(f, idx[k]), [idx EXCEPT ![k] = None])
<1> DEFINE g == Buried(f, idx[k])
           o == ReadAt(f, idx[k])
           jdx == [idx EXCEPT ![k] = None]
<1>1. Disjoint(f) /\ Inside(f, idx) /\ Counted(f) BY DEF Consistent
<1>2. CASE idx[k] = None
  <2>1. g = f /\ jdx = idx BY <1>2 DEF Buried, Index
  <2> QED BY <2>1
<1>3. CASE idx[k] # None
  <2>1. k \in Indexed(idx) /\ idx[k] \in Entry BY <1>3 DEF Indexed, Index
  <2>2. PICK v \in Values : idx[k].len = RecSize[v] BY <1>1, <2>1 DEF Inside
  <2>3. jdx \in Index /\ Indexed(jdx) \subseteq Indexed(idx)
        /\ (\A j \in Indexed(jdx) : jdx[j] = idx[j]) /\ \A j \in Indexed(idx) \ {k} : j \in Indexed(jdx)
    BY DEF Index, Indexed
  <2> HIDE DEF jdx
  <2>4. CASE o = Garbage
    <3>1. \E d : g = Rewrite(f, Garbage, idx[k], d) BY <1>3, <2>4, Zenon DEF Buried
    <3>2. g \in File /\ g.end = f.end + idx[k].len /\ g.size = f.size + idx[k].len
      BY <2>1, <3>1, GarbageFields
    <3>3. Disjoint(g) /\ ~Tidy(g) /\ ~Whole(g) BY <1>1, <2>1, <2>2, <3>1, GarbageNotTidy
    <3> HIDE DEF g
    <3>4. g.size <= g.end /\ f.end <= g.end
      BY <1>1, <2>1, <3>2, FileTypes DEF Inside, Entry
    <3>5. Inside(g, idx) /\ Inside(g, jdx)
      <4>1. \A j \in Indexed(idx) : idx[j].off < g.end
        BY <1>1, <3>2, <3>4, FileTypes DEF Inside, Indexed, Index, Entry
      <4> QED BY <1>1, <2>3, <3>4, <4>1 DEF Inside
    <3>6. Counted(g) BY <3>3 DEF Counted
    <3> QED BY <3>3, <3>5, <3>6 DEF Consistent, g, jdx
  <2>5. CASE o # Garbage
    <3>1. o \in f.recs /\ o.off = idx[k].off /\ RecSize[o.val] = idx[k].len BY <2>5, ReadsOne
    <3>2. g = Written(f, o.key, o.val, TRUE) BY <1>3, <2>5 DEF Buried, Rewrite
    <3>3. o.key \in Keys /\ o.val \in Values BY <3>1, FileTypes
    <3> HIDE DEF o, g
    <3>4. Disjoint(g) /\ Counted(g) BY <1>1, <3>2, <3>3, WrittenDisjoint, WrittenCounted
    <3>5. g.size <= g.end /\ f.end <= g.end /\ g \in File
      <4>1. g.end = f.end + RecSize[o.val] /\ g.size = f.size + RecSize[o.val]
        BY <3>2 DEF Written
      <4>2. RecSize[o.val] \in Nat /\ g \in File BY <3>2, <3>3, AppendType, RecSizeAssumption
      <4> QED BY <1>1, <4>1, <4>2, FileTypes DEF Inside
    <3>6. Inside(g, idx) /\ Inside(g, jdx)
      <4>1. \A j \in Indexed(idx) : idx[j].off < g.end
        BY <1>1, <3>5, FileTypes DEF Inside, Indexed, Index, Entry
      <4> QED BY <1>1, <2>3, <3>5, <4>1 DEF Inside
    <3>7. c /\ Tidy(g) => Accounted(f, idx)
      <4>1. Tidy(g) => Tidy(f) BY <1>1, <3>2, <3>3, WrittenTidy, WholeTidy
      <4> QED BY <4>1 DEF Consistent
    <3>8. Accounted(f, idx) => Accounted(g, idx) /\ Accounted(g, jdx)
      BY <1>1, <2>1, <2>3, <3>1, <3>2, TombstoneAccounted
    <3> QED BY <3>4, <3>6, <3>7, <3>8 DEF Consistent, g, jdx
  <2> QED BY <2>4, <2>5
<1> QED BY <1>2, <1>3

\* A record and the entry for it, of a key that had none; the copy loop may write a record of
\* another key, or a tombstone.
LEMMA PutConsistent ==
  ASSUME NEW f \in File, NEW idx \in Index, NEW c \in BOOLEAN, Consistent(c, f, idx),
         NEW k \in Keys, idx[k] = None, NEW x \in Keys, NEW v \in Values, NEW d \in BOOLEAN,
         NEW e \in Int
  PROVE  Consistent(c, Written(f, x, v, d),
                    [idx EXCEPT ![k] = [off |-> f.size, exp |-> e, len |-> RecSize[v]]])
<1> DEFINE n == Added(f, x, v, d)
           g == Written(f, x, v, d)
           new == [off |-> f.size, exp |-> e, len |-> RecSize[v]]
           jdx == [idx EXCEPT ![k] = new]
<1>1. Disjoint(f) /\ Inside(f, idx) /\ Counted(f) /\ (c /\ Tidy(f) => Accounted(f, idx))
  BY DEF Consistent
<1>2. g.recs = f.recs \cup {n} /\ n \in g.recs /\ n.off = f.end /\ n.key = x /\ n.val = v
      /\ g.end = f.end + RecSize[v] /\ g.size = f.size + RecSize[v]
  BY DEF Written, Added
<1>3. g \in File /\ RecSize[v] \in Nat \ {0} /\ f.end \in Nat /\ f.size \in Nat
  BY AppendType, RecSizeAssumption, FileTypes
<1>4. Disjoint(g) /\ Counted(g) /\ (Tidy(g) => Whole(f) /\ Tidy(f) /\ f.size = f.end)
  BY <1>1, WrittenDisjoint, WrittenCounted, WholeTidy
<1>5. new \in Entry /\ new # None /\ new.off = f.size /\ new.len = RecSize[v]
  BY <1>3, SentinelAssumption DEF Entry
<1> HIDE DEF n, g, new
<1>6. jdx \in Index /\ jdx[k] = new /\ (\A j \in Keys \ {k} : jdx[j] = idx[j])
      /\ Indexed(jdx) = Indexed(idx) \cup {k} /\ k \notin Indexed(idx)
      /\ \A j \in Indexed(idx) : j # k /\ jdx[j] = idx[j]
  BY <1>5 DEF Index, Indexed
<1> HIDE DEF jdx
<1>7. Inside(g, jdx)
  <2>1. g.size <= g.end BY <1>1, <1>2, <1>3 DEF Inside
  <2>2. \A j \in Indexed(idx) : idx[j].off < g.end
    BY <1>1, <1>2, <1>3 DEF Inside, Indexed, Index, Entry
  <2>3. new.off < g.end BY <1>1, <1>2, <1>3, <1>5 DEF Inside
  <2> QED BY <1>1, <1>5, <1>6, <2>1, <2>2, <2>3 DEF Inside
<1>8. ASSUME c, Tidy(g) PROVE Accounted(g, jdx)
  <2>1. Accounted(f, idx) /\ f.size = f.end BY <1>1, <1>4, <1>8
  <2>2. Reached(jdx, n) BY <1>2, <1>5, <1>6, <2>1 DEF Reached
  <2>3. \A r \in f.recs : Reached(idx, r) => Reached(jdx, r) BY <1>6 DEF Reached
  <2>4. ASSUME NEW r \in g.recs, IsLast(r, g), ~r.del PROVE Reached(jdx, r)
    <3>1. CASE r = n BY <2>2, <3>1
    <3>2. CASE r # n
      <4>1. r \in f.recs /\ IsLast(r, f) BY <1>2, <2>4, <3>2 DEF IsLast
      <4> QED BY <2>1, <2>3, <2>4, <4>1 DEF Accounted
    <3> QED BY <3>1, <3>2
  <2>5. ASSUME NEW r \in g.recs, ~r.del, r.key \in Indexed(jdx), jdx[r.key].off < r.off
        PROVE  r.key \in HalfSet(g, jdx) \/ Reached(jdx, r)
    <3>1. CASE r = n BY <2>2, <3>1
    <3>2. CASE r # n
      <4>1. r \in f.recs /\ r.off < f.end /\ r.off \in Nat BY <1>1, <1>2, <3>2, BelowEnd, FileTypes
      <4>2. r.key # k BY <1>3, <1>5, <1>6, <2>1, <2>5, <4>1
      <4>3. r.key \in Indexed(idx) /\ jdx[r.key] = idx[r.key] BY <1>6, <2>5, <4>2
      <4>4. r.key \in HalfSet(f, idx) => r.key \in HalfSet(g, jdx) BY <1>2, <2>5, <4>3 DEF HalfSet
      <4> QED BY <2>1, <2>3, <2>5, <4>1, <4>3, <4>4 DEF Accounted
    <3> QED BY <3>1, <3>2
  <2> QED BY <2>4, <2>5 DEF Accounted
<1> QED BY <1>4, <1>7, <1>8 DEF Consistent, g, jdx, new

\* Garbage and the entry for it.
LEMMA GarbageConsistent ==
  ASSUME NEW f \in File, NEW idx \in Index, NEW c \in BOOLEAN, Consistent(c, f, idx),
         NEW k \in Keys, NEW e \in Entry, NEW v \in Values, e.len = RecSize[v]
  PROVE  Consistent(c, Rewrite(f, Garbage, e, FALSE),
                    [idx EXCEPT ![k] = [off |-> f.size, exp |-> e.exp, len |-> e.len]])
<1> DEFINE g == Rewrite(f, Garbage, e, FALSE)
           new == [off |-> f.size, exp |-> e.exp, len |-> e.len]
           jdx == [idx EXCEPT ![k] = new]
<1>1. Disjoint(f) /\ Inside(f, idx) /\ Counted(f) BY DEF Consistent
<1>2. g \in File /\ g.end = f.end + e.len /\ g.size = f.size + e.len BY GarbageFields
<1>3. Disjoint(g) /\ ~Tidy(g) /\ ~Whole(g) BY <1>1, GarbageNotTidy
<1>4. e.len \in Nat \ {0} /\ f.end \in Nat /\ f.size \in Nat BY RecSizeAssumption, FileTypes
<1>5. new.off = f.size /\ new.len = RecSize[v] OBVIOUS
<1> HIDE DEF g, new
<1>6. jdx[k] = new /\ (\A j \in Keys \ {k} : jdx[j] = idx[j]) /\ Indexed(jdx) \subseteq Indexed(idx) \cup {k}
  BY DEF Index, Indexed
<1> HIDE DEF jdx
<1>7. Inside(g, jdx)
  <2>1. g.size <= g.end BY <1>1, <1>2, <1>4 DEF Inside
  <2>2. \A j \in Indexed(idx) : idx[j].off < g.end
    BY <1>1, <1>2, <1>4 DEF Inside, Indexed, Index, Entry
  <2>3. new.off < g.end BY <1>1, <1>2, <1>4, <1>5 DEF Inside
  <2>4. Indexed(jdx) \subseteq Keys BY DEF Indexed
  <2> QED BY <1>1, <1>5, <1>6, <2>1, <2>2, <2>3, <2>4 DEF Inside
<1> QED BY <1>3, <1>7 DEF Consistent, Counted, g, jdx, new

\* A new file and its index.
LEMMA EmptyConsistent ==
  /\ Disjoint(EmptyFile) /\ Whole(EmptyFile) /\ EmptyFile \in File /\ EmptyIndex \in Index
  /\ \A c : Consistent(c, EmptyFile, EmptyIndex)
  /\ Keeps(EmptyFile, EmptyIndex)
BY EmptyTypes
   DEF EmptyFile, EmptyIndex, Consistent, Disjoint, Inside, Counted, Accounted, Indexed, Whole,
       Covered, Keeps, IsLast

-----------------------------------------------------------------------------
(* What a step of the running shard does to the file and the index it writes to *)

Entries(idx) == {idx[k] : k \in Indexed(idx)}

\* Nothing; a failed write, perhaps after the tombstone; a deletion; a Set; or a copy, of
\* what has been read through an entry of es.
Changes(es, f, idx, g, jdx) ==
  \/ g = f /\ jdx = idx
  \/ jdx = idx /\ \E n \in FailBytes : g = Tear(f, n)
  \/ jdx = idx /\ \E k \in Keys, n \in FailBytes : g = Tear(Buried(f, idx[k]), n)
  \/ \E k \in Keys : g = Buried(f, idx[k]) /\ jdx = [idx EXCEPT ![k] = None]
  \/ \E k \in Keys, v \in Values, e \in Expirations :
       g = SetFile(f, idx, k, v) /\ jdx = SetIndex(f, idx, k, v, e)
  \/ \E k \in Keys, e \in es, r \in LogRec \cup {Garbage} :
       /\ idx[k] = None
       /\ g = CopyOf(f, r, e)
       /\ jdx = [idx EXCEPT ![k] = [off |-> f.size, exp |-> e.exp, len |-> Length(r, e)]]

\* What the copy loop may copy: the entries of the old index, while there is one.
Copied == IF isActiveComp THEN Entries(index) ELSE {}

\* Callers and goroutines write to the active file, and note it in its index.
LEMMA WritesActive ==
  ASSUME Shape, CallerWrites \/ OtherStep
  PROVE  /\ \E f, idx : UpdateActive(f, idx) /\ Changes(Copied, ActiveFile, ActiveIndex, f, idx)
         /\ UNCHANGED <<lifeVars, dirVars, born>> /\ now <= now'
<1> DEFINE Goal == \E f, idx : UpdateActive(f, idx) /\ Changes(Copied, ActiveFile, ActiveIndex, f, idx)
<1>1. ASSUME UNCHANGED <<file, fileComp, mapVars>> PROVE Goal
  <2>1. UpdateActive(ActiveFile, ActiveIndex)
    BY <1>1 DEF UpdateActive, ActiveFile, ActiveIndex, mapVars
  <2> QED BY <2>1 DEF Changes
<1>2. ASSUME NEW n \in FailBytes, FailActive(ActiveFile, n) PROVE Goal
  <2>1. UpdateActive(Tear(ActiveFile, n), ActiveIndex) BY <1>2 DEF FailActive
  <2>2. Changes(Copied, ActiveFile, ActiveIndex, Tear(ActiveFile, n), ActiveIndex) BY DEF Changes
  <2> QED BY <2>1, <2>2
<1>3. ASSUME NEW k \in Keys, NEW v \in Values, NEW e \in Expirations, Set(k, v, e) PROVE Goal
  <2>1. CASE SetWrites(k, v, e)
    <3>1. UpdateActive(SetFile(ActiveFile, ActiveIndex, k, v), SetIndex(ActiveFile, ActiveIndex, k, v, e))
      BY <2>1 DEF SetWrites, SetFile, SetIndex
    <3>2. Changes(Copied, ActiveFile, ActiveIndex, SetFile(ActiveFile, ActiveIndex, k, v),
                  SetIndex(ActiveFile, ActiveIndex, k, v, e))
      BY DEF Changes
    <3> QED BY <3>1, <3>2
  <2>2. ASSUME NEW n \in FailBytes, TombstoneFails(k, n) PROVE Goal
    BY <1>2, <2>2 DEF TombstoneFails
  <2>3. ASSUME NEW n \in FailBytes, SetFailsOnRecord(k, v, n) PROVE Goal
    <3>1. UpdateActive(Tear(Buried(ActiveFile, ActiveIndex[k]), n), ActiveIndex)
      BY <2>3 DEF SetFailsOnRecord, FailActive
    <3>2. Changes(Copied, ActiveFile, ActiveIndex, Tear(Buried(ActiveFile, ActiveIndex[k]), n), ActiveIndex)
      BY DEF Changes
    <3> QED BY <3>1, <3>2
  <2> QED BY <1>3, <2>1, <2>2, <2>3 DEF Set, SetFails
<1>4. ASSUME NEW k \in Keys, UpdateActive(Buried(ActiveFile, ActiveIndex[k]), [ActiveIndex EXCEPT ![k] = None])
      PROVE  Goal
  <2>1. Changes(Copied, ActiveFile, ActiveIndex, Buried(ActiveFile, ActiveIndex[k]),
                [ActiveIndex EXCEPT ![k] = None])
    BY DEF Changes
  <2> QED BY <1>4, <2>1
<1>5. ASSUME NEW k \in Keys, Delete(k) PROVE Goal
  BY <1>2, <1>4, <1>5 DEF Delete, DeleteWrites, DeleteFails, TombstoneFails
<1>6. ASSUME Deleter PROVE Goal
  <2>1. ASSUME NEW k \in Keys, DeleteExpKey(k) PROVE Goal
    <3>1. ~isActiveComp BY <2>1 DEF DeleteExpKey, Shape
    <3>2. UpdateActive(Buried(ActiveFile, ActiveIndex[k]), [ActiveIndex EXCEPT ![k] = None])
      BY <2>1, <3>1 DEF DeleteExpKey, UpdateActive, ActiveFile, ActiveIndex
    <3> QED BY <1>4, <3>2
  <2>2. ASSUME NEW k \in Keys, DeleteExpFails(k) PROVE Goal
    <3>1. ~isActiveComp BY <2>2 DEF DeleteExpFails, Shape
    <3>2. CASE UNCHANGED <<file, torn>> BY <1>1, <2>2, <3>2 DEF DeleteExpFails
    <3>3. ASSUME NEW n \in FailBytes, file' = Tear(file, n), torn' = (torn \/ n > 0) PROVE Goal
      <4>1. FailActive(ActiveFile, n)
        BY <2>2, <3>1, <3>3
           DEF DeleteExpFails, FailActive, UpdateActive, ActiveFile, ActiveIndex, mapVars
      <4> QED BY <1>2, <4>1
    <3> QED BY <2>2, <3>2, <3>3 DEF DeleteExpFails
  <2>3. ASSUME NEW k \in Keys, DeleteExpSkips(k) PROVE Goal
    BY <1>1, <2>3 DEF DeleteExpSkips, diskVars
  <2>4. CASE DeleteExpBegin \/ DeleteExpCancelled \/ DeleterBlocks \/ DeleterStops
    BY <1>1, <2>4 DEF DeleteExpBegin, DeleteExpCancelled, DeleterBlocks, DeleterStops, diskVars
  <2> QED BY <1>6, <2>1, <2>2, <2>3, <2>4 DEF Deleter
<1>7. ASSUME CompactWrite PROVE Goal
  <2> DEFINE k == carried.key
             e == snapshot[k]
  <2>1. isActiveComp /\ snapshot = index /\ ActiveFile = fileComp /\ ActiveIndex = indexComp
    BY <1>7 DEF CompactWrite, Shape, SnapshotFrozen, ActiveFile, ActiveIndex
  <2>2. carried \in Carried /\ k \in Keys /\ carried.rec \in LogRec \cup {Garbage} /\ e \in Copied
    BY <1>7, <2>1 DEF CompactWrite, Shape, TypeOK, Carried, Copied, Entries, Indexed
  <2>3. CASE indexComp[k] # None BY <1>1, <1>7, <2>3 DEF CompactWrite, mapVars
  <2>4. CASE indexComp[k] = None
    <3> DEFINE g == CopyOf(fileComp, carried.rec, e)
               jdx == [indexComp EXCEPT ![k] =
                        [off |-> fileComp.size, exp |-> e.exp, len |-> Length(carried.rec, e)]]
    <3>1. UpdateActive(g, jdx) BY <1>7, <2>1, <2>4 DEF CompactWrite, UpdateActive
    <3>2. Changes(Copied, ActiveFile, ActiveIndex, g, jdx) BY <2>1, <2>2, <2>4 DEF Changes
    <3> QED BY <3>1, <3>2
  <2> QED BY <2>3, <2>4
<1>8. ASSUME NEW n \in FailBytes, CompactWriteFails(n) PROVE Goal
  <2>1. isActiveComp BY <1>8 DEF CompactWriteFails, Shape
  <2>2. FailActive(ActiveFile, n)
    BY <1>8, <2>1 DEF CompactWriteFails, FailActive, UpdateActive, ActiveFile, ActiveIndex, mapVars
  <2> QED BY <1>2, <2>2
<1>9. ASSUME CheckTrigger \/ CompactInterrupted \/ CompactorStops \/ StartCompactization \/ Tick
      PROVE  Goal
  BY <1>1, <1>9 DEF CheckTrigger, CompactInterrupted, CompactorStops, StartCompactization, Tick, diskVars
<1>10. ASSUME NEW k \in Keys, CompactRead(k) \/ CompactReadFails(k) \/ CompactPanics(k) PROVE Goal
  BY <1>1, <1>10 DEF CompactRead, CompactReadFails, CompactPanics, diskVars
<1>11. Goal
  <2> HIDE DEF Goal
  <2>1. CASE CallerWrites BY <1>3, <1>5, <2>1 DEF CallerWrites, Caller
  <2>2. CASE OtherStep
    BY <1>6, <1>7, <1>8, <1>9, <1>10, <2>2 DEF OtherStep, Compactor
  <2> QED BY <2>1, <2>2
<1>12. UNCHANGED lifeVars /\ now <= now'
  <2>1. now \in Nat BY DEF Shape, TypeOK
  <2>2. CASE CallerWrites BY <2>1, <2>2 DEF CallerWrites, Caller, Set, Delete
  <2>3. CASE Deleter
    <3>1. UNCHANGED <<lifeVars, now>>
      BY <2>3 DEF Deleter, DeleteExpBegin, DeleteExpCancelled, DeleterBlocks, DeleterStops,
        DeleteExpKey, DeleteExpSkips, DeleteExpFails
    <3> QED BY <2>1, <3>1
  <2>4. CASE Compactor
    <3>1. UNCHANGED <<lifeVars, now>>
      BY <2>4 DEF Compactor, CheckTrigger, CompactBegin, CompactBeginFails, CompactRead,
        CompactReadFails, CompactPanics, CompactInterrupted, CompactWrite, CompactWriteFails,
        CompactEnd, RollbackCompact, CompactorStops
    <3> QED BY <2>1, <3>1
  <2>5. CASE StartCompactization \/ Tick BY <2>1, <2>5 DEF StartCompactization, Tick
  <2> QED BY <2>2, <2>3, <2>4, <2>5 DEF OtherStep
<1>13. UNCHANGED <<dirVars, born>> BY DEF CallerWrites, OtherStep
<1> QED BY <1>11, <1>12, <1>13

\* Entries whose bytes, if they are a record, are as many as a record has.
Measured(es) == \A e \in es : e \in Entry /\ \E v \in Values : e.len = RecSize[v]

\* No change of the active file, done or failed, breaks its consistency with its index.
LEMMA ChangesConsistent ==
  ASSUME NEW f \in File, NEW idx \in Index, NEW c \in BOOLEAN, Consistent(c, f, idx),
         NEW es, Measured(es), NEW g, NEW jdx, Changes(es, f, idx, g, jdx)
  PROVE  g \in File /\ jdx \in Index /\ Consistent(c, g, jdx)
<1>1. CASE g = f /\ jdx = idx BY <1>1
<1>2. ASSUME jdx = idx, NEW n \in FailBytes, g = Tear(f, n)
      PROVE  g \in File /\ jdx \in Index /\ Consistent(c, g, jdx)
  BY <1>2, TearType, TearConsistent, FailBytesAssumption
<1>3. ASSUME jdx = idx, NEW k \in Keys, NEW n \in FailBytes, g = Tear(Buried(f, idx[k]), n)
      PROVE  g \in File /\ jdx \in Index /\ Consistent(c, g, jdx)
  <2>1. Buried(f, idx[k]) \in File /\ Consistent(c, Buried(f, idx[k]), idx)
    BY BuriedType, BuryConsistent DEF Index
  <2> QED BY <1>3, <2>1, TearType, TearConsistent, FailBytesAssumption
<1>4. ASSUME NEW k \in Keys, g = Buried(f, idx[k]), jdx = [idx EXCEPT ![k] = None]
      PROVE  g \in File /\ jdx \in Index /\ Consistent(c, g, jdx)
  <2>1. g \in File /\ jdx \in Index BY <1>4, BuriedType DEF Index
  <2> QED BY <1>4, <2>1, BuryConsistent
<1>5. ASSUME NEW k \in Keys, NEW v \in Values, NEW e \in Expirations,
             g = SetFile(f, idx, k, v), jdx = SetIndex(f, idx, k, v, e)
      PROVE  g \in File /\ jdx \in Index /\ Consistent(c, g, jdx)
  <2> DEFINE g1 == Buried(f, idx[k])
             jdx1 == [idx EXCEPT ![k] = None]
             new == [off |-> g1.size, exp |-> e, len |-> RecSize[v]]
  <2>1. e \in Int BY BoundsAssumption
  <2>2. /\ g1 \in File /\ jdx1 \in Index /\ jdx1[k] = None
        /\ g = Written(g1, k, v, FALSE) /\ jdx = [jdx1 EXCEPT ![k] = new]
    <3>1. g1 \in File /\ jdx1 \in Index /\ jdx1[k] = None BY BuriedType DEF Index
    <3>2. g = Written(g1, k, v, FALSE) /\ jdx = [idx EXCEPT ![k] = new] BY <1>5 DEF SetFile, SetIndex
    <3>3. [idx EXCEPT ![k] = new] = [jdx1 EXCEPT ![k] = new]
      <4> HIDE DEF new
      <4> QED BY DEF Index
    <3> QED BY <3>1, <3>2, <3>3
  <2>3. Consistent(c, g1, jdx1) BY BuryConsistent
  <2> HIDE DEF g1, jdx1
  <2>4. Consistent(c, g, jdx) BY <2>1, <2>2, <2>3, PutConsistent
  <2>5. g \in File BY <2>2, AppendType
  <2>6. g1.size \in Nat BY <2>2 DEF File
  <2>7. jdx \in Index BY <2>1, <2>2, <2>6, IndexType
  <2> QED BY <2>4, <2>5, <2>7
<1>6. ASSUME NEW k \in Keys, NEW e \in es, NEW r \in LogRec \cup {Garbage}, idx[k] = None,
             g = CopyOf(f, r, e),
             jdx = [idx EXCEPT ![k] = [off |-> f.size, exp |-> e.exp, len |-> Length(r, e)]]
      PROVE  g \in File /\ jdx \in Index /\ Consistent(c, g, jdx)
  <2>1. e \in Entry /\ e.exp \in Int /\ f.size \in Nat /\ \E v \in Values : e.len = RecSize[v]
    BY DEF Measured, Entry, File
  <2>2. g \in File BY <1>6, <2>1, RewriteType DEF CopyOf, LogRec
  <2>3. PICK v \in Values : Length(r, e) = RecSize[v] BY <2>1 DEF Length, LogRec
  <2>4. jdx \in Index BY <1>6, <2>1, <2>3, IndexType
  <2>5. CASE r = Garbage
    <3>1. Length(r, e) = e.len /\ g = Rewrite(f, Garbage, e, FALSE) BY <1>6, <2>5 DEF Length, CopyOf
    <3>2. Consistent(c, Rewrite(f, Garbage, e, FALSE),
                     [idx EXCEPT ![k] = [off |-> f.size, exp |-> e.exp, len |-> e.len]])
      BY <2>1, GarbageConsistent
    <3>3. Consistent(c, g, jdx) BY <1>6, <3>1, <3>2
    <3> QED BY <2>2, <2>4, <3>3
  <2>6. CASE r # Garbage
    <3>1. r \in LogRec BY <2>6
    <3>2. PICK x \in Keys, y \in Values : x = r.key /\ y = r.val BY <3>1 DEF LogRec
    <3>3. Length(r, e) = RecSize[y] /\ g = Written(f, x, y, r.del) /\ r.del \in BOOLEAN
      BY <1>6, <2>6, <3>1, <3>2 DEF Length, CopyOf, Rewrite, LogRec
    <3>4. PICK z \in Int : jdx = [idx EXCEPT ![k] = [off |-> f.size, exp |-> z, len |-> RecSize[y]]]
      BY <1>6, <2>1, <3>3
    <3>5. idx[k] = None BY <1>6
    <3>6. Consistent(c, Written(f, x, y, r.del),
                     [idx EXCEPT ![k] = [off |-> f.size, exp |-> z, len |-> RecSize[y]]])
      BY <3>3, <3>5, PutConsistent
    <3>7. Consistent(c, g, jdx) BY <3>3, <3>4, <3>6
    <3> QED BY <2>2, <2>4, <3>7
  <2> QED BY <2>5, <2>6
<1> QED BY <1>1, <1>2, <1>3, <1>4, <1>5, <1>6 DEF Changes

\* The lifetimes of what is written are those that callers ask for, or those of what is copied.
LEMMA ChangesLives ==
  ASSUME NEW f, NEW idx \in Index, NEW t, Lives(idx, t), NEW es,
         \A e \in es : e.exp <= t + ReloadFor \/ \E x \in Expirations : e.exp <= x,
         NEW g, NEW jdx, Changes(es, f, idx, g, jdx)
  PROVE  Lives(jdx, t)
<1> SUFFICES ASSUME NEW j \in Indexed(jdx)
             PROVE  jdx[j].exp <= t + ReloadFor \/ \E e \in Expirations : jdx[j].exp <= e
  BY DEF Lives
<1>1. j \in Keys BY DEF Indexed
<1>2. CASE jdx = idx BY <1>2 DEF Lives
<1>3. ASSUME NEW k \in Keys, NEW new, jdx = [idx EXCEPT ![k] = new],
             new # None => new.exp <= t + ReloadFor \/ \E e \in Expirations : new.exp <= e
      PROVE  jdx[j].exp <= t + ReloadFor \/ \E e \in Expirations : jdx[j].exp <= e
  <2>1. jdx[k] = new /\ \A i \in Keys \ {k} : jdx[i] = idx[i] BY <1>3 DEF Index
  <2> QED BY <1>1, <1>3, <2>1 DEF Lives, Indexed
<1>4. ASSUME NEW k \in Keys, NEW v \in Values, NEW e \in Expirations, jdx = SetIndex(f, idx, k, v, e)
      PROVE  jdx[j].exp <= t + ReloadFor \/ \E x \in Expirations : jdx[j].exp <= x
  <2> DEFINE new == [off |-> Buried(f, idx[k]).size, exp |-> e, len |-> RecSize[v]]
  <2>1. jdx = [idx EXCEPT ![k] = new] /\ new.exp = e BY <1>4 DEF SetIndex
  <2>2. e <= e BY BoundsAssumption
  <2> HIDE DEF new
  <2> QED BY <1>3, <2>1, <2>2
<1>5. ASSUME NEW k \in Keys, NEW e \in es, NEW r,
             jdx = [idx EXCEPT ![k] = [off |-> f.size, exp |-> e.exp, len |-> Length(r, e)]]
      PROVE  jdx[j].exp <= t + ReloadFor \/ \E x \in Expirations : jdx[j].exp <= x
  <2> DEFINE new == [off |-> f.size, exp |-> e.exp, len |-> Length(r, e)]
  <2>1. jdx = [idx EXCEPT ![k] = new] /\ new.exp = e.exp BY <1>5
  <2> HIDE DEF new
  <2> QED BY <1>3, <2>1
<1>6. ASSUME NEW k \in Keys, jdx = [idx EXCEPT ![k] = None]
      PROVE  jdx[j].exp <= t + ReloadFor \/ \E x \in Expirations : jdx[j].exp <= x
  BY <1>3, <1>6
<1> QED BY <1>2, <1>4, <1>5, <1>6 DEF Changes

-----------------------------------------------------------------------------
(* What is written behind b stays where the index says *)

\* A failed write disturbs neither.
LEMMA TearMended ==
  ASSUME NEW f \in File, NEW idx, NEW b, Mended(b, f, idx), NEW n \in Nat
  PROVE  Mended(b, Tear(f, n), idx)
<1>1. Tear(f, n).recs = f.recs BY TearFields
<1> QED BY <1>1 DEF Mended, IsLast

\* The tombstone is of the record that the entry reads, and if that lies behind b, of its key.
LEMMA BuryMended ==
  ASSUME NEW f \in File, Disjoint(f), NEW idx \in Index, NEW b \in Nat, Mended(b, f, idx), NEW k \in Keys
  PROVE  /\ Mended(b, Buried(f, idx[k]), idx)
         /\ Mended(b, Buried(f, idx[k]), [idx EXCEPT ![k] = None])
<1> DEFINE g == Buried(f, idx[k])
           o == ReadAt(f, idx[k])
           jdx == [idx EXCEPT ![k] = None]
<1>1. /\ Indexed(jdx) = Indexed(idx) \ {k} /\ \A j \in Indexed(jdx) : jdx[j] = idx[j]
      /\ \A j \in Keys \ {k} : jdx[j] = idx[j]
  BY DEF Index, Indexed
<1>2. CASE idx[k] = None
  <2>1. g = f /\ jdx = idx BY <1>2 DEF Buried, Index
  <2> QED BY <2>1
<1>3. CASE idx[k] # None
  <2>1. k \in Indexed(idx) BY <1>3 DEF Indexed
  <2>2. f.recs \subseteq g.recs
        /\ \A r \in g.recs : IsLast(r, g) /\ ~r.del =>
             r \in f.recs /\ IsLast(r, f) /\ (o # Garbage => r.key # o.key)
    <3>1. CASE o = Garbage
      <4>1. g.recs = f.recs BY <1>3, <3>1 DEF Buried, Rewrite, File
      <4> QED BY <3>1, <4>1 DEF IsLast
    <3>2. CASE o # Garbage
      <4> DEFINE n == Added(f, o.key, o.val, TRUE)
      <4>1. g.recs = f.recs \cup {n} /\ n.off = f.end /\ n.key = o.key /\ n.del
        BY <1>3, <3>2 DEF Buried, Rewrite, Written, Added
      <4> HIDE DEF n, g, o
      <4>2. \A r \in f.recs : r.off < f.end /\ r.off \in Nat /\ f.end \in Nat BY BelowEnd, FileTypes
      <4>3. ASSUME NEW r \in g.recs, IsLast(r, g), ~r.del
            PROVE  r \in f.recs /\ IsLast(r, f) /\ r.key # o.key
        <5>1. r \in f.recs BY <4>1, <4>3
        <5>2. r.key = n.key => n.off <= r.off BY <4>1, <4>3 DEF IsLast
        <5> QED BY <4>1, <4>2, <4>3, <5>1, <5>2 DEF IsLast
      <4> QED BY <4>1, <4>3
    <3> QED BY <3>1, <3>2
  <2>3. ASSUME NEW r \in g.recs, r.off >= b, IsLast(r, g), ~r.del
        PROVE  idx[r.key] # None /\ idx[r.key].off = r.off /\ r.key # k /\ r.key \in Keys
    <3>1. r \in f.recs /\ idx[r.key] # None /\ idx[r.key].off = r.off
      BY <2>2, <2>3 DEF Mended
    <3>2. r.key \in Keys BY <3>1, FileTypes
    <3>3. ASSUME r.key = k PROVE FALSE
      <4>1. PICK s \in f.recs : IsRecordOf(s, k, idx[k]) BY <2>1, <2>3, <3>1, <3>3 DEF Mended
      <4>2. o = s BY <4>1, ReadsThat DEF IsRecordOf
      <4>3. o.key = k /\ o # Garbage BY <4>1, <4>2, SentinelAssumption DEF IsRecordOf, File
      <4> HIDE DEF o, g
      <4> QED BY <2>2, <2>3, <3>3, <4>3
    <3> QED BY <3>1, <3>2, <3>3
  <2>4. Mended(b, g, idx) BY <2>2, <2>3 DEF Mended
  <2>5. Mended(b, g, jdx)
    <3> HIDE DEF g, jdx
    <3> QED BY <1>1, <2>2, <2>3 DEF Mended
  <2> QED BY <2>4, <2>5
<1> QED BY <1>2, <1>3

\* A Set whose record is where the counter said.
LEMMA PutMended ==
  ASSUME NEW f \in File, Disjoint(f), f.size = f.end, NEW idx \in Index, NEW b \in Nat,
         Mended(b, f, idx), NEW k \in Keys, NEW v \in Values, NEW e \in Int
  PROVE  Mended(b, Written(f, k, v, FALSE),
                [idx EXCEPT ![k] = [off |-> f.size, exp |-> e, len |-> RecSize[v]]])
<1> DEFINE n == Added(f, k, v, FALSE)
           g == Written(f, k, v, FALSE)
           new == [off |-> f.size, exp |-> e, len |-> RecSize[v]]
           jdx == [idx EXCEPT ![k] = new]
<1>1. g.recs = f.recs \cup {n} /\ n.off = f.end /\ n.key = k /\ n.val = v /\ ~n.del
  BY DEF Written, Added
<1>2. new.off = f.end /\ new.len = RecSize[v] /\ new \in Entry /\ new # None
  BY RecSizeAssumption, SentinelAssumption DEF Entry, File
<1> HIDE DEF n, g, new
<1>3. jdx[k] = new /\ \A j \in Keys \ {k} : jdx[j] = idx[j] BY DEF Index
<1> HIDE DEF jdx
<1>4. \A r \in f.recs : r.off < f.end /\ r.off \in Nat /\ f.end \in Nat /\ r.key \in Keys
  BY BelowEnd, FileTypes
<1>5. ASSUME NEW j \in Indexed(jdx), jdx[j].off >= b PROVE \E r \in g.recs : IsRecordOf(r, j, jdx[j])
  <2>1. CASE j = k BY <1>1, <1>2, <1>3, <2>1 DEF IsRecordOf
  <2>2. CASE j # k
    <3>1. j \in Indexed(idx) /\ jdx[j] = idx[j] BY <1>3, <2>2 DEF Indexed
    <3> QED BY <1>1, <1>5, <3>1 DEF Mended
  <2> QED BY <2>1, <2>2
<1>6. ASSUME NEW r \in g.recs, r.off >= b, IsLast(r, g), ~r.del
      PROVE  jdx[r.key] # None /\ jdx[r.key].off = r.off
  <2>1. CASE r = n BY <1>1, <1>2, <1>3, <2>1
  <2>2. CASE r # n
    <3>1. r \in f.recs /\ IsLast(r, f) BY <1>1, <1>6, <2>2 DEF IsLast
    <3>2. r.key = k => f.end <= r.off BY <1>1, <1>6 DEF IsLast
    <3>3. r.key # k BY <1>4, <3>1, <3>2
    <3> QED BY <1>3, <1>4, <1>6, <3>1, <3>3 DEF Mended
  <2> QED BY <2>1, <2>2
<1> QED BY <1>5, <1>6 DEF Mended, g, jdx, new

\* A step in which no bytes escape the counter, and nothing is copied.
LEMMA ChangesMended ==
  ASSUME NEW f \in File, NEW idx \in Index, NEW b \in Nat, Consistent(FALSE, f, idx),
         Mended(b, f, idx), NEW g, NEW jdx, Changes({}, f, idx, g, jdx), g.size = g.end
  PROVE  Mended(b, g, jdx)
<1>1. Disjoint(f) BY DEF Consistent
<1>2. CASE g = f /\ jdx = idx BY <1>2
<1>3. ASSUME jdx = idx, NEW n \in FailBytes, g = Tear(f, n) PROVE Mended(b, g, jdx)
  BY <1>3, TearMended, FailBytesAssumption
<1>4. ASSUME jdx = idx, NEW k \in Keys, NEW n \in FailBytes, g = Tear(Buried(f, idx[k]), n)
      PROVE  Mended(b, g, jdx)
  <2>1. Buried(f, idx[k]) \in File /\ Mended(b, Buried(f, idx[k]), idx)
    BY <1>1, BuriedType, BuryMended DEF Index
  <2> QED BY <1>4, <2>1, TearMended, FailBytesAssumption
<1>5. ASSUME NEW k \in Keys, g = Buried(f, idx[k]), jdx = [idx EXCEPT ![k] = None]
      PROVE  Mended(b, g, jdx)
  BY <1>1, <1>5, BuryMended
<1>6. ASSUME NEW k \in Keys, NEW v \in Values, NEW e \in Expirations,
             g = SetFile(f, idx, k, v), jdx = SetIndex(f, idx, k, v, e)
      PROVE  Mended(b, g, jdx)
  <2> DEFINE g1 == Buried(f, idx[k])
             jdx1 == [idx EXCEPT ![k] = None]
             new == [off |-> g1.size, exp |-> e, len |-> RecSize[v]]
  <2>1. e \in Int BY BoundsAssumption
  <2>2. g1 \in File /\ jdx1 \in Index BY BuriedType DEF Index
  <2>3. g = Written(g1, k, v, FALSE) /\ jdx = [idx EXCEPT ![k] = new] BY <1>6 DEF SetFile, SetIndex
  <2>4. [idx EXCEPT ![k] = new] = [jdx1 EXCEPT ![k] = new]
    <3> HIDE DEF new
    <3> QED BY DEF Index
  <2>5. Mended(b, g1, jdx1) BY <1>1, BuryMended
  <2>6. Consistent(FALSE, g1, jdx1)
    <3>1. FALSE \in BOOLEAN OBVIOUS
    <3> QED BY <3>1, BuryConsistent, Zenon
  <2>7. Disjoint(g1) BY <2>6 DEF Consistent
  <2> HIDE DEF g1, jdx1
  <2>8. g1.size = g1.end
    <3>1. g.size = g1.size + RecSize[v] /\ g.end = g1.end + RecSize[v] BY <2>3 DEF Written
    <3>2. g1.size \in Nat /\ g1.end \in Nat /\ RecSize[v] \in Nat BY <2>2, FileTypes, RecSizeAssumption
    <3>3. \A x, y, z \in Nat : x + z = y + z => x = y OBVIOUS
    <3> QED BY <3>1, <3>2, <3>3
  <2>9. Mended(b, Written(g1, k, v, FALSE), [jdx1 EXCEPT ![k] = new])
    BY <2>1, <2>2, <2>5, <2>7, <2>8, PutMended
  <2> QED BY <2>3, <2>4, <2>9
<1> QED BY <1>2, <1>3, <1>4, <1>5, <1>6 DEF Changes

-----------------------------------------------------------------------------
(* What a process leaves behind *)

\* What a file holds for its last reader is what the last records in it say: an entry leads
\* to the last record of its key, but for a key whose Set has failed half-way.
LEMMA HeldKept ==
  ASSUME NEW f \in File, NEW idx \in Index, NEW c \in BOOLEAN, Consistent(c, f, idx),
         wasWhole /\ ~ctxDone => c
  PROVE  Held(f, idx) \in Holds /\ Remembered(f, Held(f, idx))
<1>1. CASE ~wasWhole \/ ctxDone \/ ~Points(f, idx)
  BY <1>1 DEF Held, Holds, Remembered
<1>2. CASE wasWhole /\ ~ctxDone /\ Points(f, idx)
  <2> DEFINE read == Indexed(idx) \ HalfSet(f, idx)
             w == [k \in Keys |-> IF k \in read THEN ReadAt(f, idx[k]).val ELSE None]
  <2>1. Held(f, idx) = w BY <1>2 DEF Held
  <2>2. Disjoint(f) BY DEF Consistent
  <2>3. ASSUME NEW k \in Indexed(idx)
        PROVE  \E r \in f.recs : IsRecordOf(r, k, idx[k]) /\ ReadAt(f, idx[k]) = r
    <3>1. PICK r \in f.recs : IsRecordOf(r, k, idx[k]) BY <1>2 DEF Points
    <3>2. r.off = idx[k].off /\ RecSize[r.val] = idx[k].len BY <3>1 DEF IsRecordOf
    <3>3. ReadAt(f, idx[k]) = r BY <2>2, <3>2, ReadsThat
    <3> QED BY <3>1, <3>3
  <2>4. ASSUME NEW r \in f.recs, Reached(idx, r)
        PROVE  r.key \in Indexed(idx) /\ IsRecordOf(r, r.key, idx[r.key]) /\ ReadAt(f, idx[r.key]) = r
    <3>1. PICK k \in Indexed(idx) : idx[k].off = r.off /\ idx[k].len = RecSize[r.val]
      BY <2>4 DEF Reached
    <3>2. PICK s \in f.recs : IsRecordOf(s, k, idx[k]) /\ ReadAt(f, idx[k]) = s BY <2>3
    <3>3. s = r BY <2>2, <3>1, <3>2, OffsetUnique DEF IsRecordOf
    <3> QED BY <3>1, <3>2, <3>3 DEF IsRecordOf
  <2>5. \A k \in read : k \in Keys /\ w[k] = ReadAt(f, idx[k]).val BY DEF Indexed
  <2>6. \A k \in Keys \ read : w[k] = None OBVIOUS
  <2>7. \A r \in f.recs : r.key \in Keys /\ r.val \in Values /\ r.off \in Nat BY FileTypes
  <2>8. w \in Holds
    <3>1. \A k \in read : ReadAt(f, idx[k]).val \in Values BY <2>3, <2>7
    <3> QED BY <3>1 DEF Holds
  <2> HIDE DEF w
  <2>9. ASSUME Tidy(f) PROVE Keeps(f, w)
    <3>1. Accounted(f, idx) BY <1>2, <2>9 DEF Consistent
    <3>2. ASSUME NEW k \in Keys, w[k] # None
          PROVE  \E r \in f.recs : IsLast(r, f) /\ r.key = k /\ ~r.del /\ r.val = w[k]
      <4>1. k \in read BY <2>6, <3>2
      <4>2. PICK r \in f.recs : IsRecordOf(r, k, idx[k]) /\ ReadAt(f, idx[k]) = r BY <2>3, <4>1
      <4>3. r.off = idx[k].off /\ r.key = k /\ ~r.del BY <4>2 DEF IsRecordOf
      <4>4. ASSUME NEW s \in f.recs, s.key = k, ~(s.off <= r.off) PROVE FALSE
        <5>1. idx[k].off < s.off BY <2>7, <4>3, <4>4
        <5>2. ~s.del BY <2>7, <4>1, <4>3, <4>4, <5>1 DEF HalfSet
        <5>3. Reached(idx, s) BY <3>1, <4>1, <4>4, <5>1, <5>2 DEF Accounted
        <5>4. s.off = idx[k].off BY <2>4, <4>4, <5>3 DEF IsRecordOf
        <5> QED BY <2>7, <5>1, <5>4
      <4>5. IsLast(r, f) BY <4>3, <4>4 DEF IsLast
      <4> QED BY <2>5, <4>1, <4>2, <4>3, <4>5
    <3>3. ASSUME NEW r \in f.recs, IsLast(r, f), ~r.del PROVE w[r.key] = r.val
      <4>1. Reached(idx, r) BY <3>1, <3>3 DEF Accounted
      <4>2. r.key \in Indexed(idx) /\ IsRecordOf(r, r.key, idx[r.key]) /\ ReadAt(f, idx[r.key]) = r
        BY <2>4, <4>1
      <4>3. r.key \notin HalfSet(f, idx)
        <5>1. \A s \in f.recs : s.key = r.key => ~(s.off > idx[r.key].off)
          BY <2>7, <3>3, <4>2 DEF IsLast, IsRecordOf
        <5> QED BY <5>1 DEF HalfSet
      <4> QED BY <2>5, <4>2, <4>3
    <3> QED BY <3>2, <3>3 DEF Keeps
  <2> QED BY <2>1, <2>8, <2>9 DEF Remembered
<1> QED BY <1>1, <1>2

\* A file with a consistent index may be left behind.
LEMMA LeftoverKept ==
  ASSUME NEW f \in File, NEW idx \in Index, NEW c \in BOOLEAN, Consistent(c, f, idx),
         wasWhole /\ ~ctxDone => c, NEW n \in Names
  PROVE  LET l == Leftover(n, f, idx)
         IN  /\ l \in [name : Names, file : File, was : Holds]
             /\ l.name = n /\ Disjoint(l.file) /\ Remembered(l.file, l.was)
BY HeldKept DEF Leftover, Consistent

-----------------------------------------------------------------------------
(* Loading *)

\* Behind all records, the last before p is the last.
LEMMA LastIsLast ==
  ASSUME NEW f, NEW p, \A r \in f.recs : r.off < p, NEW r \in f.recs
  PROVE  LastBefore(r, f, p) <=> IsLast(r, f)
BY DEF LastBefore, IsLast

\* Before the first record there is nothing to be read.
LEMMA NothingRead ==
  ASSUME NEW f \in File
  PROVE  ReadTo(f, EmptyIndex, 0)
<1>1. \A r \in f.recs : r.off \in Nat BY FileTypes
<1>2. Boundary(f, 0) BY <1>1 DEF Boundary
<1>3. \A k \in Keys : Exact(f, EmptyIndex, k, 0) BY <1>1 DEF Exact, EmptyIndex, LastBefore
<1> QED BY <1>2, <1>3, FileTypes DEF ReadTo

\* The record at p: its key's entry leads to it, or it is a tombstone and the entry goes.
LEMMA ReadsRecordAt ==
  ASSUME NEW f \in File, Disjoint(f), NEW idx \in Index, NEW p \in Nat, ReadTo(f, idx, p),
         NEW r \in f.recs, r.off = p, NEW new, NEW jdx, jdx = [idx EXCEPT ![r.key] = new],
         new = None <=> r.del, new # None => new.off = p /\ new.len = RecSize[r.val]
  PROVE  ReadTo(f, jdx, p + RecSize[r.val])
<1> DEFINE q == p + RecSize[r.val]
<1>1. /\ q \in Nat /\ p < q /\ r.key \in Keys
      /\ \A s \in f.recs : s.off \in Nat /\ RecSize[s.val] \in Nat \ {0} /\ s.key \in Keys
  BY FileTypes
<1>2. q <= f.end BY DEF Disjoint
<1>3. \A s \in f.recs : s # r => s.off + RecSize[s.val] <= p \/ q <= s.off
  BY <1>1 DEF Disjoint
<1> HIDE DEF q
<1>4. Boundary(f, q) BY <1>1, <1>3 DEF Boundary, q
<1>5. \A s \in f.recs : s.off < q <=> s.off < p \/ s = r BY <1>1, <1>3
<1>6. jdx[r.key] = new /\ \A k \in Keys \ {r.key} : jdx[k] = idx[k] BY <1>1 DEF Index
<1>7. ASSUME NEW k \in Keys, k # r.key PROVE Exact(f, jdx, k, q)
  <2>1. \A s \in f.recs : s.key = k => (LastBefore(s, f, q) <=> LastBefore(s, f, p))
    BY <1>5, <1>7 DEF LastBefore
  <2>2. Exact(f, idx, k, p) /\ jdx[k] = idx[k] BY <1>6, <1>7 DEF ReadTo
  <2> QED BY <2>1, <2>2 DEF Exact, IsRecordOf
<1>8. Exact(f, jdx, r.key, q)
  <2>1. LastBefore(r, f, q) BY <1>1, <1>5 DEF LastBefore
  <2>2. \A s \in f.recs : LastBefore(s, f, q) /\ s.key = r.key => s = r
    BY <1>1, <1>5, <2>1 DEF LastBefore
  <2>3. new # None => IsRecordOf(r, r.key, new) BY DEF IsRecordOf
  <2> QED BY <1>6, <2>1, <2>2, <2>3 DEF Exact
<1> QED BY <1>2, <1>4, <1>7, <1>8 DEF ReadTo, q

\* Where no record begins, between records, there is nothing but the tail.
LEMMA TailIsLast ==
  ASSUME NEW f \in File, Disjoint(f), Tidy(f), NEW p \in Nat, Boundary(f, p),
         \A r \in f.recs : r.off # p
  PROVE  /\ \A r \in f.recs : r.off < p
         /\ \A v \in Values : f.end < p + RecSize[v]
         /\ p < f.end => ~Whole(f)
<1>1. \A r \in f.recs : r.off \in Nat /\ RecSize[r.val] \in Nat \ {0} /\ f.end \in Nat BY FileTypes
<1>2. ASSUME NEW q \in Nat, Covered(f, q) PROVE q <= p
  <2> SUFFICES ASSUME p < q PROVE FALSE OBVIOUS
  <2>1. p \in 0 .. q - 1 OBVIOUS
  <2>2. PICK r \in f.recs : r.off <= p /\ p < r.off + RecSize[r.val] BY <1>2, <2>1 DEF Covered
  <2> QED BY <1>1, <2>2 DEF Boundary
<1>3. PICK q \in 0 .. f.end :
        Covered(f, q) /\ (\A r \in f.recs : r.off < q) /\ \A v \in Values : f.end - q < RecSize[v]
  BY DEF Tidy
<1>4. q <= p BY <1>2, <1>3
<1>5. \A r \in f.recs : r.off < p BY <1>1, <1>3, <1>4
<1>6. \A v \in Values : f.end < p + RecSize[v] BY <1>3, <1>4, FileTypes, RecSizeAssumption
<1>7. p < f.end => ~Whole(f) BY <1>2, FileTypes DEF Whole
<1> QED BY <1>5, <1>6, <1>7

\* Behind all records the place does not matter.
LEMMA ExactAtEnd ==
  ASSUME NEW f \in File, Disjoint(f), NEW idx, NEW k, NEW p, \A r \in f.recs : r.off < p,
         Exact(f, idx, k, p)
  PROVE  Exact(f, idx, k, f.end)
<1>1. \A r \in f.recs : LastBefore(r, f, p) <=> LastBefore(r, f, f.end)
  BY BelowEnd, LastIsLast
<1> QED BY <1>1 DEF Exact

\* A tail that is taken for a record ends the file, and costs one key its entry.
LEMMA ReadsTail ==
  ASSUME NEW f \in File, Disjoint(f), Tidy(f), NEW idx \in Index, NEW p \in Nat, ReadTo(f, idx, p),
         p < f.end, \A r \in f.recs : r.off # p, NEW n \in Nat, NEW v \in Values, RecSize[v] <= n,
         NEW k \in Keys, NEW jdx, \A j \in Keys \ {k} : jdx[j] = idx[j]
  PROVE  ReadPast(f, jdx, p + n)
<1>1. (\A r \in f.recs : r.off < p) /\ ~Whole(f) /\ f.end < p + RecSize[v]
  BY TailIsLast DEF ReadTo
<1>2. f.end < p + n BY <1>1, FileTypes, RecSizeAssumption
<1>3. \A j \in Keys : Exact(f, idx, j, f.end) BY <1>1, ExactAtEnd DEF ReadTo
<1>4. ASSUME NEW j \in Keys \ {k} PROVE Exact(f, jdx, j, f.end)
  <2>1. jdx[j] = idx[j] /\ Exact(f, idx, j, f.end) BY <1>3
  <2> QED BY <2>1 DEF Exact
<1> QED BY <1>1, <1>2, <1>4 DEF ReadPast

\* When the loop ends, the index says what the last record of each key does, but for one
\* key if there is a tail.
LEMMA ReadAll ==
  ASSUME NEW f \in File, Disjoint(f), Tidy(f), NEW idx \in Index, NEW p \in Nat,
         ReadTo(f, idx, p) \/ ReadPast(f, idx, p), p >= f.end \/ \A r \in f.recs : r.off # p
  PROVE  /\ Whole(f) => \A k \in Keys : Exact(f, idx, k, f.end)
         /\ \A j, k \in Keys : ~Exact(f, idx, j, f.end) /\ ~Exact(f, idx, k, f.end) => j = k
<1>1. CASE ReadPast(f, idx, p) BY <1>1 DEF ReadPast
<1>2. CASE ReadTo(f, idx, p)
  <2>1. \A r \in f.recs : r.off < p
    <3>1. CASE \A r \in f.recs : r.off # p BY <1>2, <3>1, TailIsLast DEF ReadTo
    <3>2. CASE p >= f.end
      <4>1. \A r \in f.recs : r.off < f.end BY BelowEnd
      <4> QED BY <3>2, <4>1, FileTypes
    <3> QED BY <3>1, <3>2
  <2>2. \A k \in Keys : Exact(f, idx, k, f.end) BY <1>2, <2>1, ExactAtEnd DEF ReadTo
  <2> QED BY <2>2
<1> QED BY <1>1, <1>2

\* An exact index accounts for all records.
LEMMA ExactAccounted ==
  ASSUME NEW f \in File, Disjoint(f), NEW idx \in Index, \A k \in Keys : Exact(f, idx, k, f.end)
  PROVE  Accounted(f, idx)
<1>1. \A r \in f.recs : /\ r.key \in Keys /\ r.off \in Nat
                        /\ LastBefore(r, f, f.end) <=> IsLast(r, f)
  BY BelowEnd, LastIsLast, FileTypes
<1>2. ASSUME NEW k \in Indexed(idx)
      PROVE  \E s \in f.recs : IsLast(s, f) /\ IsRecordOf(s, k, idx[k])
  BY <1>1 DEF Exact, Indexed
<1>3. ASSUME NEW r \in f.recs, IsLast(r, f), ~r.del PROVE Reached(idx, r)
  <2>1. r.key \in Indexed(idx) BY <1>1, <1>3 DEF Exact, Indexed
  <2>2. PICK s \in f.recs : IsLast(s, f) /\ IsRecordOf(s, r.key, idx[r.key]) BY <1>2, <2>1
  <2>3. s.off = r.off BY <1>1, <1>3, <2>2 DEF IsLast, IsRecordOf
  <2>4. s = r BY <2>3, OffsetUnique
  <2> QED BY <2>1, <2>2, <2>4 DEF Reached, IsRecordOf
<1>4. ASSUME NEW r \in f.recs, r.key \in Indexed(idx) PROVE ~(idx[r.key].off < r.off)
  <2>1. PICK s \in f.recs : IsLast(s, f) /\ IsRecordOf(s, r.key, idx[r.key]) BY <1>2, <1>4
  <2>2. r.off <= idx[r.key].off /\ idx[r.key].off \in Nat BY <1>1, <2>1 DEF IsLast, IsRecordOf
  <2> QED BY <1>1, <2>2
<1> QED BY <1>3, <1>4 DEF Accounted

\* A key for which the index is exact is read as the file was when it was let go of.
LEMMA ExactReads ==
  ASSUME NEW f \in File, Disjoint(f), NEW idx \in Index, NEW w, Keeps(f, w), NEW k \in Keys,
         Exact(f, idx, k, f.end)
  PROVE  /\ idx[k] = None => w[k] = None
         /\ idx[k] # None => ReadAt(f, idx[k]) # Garbage /\ ReadAt(f, idx[k]).val = w[k]
<1>1. \A r \in f.recs : LastBefore(r, f, f.end) <=> IsLast(r, f) BY BelowEnd, LastIsLast
<1>2. CASE idx[k] = None
  <2>1. \A r \in f.recs : IsLast(r, f) /\ r.key = k => r.del BY <1>1, <1>2 DEF Exact
  <2> QED BY <1>2, <2>1 DEF Keeps
<1>3. CASE idx[k] # None
  <2>1. PICK r \in f.recs : IsLast(r, f) /\ IsRecordOf(r, k, idx[k]) BY <1>1, <1>3 DEF Exact
  <2>2. ReadAt(f, idx[k]) = r /\ r.key = k /\ ~r.del BY <2>1, ReadsThat DEF IsRecordOf
  <2>3. r # Garbage BY SentinelAssumption DEF File
  <2> QED BY <1>3, <2>1, <2>2, <2>3 DEF Keeps
<1> QED BY <1>2, <1>3

-----------------------------------------------------------------------------
(* The invariant at the start, and when a process ends *)

\* The files that nobody has open, if they are ls.
Kept(ls) ==
  /\ ls \subseteq [name : Names, file : File, was : Holds]
  /\ \A l, m \in ls : l.name = m.name => l = m
  /\ \A l \in ls : Disjoint(l.file) /\ Remembered(l.file, l.was)

\* The files left behind are as the invariant says ...
LEMMA KeptNow == Directory /\ Files => Kept(left)
BY DEF Directory, Files, RestartTypeOK, Kept

\* ... and stay so if one is added under a name of its own.
LEMMA KeptMore ==
  ASSUME NEW ls, Kept(ls), NEW l \in [name : Names, file : File, was : Holds],
         Disjoint(l.file), Remembered(l.file, l.was), \A m \in ls : m.name # l.name
  PROVE  Kept(ls \cup {l})
BY DEF Kept

\* The types of the files and indexes.
LEMMA IndexOf == TypeOK => index \in Index /\ indexComp \in Index /\ file \in File /\ fileComp \in File
BY DEF TypeOK, Index

\* A process that has indexed nothing yet, or has ended, claims nothing.
LEMMA NothingClaimed ==
  ASSUME index = EmptyIndex, indexComp = EmptyIndex, fileComp = EmptyFile, NEW c \in BOOLEAN, ~c,
         file \in File, Disjoint(file), file.size = file.end
  PROVE  Consistent(c, file, index) /\ Consistent(TRUE, fileComp, indexComp)
<1>1. Consistent(c, file, index)
  BY FileTypes DEF Consistent, Inside, Counted, Indexed, EmptyIndex
<1>2. \A d : Consistent(d, EmptyFile, EmptyIndex) BY EmptyConsistent
<1> QED BY <1>1, <1>2

\* Before the first start.
LEMMA InitInv == RestartInit => RestartInv
<1> SUFFICES ASSUME RestartInit PROVE RestartInv OBVIOUS
<1>1. Shape BY InitShape DEF RestartInit
<1>2. RestartTypeOK
  <2>1. None \in Holds BY DEF Holds
  <2>2. 0 \in 0 .. MaxStarts /\ 0 \in 0 .. MaxCalls BY RestartAssumption
  <2>3. {name, nameComp} \cap {l.name : l \in left} = {} BY DEF RestartInit
  <2> QED BY <1>1, <2>1, <2>2, <2>3 DEF RestartInit, RestartTypeOK, Shape
<1>3. Directory BY <1>1, <1>2 DEF RestartInit, Init, Directory
<1>4. Files
  <2>1. Disjoint(file) /\ file.size = file.end /\ file \in File
    BY EmptyConsistent DEF RestartInit, Init, EmptyFile
  <2>2. ~Complete /\ Complete \in BOOLEAN BY DEF RestartInit, Complete
  <2>3. left = {} /\ index = EmptyIndex /\ indexComp = EmptyIndex /\ fileComp = EmptyFile
    BY DEF RestartInit, Init
  <2> QED BY <2>1, <2>2, <2>3, NothingClaimed DEF Files
<1>5. LoadSound /\ Lifetimes /\ Healing
  BY DEF RestartInit, Init, EmptyFile, LoadSound, Lifetimes, Healing
<1> QED BY <1>3, <1>4, <1>5 DEF RestartInv

\* A process may end at any moment: what it has open is left behind.
LEMMA CrashInv == RestartInv /\ Crash => RestartInv'
<1> SUFFICES ASSUME RestartInv, Crash PROVE RestartInv' OBVIOUS
<1> DEFINE l1 == [Leftover(name, file, index) EXCEPT !.was = IF phase = "up" THEN @ ELSE was]
           l2 == Leftover(nameComp, fileComp, indexComp)
           Types == [name : Names, file : File, was : Holds]
<1>1. /\ Directory /\ Files /\ LoadSound /\ RestartTypeOK /\ TypeOK
      /\ phase \in {"loading", "up"} /\ name \in Names /\ name # nameComp
      /\ index \in Index /\ indexComp \in Index /\ file \in File /\ fileComp \in File
  BY IndexOf DEF RestartInv, Crash, Directory, RestartTypeOK
<1>2. Consistent(Complete, file, index) /\ Consistent(TRUE, fileComp, indexComp) BY <1>1 DEF Files
<1>3. Complete \in BOOLEAN /\ TRUE \in BOOLEAN BY DEF Complete
<1>4. l1 \in Types /\ l1.name = name /\ Disjoint(l1.file) /\ Remembered(l1.file, l1.was)
  <2>1. CASE phase = "up"
    <3>1. wasWhole /\ ~ctxDone => Complete BY <2>1 DEF Complete
    <3>2. l1 = Leftover(name, file, index) BY <2>1 DEF Leftover
    <3> HIDE DEF l1
    <3> QED BY <1>1, <1>2, <1>3, <3>1, <3>2, LeftoverKept
  <2>2. CASE phase = "loading"
    <3>1. l1 = [name |-> name, file |-> file, was |-> was] BY <2>2 DEF Leftover
    <3>2. Disjoint(file) /\ Remembered(file, was) /\ was \in Holds
      BY <1>1, <1>2, <2>2 DEF LoadSound, RestartTypeOK, Consistent
    <3> HIDE DEF l1
    <3> QED BY <1>1, <3>1, <3>2
  <2> QED BY <1>1, <2>1, <2>2
<1>5. ASSUME nameComp # None
      PROVE  l2 \in Types /\ l2.name = nameComp /\ Disjoint(l2.file) /\ Remembered(l2.file, l2.was)
  <2> HIDE DEF l1, l2, Types
  <2>1. nameComp \in Names BY <1>1, <1>5 DEF RestartTypeOK
  <2>2. Consistent(TRUE, fileComp, indexComp) /\ fileComp \in File /\ indexComp \in Index
    BY <1>1, <1>2
  <2>3. LET l == Leftover(nameComp, fileComp, indexComp)
        IN  /\ l \in [name : Names, file : File, was : Holds]
            /\ l.name = nameComp /\ Disjoint(l.file) /\ Remembered(l.file, l.was)
    BY <2>1, <2>2, LeftoverKept
  <2> QED BY <2>3 DEF l2, Types
<1>6. left' = left \cup {l1} \cup (IF nameComp = None THEN {} ELSE {l2}) BY DEF Crash
<1> HIDE DEF l1, l2
<1>7. Kept(left')
  <2>1. Kept(left) /\ \A m \in left : m.name # name /\ m.name # nameComp
    BY <1>1, KeptNow DEF RestartTypeOK
  <2>2. Kept(left \cup {l1}) BY <1>4, <2>1, KeptMore
  <2>3. CASE nameComp = None BY <1>6, <2>2, <2>3
  <2>4. CASE nameComp # None
    <3>1. \A m \in left \cup {l1} : m.name # l2.name BY <1>1, <1>4, <1>5, <2>1, <2>4
    <3> QED BY <1>5, <1>6, <2>2, <2>4, <3>1, KeptMore
  <2> QED BY <2>3, <2>4
<1>8. None \notin Names /\ EmptyFile \in File /\ EmptyIndex \in Index
  BY RestartAssumption, EmptyTypes
<1>9. Shape'
  <2>1. TypeOK' BY <1>1, <1>8 DEF Crash, TypeOK, Index
  <2> QED BY <2>1 DEF Crash, Shape, SnapshotFrozen, CompactionOwned
<1>10. RestartTypeOK'
  <2>1. \A l \in left' : l.name # None BY <1>7, <1>8 DEF Kept
  <2>2. {name', nameComp'} \cap {l.name : l \in left'} = {} BY <2>1 DEF Crash
  <2>3. None \in Holds BY DEF Holds
  <2>4. left' \subseteq Types /\ \A l, m \in left' : l.name = m.name => l = m BY <1>7 DEF Kept
  <2>5. TypeOK' BY <1>9 DEF Shape
  <2>6. /\ phase' = "down" /\ name' = None /\ nameComp' = None /\ pos' = 0 /\ upSince' = 0
        /\ born' = 0 /\ wasWhole' = TRUE /\ was' = None /\ cut' = FALSE
        /\ UNCHANGED <<starts, calls>>
    BY DEF Crash
  <2>7. starts \in 0 .. MaxStarts /\ calls \in 0 .. MaxCalls BY <1>1 DEF RestartTypeOK
  <2> QED BY <2>2, <2>3, <2>4, <2>5, <2>6, <2>7 DEF RestartTypeOK
<1>11. Directory' BY <1>8, <1>9, <1>10 DEF Crash, Directory
<1>12. Files'
  <2>1. Complete' = FALSE BY DEF Crash, Complete
  <2>2. \A c : Consistent(c, file', index') /\ Consistent(c, fileComp', indexComp')
    BY EmptyConsistent DEF Crash
  <2> QED BY <1>7, <2>2 DEF Files, Kept
<1>13. LoadSound' /\ Lifetimes' /\ Healing'
  BY DEF Crash, EmptyFile, LoadSound, Lifetimes, Healing
<1> QED BY <1>11, <1>12, <1>13 DEF RestartInv

-----------------------------------------------------------------------------
(* The start *)

\* Counting what is in a file changes nothing that is said of it.
LEMMA CountedAnew ==
  ASSUME NEW f \in File, Disjoint(f)
  PROVE  LET g == [f EXCEPT !.size = f.end]
         IN  /\ g \in File /\ g.end = f.end /\ g.size = f.end /\ Disjoint(g)
             /\ Whole(g) <=> Whole(f)
             /\ Tidy(g) <=> Tidy(f)
             /\ \A w : Keeps(g, w) <=> Keeps(f, w)
<1> DEFINE g == [f EXCEPT !.size = f.end]
<1>1. g \in File /\ g.recs = f.recs /\ g.end = f.end /\ g.size = f.end BY DEF File
<1> HIDE DEF g
<1>2. Disjoint(g) BY <1>1 DEF Disjoint
<1>3. \A p : Covered(g, p) <=> Covered(f, p) BY <1>1 DEF Covered
<1>4. (Whole(g) <=> Whole(f)) /\ (Tidy(g) <=> Tidy(f)) BY <1>1, <1>3 DEF Whole, Tidy
<1>5. ASSUME NEW w PROVE Keeps(g, w) <=> Keeps(f, w) BY <1>1 DEF Keeps, IsLast
<1> QED BY <1>1, <1>2, <1>4, <1>5 DEF g

\* While there is no process there is no file, no compaction and no index.
LEMMA DownEmpty ==
  ASSUME Directory, phase = "down"
  PROVE  /\ index = EmptyIndex /\ indexComp = EmptyIndex /\ fileComp = EmptyFile
         /\ ~isActiveComp /\ nameComp = None /\ pos = 0
         /\ compactor = "idle" /\ deleter = "idle" /\ ~leakedRLock /\ ~cut
BY DEF Directory, Shape, CompactionOwned

\* A file is opened, be it one left behind or a new one.
LEMMA NewFileShardInv ==
  ASSUME RestartInv, NEW n \in Names, NEW f \in File, NEW held \in Holds, Disjoint(f),
         Remembered(f, held), NewFileShard(n, f, held), Kept(left'), \A l \in left' : l.name # n
  PROVE  RestartInv'
<1>1. /\ Directory /\ Shape /\ TypeOK /\ RestartTypeOK /\ phase = "down"
      /\ index = EmptyIndex /\ indexComp = EmptyIndex /\ fileComp = EmptyFile
      /\ ~isActiveComp /\ nameComp = None /\ pos = 0
      /\ compactor = "idle" /\ deleter = "idle" /\ ~leakedRLock /\ ~cut
  BY DownEmpty DEF RestartInv, NewFileShard, Directory, RestartTypeOK
<1>2. /\ UNCHANGED <<fileComp, index, indexComp, isActiveComp, triggerComp, compactor, snapshot,
                     todo, carried, leakedRLock, deleter, sweepLeft, now, ctxDone, stopped, closed,
                     nameComp, pos, calls, upSince, cut>>
      /\ phase' = "loading" /\ name' = n /\ starts' = starts + 1 /\ starts < MaxStarts
      /\ torn' = ~Whole(f) /\ born' = f.end /\ wasWhole' = Whole(f) /\ was' = held
  BY DEF NewFileShard, mapVars, compVars, delVars, lifeVars
<1>3. /\ file' \in File /\ file'.end = f.end /\ file'.size = f.end /\ Disjoint(file')
      /\ Whole(file') <=> Whole(f)
      /\ Tidy(file') <=> Tidy(f)
      /\ \A w : Keeps(file', w) <=> Keeps(f, w)
  <2>1. file' = [f EXCEPT !.size = f.end] BY DEF NewFileShard
  <2> QED BY <2>1, CountedAnew
<1>4. Whole(f) \in BOOLEAN /\ f.end \in Nat /\ None \notin Names
  BY FileTypes, RestartAssumption DEF Whole, Covered
<1>5. Shape'
  <2>1. TypeOK' BY <1>1, <1>2, <1>3, <1>4 DEF TypeOK
  <2> QED BY <1>1, <1>2, <2>1 DEF Shape, SnapshotFrozen, CompactionOwned
<1>6. RestartTypeOK'
  <2>1. left' \subseteq [name : Names, file : File, was : Holds]
        /\ \A l, m \in left' : l.name = m.name => l = m
    BY DEF Kept
  <2>2. {name', nameComp'} \cap {l.name : l \in left'} = {}
    <3>1. \A l \in left' : l.name \in Names BY <2>1
    <3> QED BY <1>1, <1>2, <1>4, <3>1
  <2>3. starts' \in 0 .. MaxStarts /\ calls' \in 0 .. MaxCalls /\ starts \in Nat
    BY <1>1, <1>2, RestartAssumption DEF RestartTypeOK
  <2>4. TypeOK' BY <1>5 DEF Shape
  <2> QED BY <1>1, <1>2, <1>4, <2>1, <2>2, <2>3, <2>4 DEF RestartTypeOK
<1>7. Directory' BY <1>1, <1>2, <1>4, <1>5, <1>6 DEF Directory
<1>8. Files'
  <2>1. Complete' = FALSE BY <1>2 DEF Complete
  <2>2. Inside(file', index') /\ Counted(file')
    BY <1>1, <1>2, <1>3, <1>4 DEF Inside, Counted, Indexed, EmptyIndex
  <2>3. Consistent(Complete', file', index') BY <1>3, <2>1, <2>2 DEF Consistent
  <2>4. Consistent(TRUE, fileComp', indexComp') BY <1>1, <1>2, EmptyConsistent
  <2> QED BY <2>3, <2>4 DEF Files, Kept
<1>9. LoadSound'
  <2>1. ReadTo(file', index', pos') BY <1>1, <1>2, <1>3, NothingRead
  <2>2. Remembered(file', was') BY <1>2, <1>3 DEF Remembered
  <2> QED BY <1>2, <1>3, <2>1, <2>2 DEF LoadSound
<1>10. Lifetimes' /\ Healing'
  <2>1. Lives(index', now') BY <1>1, <1>2 DEF Lives, Indexed, EmptyIndex
  <2> QED BY <1>2, <1>3, <1>4, <2>1 DEF Lifetimes, Healing
<1> QED BY <1>7, <1>8, <1>9, <1>10 DEF RestartInv

\* The start takes a file left behind or makes a new one.
LEMMA StartInv == RestartInv /\ Start => RestartInv'
<1> SUFFICES ASSUME RestartInv, Start PROVE RestartInv' OBVIOUS
<1>1. Kept(left) BY KeptNow DEF RestartInv
<1>2. ASSUME NEW l \in left, StartFromFile(l) PROVE RestartInv'
  <2>1. /\ l.name \in Names /\ l.file \in File /\ l.was \in Holds
        /\ Disjoint(l.file) /\ Remembered(l.file, l.was)
    BY <1>1 DEF Kept
  <2>2. NewFileShard(l.name, l.file, l.was) /\ left' = left \ {l} BY <1>2 DEF StartFromFile
  <2>3. Kept(left') /\ \A m \in left' : m.name # l.name BY <1>1, <2>2 DEF Kept
  <2> QED BY <2>1, <2>2, <2>3, NewFileShardInv
<1>3. ASSUME NEW n \in Names, StartAnew(n) PROVE RestartInv'
  <2>1. /\ EmptyFile \in File /\ Disjoint(EmptyFile) /\ EmptyIndex \in Holds
        /\ Remembered(EmptyFile, EmptyIndex)
    BY EmptyConsistent DEF Remembered, Holds, EmptyIndex
  <2>2. NewFileShard(n, EmptyFile, EmptyIndex) /\ left' = left BY <1>3 DEF StartAnew
  <2>3. Kept(left') /\ \A m \in left' : m.name # n
    BY <1>1, <1>3, <2>2 DEF StartAnew, Unused, UsedNames
  <2> QED BY <2>1, <2>2, <2>3, NewFileShardInv
<1> QED BY <1>2, <1>3 DEF Start

-----------------------------------------------------------------------------
(* The rounds of initIndexFromFile *)

\* What the invariant says while a file is read.
LEMMA LoadingFacts ==
  ASSUME RestartInv, Loading
  PROVE  /\ Directory /\ Shape /\ TypeOK /\ RestartTypeOK /\ Files /\ LoadSound /\ Lifetimes /\ Healing
         /\ phase = "loading" /\ file \in File /\ index \in Index /\ pos \in Nat /\ now \in Nat
         /\ born = file.end /\ file.size = file.end
         /\ fileComp = EmptyFile /\ indexComp = EmptyIndex
         /\ ~isActiveComp /\ compactor = "idle" /\ deleter = "idle" /\ ~leakedRLock /\ ~cut
         /\ Disjoint(file) /\ Inside(file, index) /\ Counted(file) /\ Lives(index, now)
         /\ Tidy(file) => ReadTo(file, index, pos) \/ ReadPast(file, index, pos)
BY IndexOf DEF RestartInv, Loading, Directory, Shape, CompactionOwned, RestartTypeOK, TypeOK, Files,
               Consistent, LoadSound, Lifetimes

\* While a file is read only the index and the place in the file move.
LEMMA LoadingShape ==
  ASSUME RestartInv, Loading, index' \in Index, ctxDone' \in BOOLEAN
  PROVE  Shape'
<1>1. TypeOK' BY LoadingFacts DEF Loading, TypeOK, Index, compVars, delVars
<1> QED BY <1>1, LoadingFacts DEF Loading, Shape, SnapshotFrozen, CompactionOwned, compVars, delVars

\* Neither do names change.
LEMMA LoadingDirectory ==
  ASSUME RestartInv, Loading, index' \in Index, ctxDone' \in BOOLEAN, pos' \in Nat, upSince' \in Nat,
         phase' \in {"loading", "up"}, phase' # "loading" => pos' = 0
  PROVE  Directory'
<1>1. Shape' /\ TypeOK' BY LoadingShape DEF Shape
<1>2. RestartTypeOK' BY <1>1, LoadingFacts DEF Loading, RestartTypeOK, dirVars
<1> QED BY <1>1, <1>2, LoadingFacts DEF Loading, Directory, dirVars, compVars, delVars

\* A round: what it makes of the index is what the invariant asks for.
LEMMA RoundInv ==
  ASSUME RestartInv, Loading, UNCHANGED <<ctxDone, phase, upSince>>,
         index' \in Index, pos' \in Nat, Inside(file, index'), Lives(index', now),
         Tidy(file) => ReadTo(file, index', pos') \/ ReadPast(file, index', pos')
  PROVE  RestartInv'
<1>1. Directory'
  BY LoadingFacts, LoadingDirectory DEF RestartTypeOK, TypeOK
<1>2. UNCHANGED <<file, fileComp, indexComp, left, born, wasWhole, was, now, cut>>
  BY DEF Loading, dirVars
<1>3. Files'
  <2>1. Complete' = FALSE BY LoadingFacts DEF Complete
  <2>2. Consistent(Complete', file, index') BY <2>1, LoadingFacts DEF Consistent
  <2> QED BY <1>2, <2>2, LoadingFacts DEF Files
<1>4. LoadSound' BY <1>2, LoadingFacts DEF LoadSound
<1>5. Lifetimes' /\ Healing' BY <1>2, LoadingFacts DEF Lifetimes, Healing
<1> QED BY <1>1, <1>3, <1>4, <1>5 DEF RestartInv

\* An entry for what has been read at pos.
LEMMA IndexesFacts ==
  ASSUME RestartInv, Loading, pos < file.end, NEW k \in Keys, NEW v \in Values, NEW d,
         Indexes(k, RecSize[v], d)
  PROVE  /\ \E new : /\ index' = [index EXCEPT ![k] = new]
                     /\ new = None <=> d
                     /\ new # None => new.off = pos /\ new.len = RecSize[v]
         /\ index' \in Index /\ Inside(file, index') /\ Lives(index', now)
<1> DEFINE e == [off |-> pos, exp |-> now + ReloadFor, len |-> RecSize[v]]
           new == IF d THEN None ELSE e
<1>1. index' = [index EXCEPT ![k] = new] BY DEF Indexes
<1>2. /\ file \in File /\ index \in Index /\ pos \in Nat /\ now \in Nat
      /\ Inside(file, index) /\ Lives(index, now)
  BY LoadingFacts
<1>3. e \in Entry /\ e # None /\ e.off = pos /\ e.len = RecSize[v] /\ e.exp = now + ReloadFor
  BY <1>2, RecSizeAssumption, RestartAssumption, SentinelAssumption DEF Entry
<1> HIDE DEF e
<1>4. /\ new = None <=> d
      /\ new # None => new.off = pos /\ new.len = RecSize[v] /\ new.exp = now + ReloadFor
      /\ new \in Entry \cup {None}
  BY <1>3
<1> HIDE DEF new
<1>5. index' \in Index /\ index'[k] = new /\ \A j \in Keys \ {k} : index'[j] = index[j]
  BY <1>1, <1>2, <1>4 DEF Index
<1>6. Inside(file, index') BY <1>2, <1>4, <1>5 DEF Inside, Indexed
<1>7. Lives(index', now)
  <2>1. now + ReloadFor <= now + ReloadFor BY <1>2, RestartAssumption
  <2> QED BY <1>2, <1>4, <1>5, <2>1 DEF Lives, Indexed
<1> QED BY <1>1, <1>4, <1>5, <1>6, <1>7

\* A record is read.
LEMMA LoadRecordInv == RestartInv /\ LoadRecord => RestartInv'
<1> SUFFICES ASSUME RestartInv, LoadRecord PROVE RestartInv' OBVIOUS
<1>1. Loading BY DEF LoadRecord
<1>2. PICK r \in file.recs : /\ r.off = pos
                             /\ Indexes(r.key, RecSize[r.val], r.del)
                             /\ pos' = pos + RecSize[r.val]
  BY DEF LoadRecord
<1>3. /\ file \in File /\ index \in Index /\ Disjoint(file) /\ pos \in Nat
      /\ Tidy(file) => ReadTo(file, index, pos) \/ ReadPast(file, index, pos)
  BY <1>1, LoadingFacts
<1>4. r.key \in Keys /\ r.val \in Values /\ RecSize[r.val] \in Nat BY <1>3, FileTypes
<1>5. pos < file.end BY <1>2, <1>3, BelowEnd
<1>6. PICK new : /\ index' = [index EXCEPT ![r.key] = new]
                 /\ new = None <=> r.del
                 /\ new # None => new.off = pos /\ new.len = RecSize[r.val]
  BY <1>1, <1>2, <1>4, <1>5, IndexesFacts
<1>7. index' \in Index /\ Inside(file, index') /\ Lives(index', now)
  BY <1>1, <1>2, <1>4, <1>5, IndexesFacts
<1>8. Tidy(file) => ReadTo(file, index', pos')
  <2> SUFFICES ASSUME Tidy(file) PROVE ReadTo(file, index', pos') OBVIOUS
  <2>1. ReadTo(file, index, pos) BY <1>3, <1>5, FileTypes DEF ReadPast
  <2> QED BY <1>2, <1>3, <1>6, <2>1, ReadsRecordAt
<1>9. pos' \in Nat /\ UNCHANGED <<ctxDone, phase, upSince>> BY <1>2, <1>3, <1>4 DEF LoadRecord
<1> QED BY <1>1, <1>7, <1>8, <1>9, RoundInv

\* Bytes are read that begin no record: in a tidy file, its tail.
LEMMA LoadGarbageInv == RestartInv /\ LoadGarbage => RestartInv'
<1> SUFFICES ASSUME RestartInv, LoadGarbage PROVE RestartInv' OBVIOUS
<1>1. Loading /\ pos < file.end /\ (\A r \in file.recs : r.off # pos)
      /\ UNCHANGED <<ctxDone, phase, upSince>>
  BY DEF LoadGarbage, AtRecord
<1>2. /\ file \in File /\ index \in Index /\ Disjoint(file) /\ pos \in Nat
      /\ Inside(file, index) /\ Lives(index, now)
      /\ Tidy(file) => ReadTo(file, index, pos)
  <2>1. file.end \in Nat /\ ~(file.end < pos) BY <1>1, LoadingFacts, FileTypes
  <2> QED BY <1>1, <2>1, LoadingFacts DEF ReadPast
<1>3. ASSUME NEW k \in Keys, NEW v \in Values, NEW d \in BOOLEAN, Indexes(k, RecSize[v], d),
             pos' = pos + RecSize[v]
      PROVE  RestartInv'
  <2>1. PICK new : index' = [index EXCEPT ![k] = new] BY <1>1, <1>3, IndexesFacts
  <2>2. \A j \in Keys \ {k} : index'[j] = index[j] BY <1>2, <2>1 DEF Index
  <2>3. RecSize[v] \in Nat /\ RecSize[v] <= RecSize[v] BY RecSizeAssumption
  <2>4. Tidy(file) => ReadPast(file, index', pos') BY <1>1, <1>2, <1>3, <2>2, <2>3, ReadsTail
  <2>5. index' \in Index /\ Inside(file, index') /\ Lives(index', now) BY <1>1, <1>3, IndexesFacts
  <2>6. pos' \in Nat BY <1>2, <1>3, <2>3
  <2> QED BY <1>1, <2>4, <2>5, <2>6, RoundInv
<1>4. ASSUME NEW n \in 1 .. file.end, NEW v \in Values, RecSize[v] <= n, pos' = pos + n,
             UNCHANGED index
      PROVE  RestartInv'
  <2>1. n \in Nat /\ pos' \in Nat BY <1>2, <1>4
  <2>2. Tidy(file) => ReadPast(file, index', pos')
    <3> SUFFICES ASSUME Tidy(file) PROVE ReadPast(file, index', pos') OBVIOUS
    <3>1. CASE Keys = {}
      <4>1. \A r \in file.recs : FALSE BY <1>2, <3>1, FileTypes
      <4>2. file.end < pos + n /\ ~Whole(file)
        <5>1. file.end < pos + RecSize[v] /\ ~Whole(file) BY <1>1, <1>2, TailIsLast DEF ReadTo
        <5> QED BY <1>2, <1>4, <2>1, <5>1, FileTypes, RecSizeAssumption
      <4> QED BY <1>4, <3>1, <4>2 DEF ReadPast
    <3>2. ASSUME NEW k \in Keys PROVE ReadPast(file, index', pos')
      BY <1>1, <1>2, <1>4, <2>1, ReadsTail
    <3> QED BY <3>1, <3>2
  <2> QED BY <1>1, <1>2, <1>4, <2>1, <2>2, RoundInv
<1>5. \/ \E k \in Keys, v \in Values, d \in BOOLEAN :
           Indexes(k, RecSize[v], d) /\ pos' = pos + RecSize[v]
      \/ \E n \in 1 .. file.end : /\ \E v \in Values : RecSize[v] <= n
                                  /\ pos' = pos + n /\ UNCHANGED index
  BY DEF LoadGarbage
<1> QED BY <1>3, <1>4, <1>5

\* Nothing that is indexed, and no record, lies behind the end of the file the start took.
LEMMA NothingBehind ==
  ASSUME NEW f \in File, NEW idx \in Index, Disjoint(f), Inside(f, idx)
  PROVE  Mended(f.end, f, idx)
<1>1. \A r \in f.recs : ~(r.off >= f.end) BY BelowEnd, FileTypes
<1>2. ASSUME NEW k \in Indexed(idx) PROVE ~(idx[k].off >= f.end)
  <2>1. idx[k] \in Entry BY DEF Indexed, Index
  <2>2. idx[k].off \in Nat /\ f.end \in Nat /\ idx[k].off < f.end BY <2>1, FileTypes DEF Entry, Inside
  <2>3. \A x, y \in Nat : x < y => ~(x >= y) OBVIOUS
  <2> QED BY <2>2, <2>3
<1> QED BY <1>1, <1>2 DEF Mended

\* The loop is over: the index is complete if the whole of a whole file has been read.
LEMMA LoadedInv ==
  ASSUME RestartInv, Loading, phase' = "up", upSince' = now, pos' = 0, UNCHANGED index,
         ctxDone' \in BOOLEAN, Complete' => pos >= file.end \/ ~AtRecord
  PROVE  RestartInv'
<1>1. UNCHANGED <<file, fileComp, index, indexComp, left, born, wasWhole, was, now, cut>>
  BY DEF Loading, dirVars
<1>2. /\ file \in File /\ index \in Index /\ Disjoint(file) /\ Inside(file, index) /\ Counted(file)
      /\ Lives(index, now) /\ pos \in Nat /\ now \in Nat
      /\ born = file.end /\ file.size = file.end
      /\ fileComp = EmptyFile /\ indexComp = EmptyIndex
      /\ Tidy(file) => ReadTo(file, index, pos) \/ ReadPast(file, index, pos)
  BY LoadingFacts
<1>3. Directory' BY <1>1, <1>2, LoadingDirectory
<1>4. Files'
  <2>1. ASSUME Complete', Tidy(file) PROVE Accounted(file, index)
    <3>1. Whole(file) BY <1>1, <2>1, LoadingFacts DEF Complete, LoadSound
    <3>2. pos >= file.end \/ \A r \in file.recs : r.off # pos BY <2>1 DEF AtRecord
    <3>3. \A k \in Keys : Exact(file, index, k, file.end) BY <1>2, <2>1, <3>1, <3>2, ReadAll
    <3> QED BY <1>2, <3>3, ExactAccounted
  <2>2. Consistent(Complete', file, index) BY <1>2, <2>1 DEF Consistent
  <2> QED BY <1>1, <2>2, LoadingFacts DEF Files
<1>5. LoadSound' BY DEF LoadSound
<1>6. Lifetimes'
  <2>1. Lives(EmptyIndex, now) BY DEF Lives, Indexed, EmptyIndex
  <2> QED BY <1>1, <1>2, <2>1 DEF Lifetimes
<1>7. Healing'
  <2>1. Mended(born, file, index) BY <1>2, NothingBehind
  <2>2. fileComp.size = fileComp.end BY <1>2 DEF EmptyFile
  <2> QED BY <1>1, <1>2, <2>1, <2>2, FileTypes DEF Healing
<1> QED BY <1>3, <1>4, <1>5, <1>6, <1>7 DEF RestartInv

\* Every round, and each of the two ends of the loop.
LEMMA LoadInv == RestartInv /\ Load => RestartInv'
<1> SUFFICES ASSUME RestartInv, Load PROVE RestartInv' OBVIOUS
<1>1. CASE LoadEnds
  <2>1. ctxDone' \in BOOLEAN BY <1>1, LoadingFacts DEF LoadEnds, TypeOK
  <2> QED BY <1>1, <2>1, LoadedInv DEF LoadEnds
<1>2. CASE LoadCancelled
  <2>1. ctxDone' = TRUE /\ ~Complete' BY <1>2 DEF LoadCancelled, Complete
  <2> QED BY <1>2, <2>1, LoadedInv DEF LoadCancelled
<1> QED BY <1>1, <1>2, LoadRecordInv, LoadGarbageInv DEF Load

-----------------------------------------------------------------------------
(* The shard at work *)

\* What is written back makes the file no shorter.
LEMMA RewriteGrows ==
  ASSUME NEW f \in File, NEW r \in LogRec \cup {Garbage}, NEW e \in Entry, NEW d
  PROVE  f.end <= Rewrite(f, r, e, d).end
<1>1. CASE r = Garbage
  <2>1. Rewrite(f, r, e, d).end = f.end + e.len /\ e.len \in Nat BY <1>1, GarbageFields DEF Entry
  <2> QED BY <2>1, FileTypes
<1>2. CASE r # Garbage
  <2>1. r.val \in Values BY <1>2 DEF LogRec
  <2>2. Rewrite(f, r, e, d).end = f.end + RecSize[r.val] BY <1>2 DEF Rewrite, Written
  <2> QED BY <2>1, <2>2, FileTypes, RecSizeAssumption
<1> QED BY <1>1, <1>2

\* So does a tombstone ...
LEMMA BuriedEnd ==
  ASSUME NEW f \in File, NEW idx \in Index, NEW k \in Keys
  PROVE  Buried(f, idx[k]) \in File /\ f.end <= Buried(f, idx[k]).end
<1>1. Buried(f, idx[k]) \in File BY BuriedType DEF Index
<1>2. CASE idx[k] = None BY <1>1, <1>2, FileTypes DEF Buried
<1>3. CASE idx[k] # None
  <2>1. idx[k] \in Entry BY <1>3 DEF Index
  <2>2. Buried(f, idx[k]) = Rewrite(f, ReadAt(f, idx[k]), idx[k], TRUE) BY <1>3 DEF Buried
  <2> QED BY <1>1, <2>1, <2>2, ReadAtType, RewriteGrows
<1> QED BY <1>2, <1>3

\* ... and every change of the active file.
LEMMA ChangesGrow ==
  ASSUME NEW f \in File, NEW idx \in Index, NEW es, Measured(es), NEW g, NEW jdx,
         Changes(es, f, idx, g, jdx)
  PROVE  f.end <= g.end
<1> USE FileTypes
<1>1. CASE g = f BY <1>1
<1>2. ASSUME NEW n \in FailBytes, g = Tear(f, n) PROVE f.end <= g.end
  BY <1>2, TearFields, FailBytesAssumption
<1>3. ASSUME NEW k \in Keys, NEW n \in FailBytes, g = Tear(Buried(f, idx[k]), n) PROVE f.end <= g.end
  <2>1. g.end = Buried(f, idx[k]).end + n /\ n \in Nat
    BY <1>3, BuriedEnd, TearFields, FailBytesAssumption
  <2>2. f.end <= Buried(f, idx[k]).end /\ Buried(f, idx[k]).end \in Nat BY BuriedEnd
  <2> QED BY <2>1, <2>2
<1>4. ASSUME NEW k \in Keys, g = Buried(f, idx[k]) PROVE f.end <= g.end BY <1>4, BuriedEnd
<1>5. ASSUME NEW k \in Keys, NEW v \in Values, g = SetFile(f, idx, k, v) PROVE f.end <= g.end
  <2>1. g.end = Buried(f, idx[k]).end + RecSize[v] /\ RecSize[v] \in Nat
    BY <1>5, RecSizeAssumption DEF SetFile, Written
  <2>2. f.end <= Buried(f, idx[k]).end /\ Buried(f, idx[k]).end \in Nat BY BuriedEnd
  <2> QED BY <2>1, <2>2
<1>6. ASSUME NEW e \in es, NEW r \in LogRec \cup {Garbage}, g = CopyOf(f, r, e)
      PROVE  f.end <= g.end
  BY <1>6, RewriteGrows DEF Measured, CopyOf
<1> QED BY <1>1, <1>2, <1>3, <1>4, <1>5, <1>6 DEF Changes

\* What the invariant says while the shard runs.
LEMMA WorkingFacts ==
  ASSUME RestartInv, AtWork
  PROVE  /\ Directory /\ Shape /\ TypeOK /\ RestartTypeOK /\ Files /\ Healing /\ phase = "up"
         /\ file \in File /\ index \in Index /\ fileComp \in File /\ indexComp \in Index
         /\ name \in Names /\ name # nameComp /\ born \in Nat /\ now \in Nat
         /\ Kept(left) /\ \A l \in left : l.name # name /\ l.name # nameComp
         /\ Consistent(Complete, file, index) /\ Consistent(TRUE, fileComp, indexComp)
         /\ Lives(index, upSince) /\ Lives(indexComp, upSince)
         /\ Complete \in BOOLEAN /\ (wasWhole /\ ~ctxDone => Complete)
<1>1. Directory /\ Files /\ Lifetimes /\ Healing /\ phase = "up" BY DEF RestartInv, AtWork
<1>2. Shape /\ TypeOK /\ RestartTypeOK BY <1>1 DEF Directory, RestartTypeOK
<1>3. Kept(left) BY <1>1, KeptNow
<1>4. \A l \in left : l.name # name /\ l.name # nameComp BY <1>2 DEF RestartTypeOK
<1>5. Complete \in BOOLEAN /\ (wasWhole /\ ~ctxDone => Complete) BY <1>1 DEF Complete
<1> QED BY <1>1, <1>2, <1>3, <1>4, <1>5, IndexOf DEF Directory, Files, Lifetimes, RestartTypeOK, TypeOK

\* What remains to be shown of a step of the running shard.
LEMMA WorkInv ==
  ASSUME RestartInv, AtWork, Shape', UNCHANGED lifeVars,
         name' \in Names, nameComp' \in Names \cup {None}, name' # nameComp',
         isActiveComp' <=> nameComp' # None,
         Kept(left'), \A l \in left' : l.name # name' /\ l.name # nameComp',
         calls' \in 0 .. MaxCalls, born' \in Nat, born' <= file'.end,
         Consistent(Complete, file', index'), Consistent(TRUE, fileComp', indexComp'),
         Lives(index', upSince), Lives(indexComp', upSince),
         ~cut' => /\ file'.size = file'.end /\ fileComp'.size = fileComp'.end
                  /\ Mended(born', file', index')
  PROVE  RestartInv'
<1>1. phase' = "up" /\ UNCHANGED <<phase, pos, starts, upSince, wasWhole, was, ctxDone>>
  BY DEF AtWork, lifeVars
<1>2. cut' \in BOOLEAN BY DEF AtWork
<1>3. RestartTypeOK'
  <2>1. {name', nameComp'} \cap {l.name : l \in left'} = {} OBVIOUS
  <2>2. left' \subseteq [name : Names, file : File, was : Holds]
        /\ \A l, m \in left' : l.name = m.name => l = m
    BY DEF Kept
  <2>3. TypeOK' BY DEF Shape
  <2>4. pos \in Nat /\ starts \in 0 .. MaxStarts /\ upSince \in Nat /\ wasWhole \in BOOLEAN
        /\ was \in Holds
    BY WorkingFacts DEF RestartTypeOK
  <2> QED BY <1>1, <1>2, <2>1, <2>2, <2>3, <2>4 DEF RestartTypeOK
<1>4. Directory'
  <2>1. pos = 0 BY <1>1, WorkingFacts DEF Directory
  <2> QED BY <1>1, <1>3, <2>1 DEF Directory
<1>5. Files'
  <2>1. Complete' = Complete BY <1>1 DEF Complete
  <2> QED BY <2>1 DEF Files, Kept
<1>6. LoadSound' /\ Lifetimes' /\ Healing' BY <1>1 DEF LoadSound, Lifetimes, Healing
<1> QED BY <1>4, <1>5, <1>6 DEF RestartInv

\* As long as no bytes escape the counters, a start's mending holds.
LEMMA NothingEscapes ==
  ASSUME RestartInv, AtWork, file' \in File, fileComp' \in File,
         Inside(file', index'), Inside(fileComp', indexComp'), ~cut'
  PROVE  /\ file'.size = file'.end /\ fileComp'.size = fileComp'.end
         /\ Mended(born, file, index)
<1>1. /\ ~cut /\ ~(Uncounted(file') > Uncounted(file))
      /\ ~(Uncounted(fileComp') > Uncounted(fileComp))
  BY DEF AtWork
<1>2. file.size = file.end /\ fileComp.size = fileComp.end /\ Mended(born, file, index)
  BY <1>1, WorkingFacts DEF Healing
<1>3. \A a, b \in Nat : a <= b /\ ~(b - a > 0) => a = b OBVIOUS
<1>4. Uncounted(file) = 0 /\ Uncounted(fileComp) = 0 BY <1>2, WorkingFacts, FileTypes DEF Uncounted
<1>5. file'.size \in Nat /\ file'.end \in Nat /\ fileComp'.size \in Nat /\ fileComp'.end \in Nat
  BY FileTypes
<1>6. file'.size <= file'.end /\ fileComp'.size <= fileComp'.end BY DEF Inside
<1>7. ~(file'.end - file'.size > 0) /\ ~(fileComp'.end - fileComp'.size > 0)
  BY <1>1, <1>4 DEF Uncounted
<1>8. file'.size = file'.end BY <1>3, <1>5, <1>6, <1>7
<1>9. fileComp'.size = fileComp'.end BY <1>3, <1>5, <1>6, <1>7
<1> QED BY <1>2, <1>8, <1>9

\* What is written to the active file.
LEMMA WritesInv ==
  ASSUME RestartInv, AtWork, Shape', UNCHANGED <<lifeVars, dirVars, born>>, calls' \in 0 .. MaxCalls,
         NEW f, NEW idx, UpdateActive(f, idx), Changes(Copied, ActiveFile, ActiveIndex, f, idx)
  PROVE  RestartInv'
<1>1. /\ name' = name /\ nameComp' = nameComp /\ left' = left /\ born' = born
      /\ isActiveComp' = isActiveComp
  BY DEF dirVars, UpdateActive
<1>2. /\ file \in File /\ index \in Index /\ fileComp \in File /\ indexComp \in Index
      /\ name \in Names /\ name # nameComp /\ nameComp \in Names \cup {None} /\ born \in Nat
      /\ isActiveComp <=> nameComp # None
      /\ Kept(left) /\ \A l \in left : l.name # name /\ l.name # nameComp
      /\ Consistent(Complete, file, index) /\ Consistent(TRUE, fileComp, indexComp)
      /\ Lives(index, upSince) /\ Lives(indexComp, upSince)
      /\ Complete \in BOOLEAN /\ born <= file.end
  BY WorkingFacts DEF Directory, RestartTypeOK, Healing
<1>3. CASE ~isActiveComp
  <2>1. /\ file' = f /\ index' = idx /\ UNCHANGED <<fileComp, indexComp>>
        /\ Changes({}, file, index, f, idx)
    BY <1>3 DEF UpdateActive, Copied, ActiveFile, ActiveIndex
  <2>2. Measured({}) BY DEF Measured
  <2>3. f \in File /\ idx \in Index /\ Consistent(Complete, f, idx)
    BY <1>2, <2>1, <2>2, ChangesConsistent
  <2>4. file.end <= f.end BY <1>2, <2>1, <2>2, ChangesGrow
  <2>5. born <= f.end BY <1>2, <2>3, <2>4, FileTypes
  <2>6. Lives(idx, upSince)
    <3>1. \A e \in {} : e.exp <= upSince + ReloadFor \/ \E x \in Expirations : e.exp <= x OBVIOUS
    <3> QED BY <1>2, <2>1, <3>1, ChangesLives
  <2>7. ASSUME ~cut'
        PROVE  file'.size = file'.end /\ fileComp'.size = fileComp'.end /\ Mended(born, f, idx)
    <3>1. Inside(f, idx) /\ Inside(fileComp, indexComp) BY <1>2, <2>3 DEF Consistent
    <3>2. file'.size = file'.end /\ fileComp'.size = fileComp'.end /\ Mended(born, file, index)
      BY <1>2, <2>1, <2>3, <2>7, <3>1, NothingEscapes
    <3>3. Consistent(FALSE, file, index) BY <1>2, Zenon DEF Consistent
    <3>4. f.size = f.end BY <2>1, <3>2
    <3> QED BY <1>2, <2>1, <3>2, <3>3, <3>4, ChangesMended
  <2> QED BY <1>1, <1>2, <2>1, <2>3, <2>5, <2>6, <2>7, WorkInv
<1>4. CASE isActiveComp
  <2>1. /\ fileComp' = f /\ indexComp' = idx /\ UNCHANGED <<file, index>>
        /\ Changes(Entries(index), fileComp, indexComp, f, idx)
    BY <1>4 DEF UpdateActive, Copied, ActiveFile, ActiveIndex
  <2>2. Measured(Entries(index))
    <3>1. \A k \in Indexed(index) : index[k] \in Entry /\ \E v \in Values : index[k].len = RecSize[v]
      BY <1>2 DEF Consistent, Inside, Indexed, Index
    <3> QED BY <3>1 DEF Measured, Entries
  <2>3. TRUE \in BOOLEAN OBVIOUS
  <2>4. f \in File /\ idx \in Index /\ Consistent(TRUE, f, idx)
    BY <1>2, <2>1, <2>2, <2>3, ChangesConsistent
  <2>5. Lives(idx, upSince)
    <3>1. \A e \in Entries(index) : e.exp <= upSince + ReloadFor \/ \E x \in Expirations : e.exp <= x
      BY <1>2 DEF Lives, Entries
    <3> QED BY <1>2, <2>1, <3>1, ChangesLives
  <2>6. ASSUME ~cut'
        PROVE  file'.size = file'.end /\ fileComp'.size = fileComp'.end /\ Mended(born, file, index)
    <3>1. Inside(file, index) /\ Inside(f, idx) BY <1>2, <2>4 DEF Consistent
    <3> QED BY <1>2, <2>1, <2>4, <2>6, <3>1, NothingEscapes
  <2> QED BY <1>1, <1>2, <2>1, <2>4, <2>5, <2>6, WorkInv
<1> QED BY <1>3, <1>4

\* The steps of the running shard are FileShard's ...
LEMMA WorksNext == Works => Next
<1>1. ASSUME NEW n \in Names, NamedCompactBegin(n) PROVE Next
  BY <1>1 DEF NamedCompactBegin, Next, Serving, Compactor
<1>2. ASSUME NamedCompactBeginFails \/ NamedCompactEnd \/ NamedRollback PROVE Next
  BY <1>2 DEF NamedCompactBeginFails, NamedCompactEnd, NamedRollback, Next, Serving, Compactor
<1>3. CallerWrites => Next BY DEF CallerWrites, Next, Serving
<1>4. OtherStep => Next BY DEF OtherStep, Next, Serving
<1> QED BY <1>1, <1>2, <1>3, <1>4 DEF Works

\* ... and keep what is proved of it.
LEMMA WorksShape == RestartInv /\ Works => Shape'
<1> SUFFICES ASSUME RestartInv, Works PROVE Shape' OBVIOUS
<1>1. Shape BY WorkingFacts DEF Works
<1> QED BY <1>1, WorksNext, NextShape

\* A file is left behind: one of the process's own, or one whose name nobody has.
LEMMA LeavesBehind ==
  ASSUME RestartInv, AtWork, NEW n \in Names, NEW f \in File, NEW idx \in Index, NEW c \in BOOLEAN,
         Consistent(c, f, idx), wasWhole /\ ~ctxDone => c, \A l \in left : l.name # n
  PROVE  /\ Kept(left \cup {Leftover(n, f, idx)})
         /\ \A l \in left \cup {Leftover(n, f, idx)} : l.name = n \/ l \in left
<1> DEFINE l == Leftover(n, f, idx)
<1>1. /\ l \in [name : Names, file : File, was : Holds]
      /\ l.name = n /\ Disjoint(l.file) /\ Remembered(l.file, l.was)
  BY LeftoverKept
<1> HIDE DEF l
<1>2. Kept(left) BY WorkingFacts
<1>3. Kept(left \cup {l}) BY <1>1, <1>2, KeptMore
<1> QED BY <1>1, <1>3 DEF l

\* A new file gets a name of its own.
LEMMA CompactBeginInv ==
  ASSUME RestartInv, AtWork, Shape', NEW n \in Names, NamedCompactBegin(n)
  PROVE  RestartInv'
<1>1. /\ fileComp' = EmptyFile /\ indexComp' = EmptyIndex /\ isActiveComp' = TRUE
      /\ UNCHANGED <<file, index, name, left, born, calls, lifeVars>> /\ nameComp' = n /\ Unused(n)
  BY DEF NamedCompactBegin, CompactBegin
<1>2. n # None /\ n # name /\ \A l \in left : l.name # n BY <1>1, RestartAssumption DEF Unused, UsedNames
<1>3. EmptyFile \in File /\ Consistent(TRUE, EmptyFile, EmptyIndex) BY EmptyConsistent
<1>4. Lives(EmptyIndex, upSince) BY DEF Lives, Indexed, EmptyIndex
<1>5. calls \in 0 .. MaxCalls /\ born <= file.end BY WorkingFacts DEF RestartTypeOK, Healing
<1>6. ASSUME ~cut'
      PROVE  file'.size = file'.end /\ fileComp'.size = fileComp'.end /\ Mended(born, file, index)
  <2>1. Inside(file, index) /\ Inside(EmptyFile, EmptyIndex)
    BY <1>3, WorkingFacts DEF Consistent
  <2> QED BY <1>1, <1>3, <1>6, <2>1, WorkingFacts, NothingEscapes
<1> QED BY <1>1, <1>2, <1>3, <1>4, <1>5, <1>6, WorkingFacts, WorkInv

\* The new file may be there although it could not be opened.
LEMMA CompactBeginFailsInv ==
  ASSUME RestartInv, AtWork, Shape', NamedCompactBeginFails
  PROVE  RestartInv'
<1>1. UNCHANGED <<file, fileComp, index, indexComp, isActiveComp, name, nameComp, born, calls, lifeVars>>
  BY DEF NamedCompactBeginFails, CompactBeginFails, diskVars, mapVars
<1>2. Kept(left') /\ \A l \in left' : l.name # name /\ l.name # nameComp
  <2>1. CASE UNCHANGED left BY <2>1, WorkingFacts
  <2>2. ASSUME NEW n \in Names, Unused(n), left' = left \cup {Leftover(n, EmptyFile, EmptyIndex)}
        PROVE  Kept(left') /\ \A l \in left' : l.name # name /\ l.name # nameComp
    <3>1. n # name /\ n # nameComp /\ \A l \in left : l.name # n BY <2>2 DEF Unused, UsedNames
    <3>2. /\ EmptyFile \in File /\ EmptyIndex \in Index /\ TRUE \in BOOLEAN
          /\ Consistent(TRUE, EmptyFile, EmptyIndex)
      BY EmptyConsistent
    <3>3. /\ Kept(left') /\ \A l \in left' : l.name = n \/ l \in left
      BY <2>2, <3>1, <3>2, LeavesBehind
    <3> QED BY <3>1, <3>3, WorkingFacts
  <2> QED BY <2>1, <2>2 DEF NamedCompactBeginFails
<1>3. /\ calls \in 0 .. MaxCalls /\ born <= file.end /\ nameComp \in Names \cup {None}
      /\ isActiveComp <=> nameComp # None
  BY WorkingFacts DEF Directory, RestartTypeOK, Healing
<1>4. ASSUME ~cut'
      PROVE  file'.size = file'.end /\ fileComp'.size = fileComp'.end /\ Mended(born, file, index)
  <2>1. Inside(file, index) /\ Inside(fileComp, indexComp) BY WorkingFacts DEF Consistent
  <2> QED BY <1>1, <1>4, <2>1, WorkingFacts, NothingEscapes
<1> QED BY <1>1, <1>2, <1>3, <1>4, WorkingFacts, WorkInv

\* The new file takes the place of the old, which stays behind if it cannot be removed.
LEMMA CompactEndInv ==
  ASSUME RestartInv, AtWork, Shape', NamedCompactEnd
  PROVE  RestartInv'
<1>1. /\ file' = fileComp /\ fileComp' = EmptyFile /\ index' = indexComp /\ indexComp' = EmptyIndex
      /\ isActiveComp' = FALSE /\ name' = nameComp /\ nameComp' = None /\ born' = fileComp.end
      /\ UNCHANGED <<calls, lifeVars>> /\ compactor = "copy"
  BY DEF NamedCompactEnd, CompactEnd
<1>2. isActiveComp /\ nameComp \in Names /\ nameComp # None /\ None \notin Names
  BY <1>1, WorkingFacts, RestartAssumption DEF Shape, Directory, RestartTypeOK
<1>3. Kept(left') /\ \A l \in left' : l.name # nameComp /\ l.name # None
  <2>1. \A l \in left : l.name # None BY <1>2, WorkingFacts DEF Kept
  <2>2. CASE UNCHANGED left BY <2>1, <2>2, WorkingFacts
  <2>3. CASE left' = left \cup {Leftover(name, file, index)}
    <3>1. Kept(left') /\ \A l \in left' : l.name = name \/ l \in left
      BY <2>3, WorkingFacts, LeavesBehind
    <3> QED BY <1>2, <2>1, <3>1, WorkingFacts
  <2> QED BY <2>2, <2>3 DEF NamedCompactEnd
<1>4. Consistent(Complete, fileComp, indexComp) BY WorkingFacts DEF Consistent
<1>5. Consistent(TRUE, EmptyFile, EmptyIndex) /\ EmptyFile \in File BY EmptyConsistent
<1>6. Lives(EmptyIndex, upSince) BY DEF Lives, Indexed, EmptyIndex
<1>7. calls \in 0 .. MaxCalls BY WorkingFacts DEF RestartTypeOK
<1>8. fileComp.end \in Nat /\ fileComp.end <= fileComp.end BY WorkingFacts, FileTypes
<1>9. Mended(fileComp.end, fileComp, indexComp)
  <2>1. Disjoint(fileComp) /\ Inside(fileComp, indexComp) BY WorkingFacts DEF Consistent
  <2> QED BY <2>1, WorkingFacts, NothingBehind
<1>10. ASSUME ~cut' PROVE file'.size = file'.end /\ fileComp'.size = fileComp'.end
  <2>1. Inside(fileComp, indexComp) /\ Inside(EmptyFile, EmptyIndex)
    BY <1>5, WorkingFacts DEF Consistent
  <2> QED BY <1>1, <1>5, <1>10, <2>1, WorkingFacts, NothingEscapes
<1> QED BY <1>1, <1>2, <1>3, <1>4, <1>5, <1>6, <1>7, <1>8, <1>9, <1>10, WorkingFacts, WorkInv

\* The compaction's file is given up, and stays behind if it cannot be removed.
LEMMA RollbackInv ==
  ASSUME RestartInv, AtWork, Shape', NamedRollback
  PROVE  RestartInv'
<1>1. /\ fileComp' = EmptyFile /\ indexComp' = EmptyIndex /\ isActiveComp' = FALSE
      /\ nameComp' = None /\ UNCHANGED <<file, index, name, born, calls, lifeVars>>
  BY DEF NamedRollback, RollbackCompact
<1>2. None \notin Names BY RestartAssumption
<1>3. Kept(left') /\ \A l \in left' : l.name # name /\ l.name # None
  <2>1. \A l \in left : l.name # None BY <1>2, WorkingFacts DEF Kept
  <2>2. CASE UNCHANGED left BY <2>1, <2>2, WorkingFacts
  <2>3. CASE nameComp # None /\ left' = left \cup {Leftover(nameComp, fileComp, indexComp)}
    <3>1. nameComp \in Names /\ TRUE \in BOOLEAN BY <2>3, WorkingFacts DEF RestartTypeOK
    <3>2. Kept(left') /\ \A l \in left' : l.name = nameComp \/ l \in left
      BY <2>3, <3>1, WorkingFacts, LeavesBehind
    <3> QED BY <2>1, <2>3, <3>2, WorkingFacts
  <2> QED BY <2>2, <2>3 DEF NamedRollback
<1>4. Consistent(TRUE, EmptyFile, EmptyIndex) /\ EmptyFile \in File BY EmptyConsistent
<1>5. Lives(EmptyIndex, upSince) BY DEF Lives, Indexed, EmptyIndex
<1>6. calls \in 0 .. MaxCalls /\ born <= file.end BY WorkingFacts DEF RestartTypeOK, Healing
<1>7. ASSUME ~cut'
      PROVE  file'.size = file'.end /\ fileComp'.size = fileComp'.end /\ Mended(born, file, index)
  <2>1. Inside(file, index) /\ Inside(EmptyFile, EmptyIndex) BY <1>4, WorkingFacts DEF Consistent
  <2> QED BY <1>1, <1>4, <1>7, <2>1, WorkingFacts, NothingEscapes
<1>8. name # None BY <1>2, WorkingFacts
<1> QED BY <1>1, <1>3, <1>4, <1>5, <1>6, <1>7, <1>8, WorkingFacts, WorkInv

\* Callers, both goroutines and every end of a compaction.
LEMMA WorksInv == RestartInv /\ Works => RestartInv'
<1> SUFFICES ASSUME RestartInv, Works PROVE RestartInv' OBVIOUS
<1>1. AtWork /\ Shape' BY WorksShape DEF Works
<1>2. CASE CallerWrites \/ OtherStep
  <2>1. calls' \in 0 .. MaxCalls
    <3>1. calls \in 0 .. MaxCalls BY <1>1, WorkingFacts DEF RestartTypeOK
    <3> QED BY <1>2, <3>1, RestartAssumption DEF CallerWrites, OtherStep
  <2>2. UNCHANGED <<lifeVars, dirVars, born>> BY <1>1, <1>2, WorkingFacts, WritesActive
  <2>3. PICK f, idx : UpdateActive(f, idx) /\ Changes(Copied, ActiveFile, ActiveIndex, f, idx)
    BY <1>1, <1>2, WorkingFacts, WritesActive
  <2> QED BY <1>1, <2>1, <2>2, <2>3, WritesInv
<1> QED BY <1>1, <1>2, CompactBeginInv, CompactBeginFailsInv, CompactEndInv, RollbackInv DEF Works

\* A step that changes nothing.
LEMMA StutterInv == RestartInv /\ UNCHANGED allVars => RestartInv'
<1> SUFFICES ASSUME RestartInv, UNCHANGED allVars PROVE RestartInv' OBVIOUS
<1>1. /\ UNCHANGED vars
      /\ UNCHANGED <<file, fileComp, index, indexComp, isActiveComp, compactor, deleter, leakedRLock,
                     now, ctxDone>>
      /\ UNCHANGED <<phase, name, nameComp, left, pos, starts, calls, upSince, born, wasWhole, was, cut>>
  BY DEF allVars, dirVars, histVars, vars, diskVars, mapVars, compVars, delVars, lifeVars
<1>2. Shape' /\ TypeOK' BY <1>1, StutterShape DEF RestartInv, Directory, Shape
<1>3. RestartTypeOK' BY <1>1, <1>2 DEF RestartInv, Directory, RestartTypeOK
<1>4. Directory' BY <1>1, <1>2, <1>3 DEF RestartInv, Directory
<1>5. Files' /\ LoadSound' /\ Lifetimes' /\ Healing'
  BY <1>1 DEF RestartInv, Files, Complete, LoadSound, Lifetimes, Healing
<1> QED BY <1>4, <1>5 DEF RestartInv

\* The induction step.
LEMMA NextInv == RestartInv /\ [RestartNext]_allVars => RestartInv'
BY StartInv, LoadInv, WorksInv, CrashInv, StutterInv DEF RestartNext

-----------------------------------------------------------------------------
(* What a start gives back *)

\* A start is complete only if the loop has come to the end of the file.
LEMMA CompletesByEnding ==
  ASSUME RestartInv, [RestartNext]_allVars, LoadCompletes
  PROVE  LoadEnds
<1>1. phase = "loading" /\ phase' = "up" /\ ~ctxDone' BY DEF LoadCompletes
<1>2. ~Start BY <1>1 DEF Start, StartFromFile, StartAnew, NewFileShard
<1>3. ~Works BY <1>1 DEF Works, AtWork
<1>4. ~Crash /\ ~UNCHANGED allVars BY <1>1 DEF Crash, allVars
<1>5. ~LoadRecord /\ ~LoadGarbage /\ ~LoadCancelled
  BY <1>1 DEF LoadRecord, LoadGarbage, LoadCancelled
<1> QED BY <1>2, <1>3, <1>4, <1>5 DEF RestartNext, Load

\* A key whose entry is right is read as the file was when a process last let go of it; in
\* a file with at most a tail all entries are but one, and in one of whole records all.
LEMMA GivesBack ==
  ASSUME RestartInv, LoadEnds, Tidy(file), was # None
  PROVE  /\ Whole(file) => \A k \in Keys : Exact(file, index, k, file.end)
         /\ \A j, k \in Keys :
              ~Exact(file, index, j, file.end) /\ ~Exact(file, index, k, file.end) => j = k
         /\ \A k \in Keys : Exact(file, index, k, file.end) => Visible'[k] = was[k]
<1>1. Loading /\ (pos >= file.end \/ \A r \in file.recs : r.off # pos)
      /\ file' = file /\ index' = index /\ isActiveComp' = isActiveComp
  BY DEF LoadEnds, Loading, AtRecord
<1>2. /\ file \in File /\ index \in Index /\ pos \in Nat /\ Disjoint(file) /\ ~isActiveComp
      /\ ReadTo(file, index, pos) \/ ReadPast(file, index, pos)
      /\ Keeps(file, was)
  BY <1>1, LoadingFacts DEF LoadSound, Remembered
<1>3. /\ Whole(file) => \A k \in Keys : Exact(file, index, k, file.end)
      /\ \A j, k \in Keys :
           ~Exact(file, index, j, file.end) /\ ~Exact(file, index, k, file.end) => j = k
  BY <1>1, <1>2, ReadAll
<1>4. ASSUME NEW k \in Keys, Exact(file, index, k, file.end) PROVE Visible'[k] = was[k]
  <2>1. /\ index[k] = None => was[k] = None
        /\ index[k] # None => ReadAt(file, index[k]) # Garbage /\ ReadAt(file, index[k]).val = was[k]
    BY <1>2, <1>4, ExactReads
  <2>2. Visible'[k] = Get(k)' BY DEF Visible
  <2>3. Found(k)' = index[k] /\ FoundRecord(k)' = ReadAt(file, index[k])
    BY <1>1, <1>2 DEF Found, FoundRecord
  <2> QED BY <2>1, <2>2, <2>3 DEF Get
<1> QED BY <1>3, <1>4

\* RestoresItsFile, of one step.
LEMMA RestoresStep ==
  RestartInv /\ [RestartNext]_allVars =>
    [LoadCompletes /\ wasWhole /\ was # None => Visible' = was]_allVars
<1> SUFFICES ASSUME RestartInv, [RestartNext]_allVars, LoadCompletes, wasWhole, was # None
             PROVE  Visible' = was
  OBVIOUS
<1>1. LoadEnds /\ Loading BY CompletesByEnding DEF LoadEnds
<1>2. Whole(file) /\ Tidy(file) BY <1>1, LoadingFacts, WholeTidy DEF LoadSound
<1>3. \A k \in Keys : Visible'[k] = was[k] BY <1>1, <1>2, GivesBack
<1>4. was \in [Keys -> Values \cup {None}] BY <1>1, LoadingFacts DEF RestartTypeOK, Holds
<1>5. Visible' = [k \in Keys |-> Visible'[k]] BY DEF Visible
<1> QED BY <1>3, <1>4, <1>5

\* TornTailContained, of one step.
LEMMA ContainedStep ==
  RestartInv /\ [RestartNext]_allVars =>
    [LoadCompletes /\ TornTail(file) /\ was # None =>
       \A j, k \in Keys : Visible'[j] # was[j] /\ Visible'[k] # was[k] => j = k]_allVars
<1> SUFFICES ASSUME RestartInv, [RestartNext]_allVars, LoadCompletes, TornTail(file), was # None,
                    NEW j \in Keys, NEW k \in Keys, Visible'[j] # was[j], Visible'[k] # was[k]
             PROVE  j = k
  OBVIOUS
<1>1. LoadEnds /\ Loading BY CompletesByEnding DEF LoadEnds
<1>2. Tidy(file) BY <1>1, LoadingFacts, FileTypes DEF TornTail, Tidy
<1> QED BY <1>1, <1>2, GivesBack

-----------------------------------------------------------------------------
(* The running shard of every life *)

\* While a file is read its tears are known; then file and index fit each other as they do
\* in a shard that began with nothing, except that a start which was cancelled has not
\* indexed all that the file would restore.
Fitting ==
  /\ phase = "loading" => (torn <=> ~Whole(file))
  /\ phase = "up" => Content(~ctxDone)

\* What the index of a whole file has been read to be leads to records; at the end of the
\* file it has all that the file would restore.
LEMMA LoadedFits ==
  ASSUME NEW all \in BOOLEAN, NEW f \in File, Disjoint(f), Whole(f), f.size = f.end,
         NEW idx \in Index, NEW p \in Nat, ReadTo(f, idx, p) \/ ReadPast(f, idx, p),
         all => p >= f.end \/ \A r \in f.recs : r.off # p
  PROVE  Fits(all, f, idx)
<1>1. LaidOut(f) BY OffsetUnique DEF LaidOut, Disjoint
<1>2. \A k \in Keys : Exact(f, idx, k, p) BY DEF ReadTo, ReadPast
<1>3. Points(f, idx) BY <1>2 DEF Points, Exact, Indexed
<1>4. ASSUME all, NEW r \in f.recs, IsLast(r, f), ~r.del
      PROVE  idx[r.key] # None /\ idx[r.key].off = r.off
  <2>1. r.key \in Keys /\ Exact(f, idx, r.key, f.end)
    BY <1>4, ReadAll, WholeTidy, FileTypes
  <2>2. \A s \in f.recs : LastBefore(s, f, f.end) <=> IsLast(s, f) BY BelowEnd, LastIsLast
  <2>3. idx[r.key] # None BY <1>4, <2>1, <2>2 DEF Exact
  <2>4. PICK s \in f.recs : IsLast(s, f) /\ IsRecordOf(s, r.key, idx[r.key])
    BY <2>1, <2>2, <2>3 DEF Exact
  <2>5. s.off = r.off BY <1>4, <2>4, FileTypes DEF IsLast, IsRecordOf
  <2> QED BY <2>3, <2>4, <2>5 DEF IsRecordOf
<1> QED BY <1>1, <1>3, <1>4 DEF Fits, Restores

\* The shard begins to run, after the last round or when it is cancelled.
LEMMA LoadedFitting ==
  ASSUME RestartInv, Fitting, LoadEnds \/ LoadCancelled
  PROVE  Fitting'
<1>1. /\ Loading /\ UNCHANGED <<file, fileComp, torn, index, indexComp>>
      /\ UNCHANGED <<compactor, snapshot, carried, leakedRLock>>
      /\ phase' = "up" /\ ctxDone' \in BOOLEAN
      /\ ~ctxDone' => pos >= file.end \/ \A r \in file.recs : r.off # pos
  BY LoadingFacts DEF LoadEnds, LoadCancelled, Loading, compVars, AtRecord, TypeOK
<1>2. /\ file \in File /\ index \in Index /\ pos \in Nat /\ Disjoint(file) /\ file.size = file.end
      /\ fileComp = EmptyFile /\ indexComp = EmptyIndex /\ compactor = "idle" /\ ~leakedRLock
      /\ torn <=> ~Whole(file)
      /\ Tidy(file) => ReadTo(file, index, pos) \/ ReadPast(file, index, pos)
  BY <1>1, LoadingFacts DEF Fitting
<1>3. ASSUME ~torn PROVE Fits(~ctxDone', file, index)
  BY <1>1, <1>2, <1>3, LoadedFits, WholeTidy
<1>4. Fits(~ctxDone', fileComp, indexComp) BY <1>2, EmptyFits
<1>5. LeakNeedsTornWrite' /\ CarriedSound' BY <1>1, <1>2 DEF LeakNeedsTornWrite, CarriedSound
<1>6. Content(~ctxDone)' BY <1>1, <1>3, <1>4, <1>5 DEF Content
<1> QED BY <1>1, <1>6 DEF Fitting

\* The steps of a running shard keep its content; what a start opens is torn if it is not
\* made of whole records.
LEMMA NextFitting == RestartInv /\ Fitting /\ [RestartNext]_allVars => Fitting'
<1> SUFFICES ASSUME RestartInv, Fitting, [RestartNext]_allVars PROVE Fitting' OBVIOUS
<1>1. CASE Start
  <2>1. \A l \in left : l.name \in Names /\ l.file \in File
    BY DEF RestartInv, Directory, RestartTypeOK
  <2>2. PICK n \in Names, f \in File : \E held : NewFileShard(n, f, held)
    BY <1>1, <2>1, EmptyTypes DEF Start, StartFromFile, StartAnew
  <2>3. /\ file' = [f EXCEPT !.size = f.end] /\ torn' = ~Whole(f) /\ phase' = "loading"
        /\ file'.recs = f.recs /\ file'.end = f.end
    BY <2>2 DEF NewFileShard, File
  <2>4. Whole(file') <=> Whole(f) BY <2>3 DEF Whole, Covered
  <2> QED BY <2>3, <2>4 DEF Fitting
<1>2. CASE LoadRecord \/ LoadGarbage
  BY <1>2 DEF LoadRecord, LoadGarbage, Loading, Fitting
<1>3. CASE Works
  <2>1. AtWork /\ Shape /\ phase = "up" /\ phase' = "up" BY <1>3, WorkingFacts DEF Works, AtWork
  <2>2. ctxDone' = ctxDone
    <3>1. CASE CallerWrites \/ OtherStep BY <2>1, <3>1, WritesActive DEF lifeVars
    <3>2. ASSUME NEW n \in Names, NamedCompactBegin(n) PROVE ctxDone' = ctxDone
      BY <3>2 DEF NamedCompactBegin, CompactBegin, lifeVars
    <3>3. CASE NamedCompactBeginFails \/ NamedCompactEnd \/ NamedRollback
      BY <3>3 DEF NamedCompactBeginFails, NamedCompactEnd, NamedRollback,
                  CompactBeginFails, CompactEnd, RollbackCompact, lifeVars
    <3> QED BY <1>3, <3>1, <3>2, <3>3 DEF Works
  <2>3. PICK c : c = ~ctxDone OBVIOUS
  <2>4. Content(c) BY <2>1, <2>3 DEF Fitting
  <2>5. Content(c)' BY <1>3, <2>1, <2>4, WorksNext, NextContent
  <2>6. c = (~ctxDone)' BY <2>2, <2>3
  <2>7. Content(~ctxDone)' BY <2>5, <2>6
  <2> QED BY <2>1, <2>7 DEF Fitting
<1>4. CASE Crash BY <1>4 DEF Crash, Fitting
<1>5. CASE UNCHANGED allVars
  <2>1. /\ UNCHANGED <<file, fileComp, torn, index, indexComp, compactor, snapshot, carried, leakedRLock>>
        /\ UNCHANGED <<phase, ctxDone>>
    BY <1>5 DEF allVars, vars, diskVars, mapVars, compVars, lifeVars
  <2>2. phase = "up" => Content(~ctxDone)'
    BY <2>1 DEF Fitting, Content, CarriedSound, LeakNeedsTornWrite
  <2> QED BY <2>1, <2>2 DEF Fitting
<1> QED BY <1>1, <1>2, <1>3, <1>4, <1>5, LoadedFitting DEF RestartNext, Load

\* A tombstone is written behind what the entries point at: none of them reads otherwise.
LEMMA BuriedReads ==
  ASSUME NEW f \in File, NEW idx \in Index, Inside(f, idx), NEW k \in Keys, NEW j \in Keys,
         idx[j] # None
  PROVE  ReadAt(Buried(f, idx[k]), idx[j]) = ReadAt(f, idx[j])
<1> DEFINE g == Buried(f, idx[k])
           o == ReadAt(f, idx[k])
<1>1. j \in Indexed(idx) /\ idx[j].off < f.end /\ idx[j].off \in Nat /\ f.end \in Nat
  BY FileTypes DEF Inside, Indexed, Index, Entry
<1>2. \A r \in g.recs \ f.recs : r.off = f.end
  BY DEF Buried, Rewrite, Written
<1>3. f.recs \subseteq g.recs
  BY DEF Buried, Rewrite, Written
<1>4. RecordsAt(g, idx[j]) = RecordsAt(f, idx[j])
  BY <1>1, <1>2, <1>3 DEF RecordsAt
<1> QED BY <1>4 DEF ReadAt

\* FailedWriteInvisible, of one step. A start is no write: it has no reader yet.
LEMMA InvisibleStep ==
  RestartInv /\ [RestartNext]_allVars => [WriteFails => Visible' = Visible]_vars
<1> SUFFICES ASSUME RestartInv, [RestartNext]_allVars, WriteFails PROVE Visible' = Visible
  OBVIOUS
<1>1. /\ Shape /\ file \in File /\ fileComp \in File /\ index \in Index /\ indexComp \in Index
      /\ ActiveFile \in File /\ ActiveIndex \in Index
  BY IndexOf, ActiveType DEF RestartInv, Directory, Shape, TypeOK
<1>2. CASE UNCHANGED <<diskVars, mapVars>>
  <2>1. \A k \in Keys : Get(k)' = Get(k)
    BY <1>2 DEF Get, Found, FoundRecord, ReadAt, RecordsAt, diskVars, mapVars
  <2> QED BY <2>1 DEF Visible
<1>3. ASSUME NEW n \in FailBytes, FailActive(ActiveFile, n) PROVE Visible' = Visible
  BY <1>1, <1>3, FailActiveInvisible
<1>4. ASSUME NEW n \in FailBytes, NEW k \in Keys, FailActive(Buried(ActiveFile, ActiveIndex[k]), n)
      PROVE  Visible' = Visible
  <2>1. Inside(ActiveFile, ActiveIndex)
    BY DEF RestartInv, Files, Consistent, ActiveFile, ActiveIndex
  <2>2. Buried(ActiveFile, ActiveIndex[k]) \in File BY <1>1, BuriedType DEF Index
  <2>3. \A j \in Keys : ActiveIndex[j] # None =>
          ReadAt(Buried(ActiveFile, ActiveIndex[k]), ActiveIndex[j]) = ReadAt(ActiveFile, ActiveIndex[j])
    BY <1>1, <2>1, BuriedReads
  <2> QED BY <1>1, <1>4, <2>2, <2>3, FailActiveInvisible
<1> QED BY <1>1, <1>2, <1>3, <1>4, FailingWrite

-----------------------------------------------------------------------------
(* Theorems *)

\* The invariant holds through every start, write, compaction, crash and restart.
THEOREM RestartInvariance == RestartSpec => []RestartInv
<1>1. RestartInit => RestartInv BY InitInv
<1>2. RestartInv /\ [RestartNext]_allVars => RestartInv' BY NextInv
<1> QED BY <1>1, <1>2, PTL DEF RestartSpec

\* Type correctness of the shard and of its directory: among others, that no two files have
\* one name, and that none of those left behind is a file the process has open.
THEOREM RestartTypeCorrect == RestartSpec => []RestartTypeOK
<1>1. RestartInv => RestartTypeOK BY DEF RestartInv, Directory
<1> QED BY <1>1, RestartInvariance, PTL

\* However often it is started anew, written over or compacted: no record outlives both the
\* lifetimes callers ask for and the one the latest start gave it.
THEOREM LifetimesBounded == RestartSpec => []LifetimeBound
<1>1. RestartInv => LifetimeBound BY DEF RestartInv, Lifetimes, Lives, LifetimeBound, ActiveIndex
<1> QED BY <1>1, RestartInvariance, PTL

\* A start makes up for the tears of the processes before it: what this process appends is
\* where its index says, and all of it is indexed, as long as it tears no file itself.
THEOREM RestartHeals == RestartSpec => []HealedByRestart
<1>1. RestartInv => HealedByRestart BY DEF RestartInv, Healing, Mended, HealedByRestart
<1> QED BY <1>1, RestartInvariance, PTL

\* A file of whole records gives back what it held when a process last let go of it, after
\* every history of writes, deletions, expiry, compactions and crashes.
THEOREM FilesRestored == RestartSpec => RestoresItsFile
<1>1. RestartInv /\ [RestartNext]_allVars =>
        [LoadCompletes /\ wasWhole /\ was # None => Visible' = was]_allVars
  BY RestoresStep
<1> QED BY <1>1, RestartInvariance, PTL DEF RestartSpec, RestoresItsFile

\* A write that was cut short at the end of the file costs at most one key its value.
THEOREM TornTailsContained == RestartSpec => TornTailContained
<1>1. RestartInv /\ [RestartNext]_allVars =>
        [LoadCompletes /\ TornTail(file) /\ was # None =>
           \A j, k \in Keys : Visible'[j] # was[j] /\ Visible'[k] # was[k] => j = k]_allVars
  BY ContainedStep
<1> QED BY <1>1, RestartInvariance, PTL DEF RestartSpec, TornTailContained

\* The shard of every life has, beside the invariant of Restart, that of FileShard.
THEOREM FittingInvariance == RestartSpec => [](RestartInv /\ Fitting)
<1>1. RestartInit => Fitting BY DEF RestartInit, Fitting
<1>2. RestartInv /\ Fitting /\ [RestartNext]_allVars => Fitting' BY NextFitting
<1> QED BY <1>1, <1>2, RestartInvariance, PTL DEF RestartSpec

\* In every life, on files that other lives have written, an index entry points at the live
\* record of its key, and a restart would bring back nothing that is not indexed, as long as
\* the file has no torn bytes and the start was not cancelled.
THEOREM SoundAfterRestart ==
  RestartSpec => [](phase = "up" => IndexSound /\ (~ctxDone => NoResurrection))
<1>1. Fitting => (phase = "up" => IndexSound /\ (~ctxDone => NoResurrection))
  BY DEF Fitting, Content, Fits, IndexSound, NoResurrection
<1> QED BY <1>1, FittingInvariance, PTL

\* In every life the read lock is leaked only when bytes of a failed write, of this process
\* or of one before it, are in a file.
THEOREM NoLeakInAnyLife == RestartSpec => []LeakNeedsTornWrite
<1>1. RestartInv /\ Fitting => LeakNeedsTornWrite
  BY DEF RestartInv, Directory, Fitting, Content, LeakNeedsTornWrite
<1> QED BY <1>1, FittingInvariance, PTL

\* In every life, on files with whatever bytes of failed writes, and with entries that point
\* anywhere in them: a write that fails changes nothing that a reader sees.
THEOREM FailedWritesInvisible == RestartSpec => FailedWriteInvisible
<1>1. RestartInv /\ [RestartNext]_allVars => [WriteFails => Visible' = Visible]_vars
  BY InvisibleStep
<1> QED BY <1>1, RestartInvariance, PTL DEF RestartSpec, FailedWriteInvisible
=============================================================================
