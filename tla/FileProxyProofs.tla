---------------------------- MODULE FileProxyProofs ----------------------------
(***************************************************************************)
(* Proofs about FileProxy: what the flights of Flights and a file shard    *)
(* make of each other.  The shard's own invariant is that of               *)
(* FileShardProofs, the flights' that of FlightsProofs; the rest of the    *)
(* inductive invariant, Inv, relates the two.                              *)
(***************************************************************************)
EXTENDS FileProxy, FileShardProofs, FiniteSetTheorems

F == INSTANCE FlightsProofs

-----------------------------------------------------------------------------
(* The inductive invariant *)

\* Nobody compacts, and what has been written is a response.
Plain == ~isActiveComp /\ \A r \in file.recs : r.val \in Response

\* Client c leads a flight, and it is for k.
For(c, k) == flight[c] # None /\ key[c] = k

\* What a flight did not find, nobody stores before it does.
First ==
  \A c \in Clients, k \in Keys :
    For(c, k) /\ flight[c].at \in {"fetch", "set"} => index[k] = None

\* The room the live records take, as a set: one element for a unit of length.
Live(idx) == UNION {{k} \X (1 .. idx[k].len) : k \in Indexed(idx)}

\* The file has room for the live records, and within twice the limit for their tombstones.
Room ==
  /\ IsFiniteSet(Live(index))
  /\ Cardinality(Live(index)) <= file.size
  /\ file.size + Cardinality(Live(index)) <= 2 * MaxSize

\* Nobody is asked to have got more than was answered, and a flight that could not read its
\* key has let it fall behind.
Floors ==
  /\ \A c \in Clients : floor[c] <= served[key[c]]
  /\ \A c \in Clients, k \in Keys : For(c, k) /\ flight[c].at = "refetch" => k \in behind

\* The version the file holds for k.
Held(k) == ReadAt(file, index[k]).val.version

\* Nobody has been answered what the origin did not have yet ...
Origins ==
  /\ \A k \in Keys : served[k] <= origin[k]
  /\ \A k \in Keys : index[k] # None => Held(k) <= origin[k]
  /\ \A c \in Clients, k \in Keys : For(c, k) /\ flight[c].resp \in Response =>
       flight[c].resp.version <= origin[k]

\* ... and neither the file, for a key that is not behind, nor a flight for it falls behind
\* of what was answered, or is going to be.
Fresh ==
  /\ \A k \in Keys \ behind : index[k] # None => served[k] <= Held(k)
  /\ \A c \in Clients, k \in Keys : For(c, k) /\ flight[c].resp \in Response =>
       /\ flight[c].at = "set" => served[k] <= flight[c].resp.version
       /\ flight[c].at = "return" /\ k \notin behind =>
            /\ served[k] <= flight[c].resp.version
            /\ index[k] # None => flight[c].resp.version <= Held(k)

\* How the flights and the file fit.
Related == First /\ Floors /\ (~torn => Origins /\ Fresh)

Inv == Shape /\ Content(TRUE) /\ F!Sound /\ FlightTypeOK /\ Plain /\ Room /\ Related

-----------------------------------------------------------------------------
\* The flights of this module are those that FlightsProofs speaks of.
LEMMA SameFlights ==
  /\ FlightAssumption = F!FlightAssumption /\ FlightTypeOK = F!FlightTypeOK
  /\ Around = F!Around
  /\ \A c \in Clients : /\ FliesOutside(c) = F!FliesOutside(c)
                        /\ FlightSets(c) = F!FlightSets(c)
                        /\ FlightGetFails(c) = F!FlightGetFails(c)
                        /\ FlightReturns(c) = F!FlightReturns(c)
  /\ \A c \in Clients : \A data : FlightGets(c, data) = F!FlightGets(c, data)
  /\ \A c \in Clients : \A at, resp : Proceeds(c, at, resp) = F!Proceeds(c, at, resp)
  /\ \A c \in Clients : \A k \in Keys : Ask(c, k) = F!Ask(c, k)
  /\ \A resp, timeDel : Kept(resp, timeDel) = F!Kept(resp, timeDel)
  /\ Response = F!Response /\ Flight = F!Flight
PROOF
BY DEF FlightAssumption, F!FlightAssumption, FlightTypeOK, F!FlightTypeOK, Around, F!Around,
  FliesOutside, F!FliesOutside, FlightSets, F!FlightSets, FlightReturns, F!FlightReturns,
  FlightGets, F!FlightGets, FlightGetFails, F!FlightGetFails, Proceeds, F!Proceeds, Ask, F!Ask,
  Kept, F!Kept, MaxAges, F!MaxAges, Response, F!Response, Flight, F!Flight,
  Directive, F!Directive, Request, F!Request, OriginChanges, F!OriginChanges,
  FlightFetches, F!FlightFetches, FlightFetchFails, F!FlightFetchFails, InFlight, F!InFlight,
  Deliver, F!Deliver, NewFlight, F!NewFlight, clientVars, F!clientVars,
  ParceCacheControl, F!ParceCacheControl, LifeTime, F!LifeTime, Duration, F!Duration,
  Wrapped, F!Wrapped

LEMMA FlightsKept ==
  ASSUME FlightTypeOK, F!Sound PROVE F!FlightInv
PROOF BY SameFlights, FileProxyAssumption DEF F!FlightInv

\* What the proofs below know of the flights' values.
LEMMA FlightValues ==
  ASSUME FlightTypeOK
  PROVE  /\ \A resp \in Response : /\ resp # None /\ resp # Failed /\ resp # Garbage
                                   /\ resp \in Values /\ resp.version \in Int
         /\ \A k \in Keys : served[k] \in Int /\ origin[k] \in Int
         /\ \A c \in Clients : key[c] \in Keys /\ floor[c] \in Int
         /\ \A c \in Clients : flight[c] # None => flight[c].resp \in Response \cup {None, Failed}
         /\ None # Failed
PROOF
<1>1. \A resp \in Response : resp # None /\ resp # Failed /\ resp \in Values /\ resp.version \in Int
  BY FileProxyAssumption DEF FlightAssumption, Response
<1>2. Garbage \notin Response BY FileProxyAssumption, SentinelAssumption
<1>3. /\ \A k \in Keys : served[k] \in Int /\ origin[k] \in Int
      /\ \A c \in Clients : key[c] \in Keys /\ floor[c] \in Int
      /\ \A c \in Clients : flight[c] # None => flight[c].resp \in Response \cup {None, Failed}
  BY DEF FlightTypeOK, Flight
<1>4. None # Failed BY FileProxyAssumption DEF FlightAssumption
<1> QED BY <1>1, <1>2, <1>3, <1>4

\* ... and of the shard's.
LEMMA ShardValues ==
  ASSUME Shape, Plain, FlightTypeOK
  PROVE  /\ file \in File /\ index \in Index /\ torn \in BOOLEAN
         /\ ActiveFile = file /\ ActiveIndex = index
         /\ \A k \in Keys : Get(k) \in Response \cup {None, Garbage}
         /\ \A k \in Keys : Get(k) = None <=> index[k] = None
PROOF
<1>1. file \in File /\ index \in Index /\ torn \in BOOLEAN BY DEF Shape, TypeOK, Index
<1>2. ActiveFile = file /\ ActiveIndex = index BY DEF Plain, ActiveFile, ActiveIndex
<1>3. \A k \in Keys : Found(k) = index[k] /\ FoundRecord(k) = ReadAt(file, index[k])
  BY DEF Plain, Found, FoundRecord
<1>4. ASSUME NEW k \in Keys
      PROVE  Get(k) \in Response \cup {None, Garbage} /\ (Get(k) = None <=> index[k] = None)
  <2>1. ReadAt(file, index[k]) # Garbage => ReadAt(file, index[k]).val \in Response
    BY <1>1, ReadAtType DEF Plain
  <2>2. None # Garbage /\ None \notin Response BY FlightValues, SentinelAssumption
  <2> QED BY <1>3, <2>1, <2>2 DEF Get
<1> QED BY <1>1, <1>2, <1>4

\* Without bytes of failed writes, an indexed key can be read.
LEMMA ReadsResponse ==
  ASSUME Shape, Content(TRUE), Plain, FlightTypeOK, ~torn, NEW k \in Keys, index[k] # None
  PROVE  Get(k) \in Response /\ Get(k).version = Held(k) /\ Held(k) \in Int
PROOF
<1>1. file \in File /\ index \in Index /\ LaidOut(file) /\ Points(file, index)
  BY ShardValues DEF Content, Fits
<1>2. ReadAt(file, index[k]) \in file.recs /\ ReadAt(file, index[k]) # Garbage
  BY <1>1, ReadsEntry
<1>3. Found(k) = index[k] /\ FoundRecord(k) = ReadAt(file, index[k])
  BY DEF Plain, Found, FoundRecord
<1>4. Get(k) = ReadAt(file, index[k]).val BY <1>2, <1>3 DEF Get
<1>5. Get(k) \in Response BY <1>2, <1>4 DEF Plain
<1> QED BY <1>4, <1>5, FlightValues DEF Held

-----------------------------------------------------------------------------
(* Room: the sum of the lengths of the live records, as the size of a set *)

LEMMA CellsCount ==
  ASSUME NEW k, NEW n \in Nat
  PROVE  IsFiniteSet({k} \X (1 .. n)) /\ Cardinality({k} \X (1 .. n)) = n
PROOF
<1> DEFINE f == [i \in 1 .. n |-> <<k, i>>]
<1>1. f \in Bijection(1 .. n, {k} \X (1 .. n))
  <2>1. f \in [1 .. n -> {k} \X (1 .. n)] OBVIOUS
  <2>2. \A i, j \in 1 .. n : f[i] = f[j] => i = j OBVIOUS
  <2>3. \A p \in {k} \X (1 .. n) : \E i \in 1 .. n : f[i] = p OBVIOUS
  <2> HIDE DEF f
  <2> QED BY <2>1, <2>2, <2>3 DEF Bijection, Injection, Surjection, IsInjective
<1>2. ExistsBijection(1 .. n, {k} \X (1 .. n)) BY <1>1 DEF ExistsBijection
<1>3. IsFiniteSet(1 .. n) /\ Cardinality(1 .. n) = n BY FS_Interval
<1> QED BY <1>2, <1>3, FS_Bijection

\* An entry for a key without one takes its length.
LEMMA LiveAdds ==
  ASSUME NEW idx \in Index, IsFiniteSet(Live(idx)), NEW k \in Keys, idx[k] = None,
         NEW n \in Entry
  PROVE  /\ IsFiniteSet(Live([idx EXCEPT ![k] = n]))
         /\ Cardinality(Live([idx EXCEPT ![k] = n])) = Cardinality(Live(idx)) + n.len
PROOF
<1> DEFINE jdx == [idx EXCEPT ![k] = n]
           cells == {k} \X (1 .. n.len)
<1>1. jdx[k] = n /\ n # None /\ \A j \in Keys \ {k} : jdx[j] = idx[j]
  BY SentinelAssumption DEF Index
<1> HIDE DEF jdx
<1>2. Live(jdx) = Live(idx) \cup cells
  <2>1. ASSUME NEW p \in Live(jdx) PROVE p \in Live(idx) \cup cells
    <3>1. PICK j \in Keys : jdx[j] # None /\ p \in {j} \X (1 .. jdx[j].len)
      BY <2>1 DEF Live, Indexed
    <3>2. CASE j = k BY <1>1, <3>1, <3>2
    <3>3. CASE j # k BY <1>1, <3>1, <3>3 DEF Live, Indexed
    <3> QED BY <3>2, <3>3
  <2>2. ASSUME NEW p \in Live(idx) PROVE p \in Live(jdx)
    <3>1. PICK j \in Keys : idx[j] # None /\ p \in {j} \X (1 .. idx[j].len)
      BY <2>2 DEF Live, Indexed
    <3>2. jdx[j] = idx[j] BY <1>1, <3>1
    <3> QED BY <3>1, <3>2 DEF Live, Indexed
  <2>3. cells \subseteq Live(jdx) BY <1>1 DEF Live, Indexed
  <2> QED BY <2>1, <2>2, <2>3
<1>3. Live(idx) \cap cells = {}
  <2>1. ASSUME NEW p \in Live(idx), p \in cells PROVE FALSE
    <3>1. PICK j \in Keys : idx[j] # None /\ p \in {j} \X (1 .. idx[j].len)
      BY <2>1 DEF Live, Indexed
    <3>2. p[1] = j /\ p[1] = k BY <2>1, <3>1
    <3> QED BY <3>1, <3>2
  <2> QED BY <2>1
<1>4. n.len \in Nat BY DEF Entry
<1>5. IsFiniteSet(cells) /\ Cardinality(cells) = n.len BY <1>4, CellsCount
<1>6. Cardinality(Live(idx)) \in Nat BY FS_CardinalityType
<1>7. Cardinality({}) = 0 BY FS_EmptySet
<1> HIDE DEF cells
<1>8. /\ IsFiniteSet(Live(idx) \cup cells)
      /\ Cardinality(Live(idx) \cup cells) =
           Cardinality(Live(idx)) + Cardinality(cells) - Cardinality(Live(idx) \cap cells)
  BY <1>5, FS_Union
<1>9. Cardinality(Live(idx) \cap cells) = 0 BY <1>3, <1>7, Zenon
<1>10. IsFiniteSet(Live(jdx)) /\ Cardinality(Live(jdx)) = Cardinality(Live(idx)) + n.len
  <2>1. Cardinality(Live(idx) \cup cells) = Cardinality(Live(idx)) + n.len
    BY <1>4, <1>5, <1>6, <1>8, <1>9
  <2> QED BY <1>2, <1>8, <2>1, Zenon
<1> QED BY <1>10 DEF jdx

\* The removal of an entry gives its length back.
LEMMA LiveDrops ==
  ASSUME NEW idx \in Index, IsFiniteSet(Live(idx)), NEW k \in Keys, idx[k] # None
  PROVE  /\ IsFiniteSet(Live([idx EXCEPT ![k] = None]))
         /\ Cardinality(Live(idx)) = Cardinality(Live([idx EXCEPT ![k] = None])) + idx[k].len
PROOF
<1> DEFINE jdx == [idx EXCEPT ![k] = None]
<1>1. /\ jdx \in Index /\ jdx[k] = None /\ \A j \in Keys \ {k} : jdx[j] = idx[j]
      /\ idx[k] \in Entry
  BY DEF Index
<1>2. [jdx EXCEPT ![k] = idx[k]] = idx BY DEF Index
<1> HIDE DEF jdx
<1>3. Live(jdx) \subseteq Live(idx)
  <2>1. \A j \in Keys : jdx[j] # None => jdx[j] = idx[j] BY <1>1
  <2> QED BY <2>1 DEF Live, Indexed
<1>4. IsFiniteSet(Live(jdx)) BY <1>3, FS_Subset
<1>5. Cardinality(Live([jdx EXCEPT ![k] = idx[k]])) = Cardinality(Live(jdx)) + idx[k].len
  BY <1>1, <1>4, LiveAdds
<1> QED BY <1>2, <1>4, <1>5 DEF jdx

\* A tombstone is as long as its record, be the bytes that are read the record's or not.
LEMMA BuriedSize ==
  ASSUME NEW f \in File, NEW e \in Entry
  PROVE  Buried(f, e).size = f.size + e.len
PROOF
<1>1. e # None BY SentinelAssumption
<1>2. CASE ReadAt(f, e) = Garbage
  <2>1. Rewrite(f, ReadAt(f, e), e, TRUE) =
          [recs |-> f.recs, end |-> f.end + e.len, size |-> f.size + e.len]
    BY <1>2 DEF Rewrite, File
  <2>2. Buried(f, e) = Rewrite(f, ReadAt(f, e), e, TRUE) BY <1>1 DEF Buried
  <2>3. [recs |-> f.recs, end |-> f.end + e.len, size |-> f.size + e.len].size = f.size + e.len
    OBVIOUS
  <2> QED BY <2>1, <2>2, <2>3, Zenon
<1>3. CASE ReadAt(f, e) # Garbage
  <2>1. RecordsAt(f, e) # {} /\ ReadAt(f, e) \in RecordsAt(f, e) BY <1>3 DEF ReadAt
  <2>2. RecSize[ReadAt(f, e).val] = e.len BY <2>1 DEF RecordsAt
  <2> QED BY <1>1, <1>3, <2>2 DEF Buried, Rewrite, Written
<1> QED BY <1>2, <1>3

-----------------------------------------------------------------------------
(* What the steps do to the file *)

\* What a Set by way of a flight does: nothing, or one record, or a failed write.
SetDoes(k, resp) ==
  \/ UNCHANGED <<vars, behind>>
  \/ /\ file.size + RecSize[resp] <= MaxSize
     /\ UNCHANGED <<isActiveComp, now>>
     /\ \/ \E e \in Int :
             /\ file' = Written(file, k, resp, FALSE) /\ torn' = torn
             /\ index' = [index EXCEPT ![k] =
                            [off |-> file.size, exp |-> e, len |-> RecSize[resp]]]
             /\ behind' = behind \ {k}
        \/ \E n \in FailBytes :
             /\ file' = Tear(file, n) /\ torn' = (torn \/ n > 0)
             /\ UNCHANGED <<index, behind>>

LEMMA SetEffect ==
  ASSUME Shape, Content(TRUE), Plain, First, F!Sound, FlightTypeOK, NEW c \in Clients, SetsInFile(c)
  PROVE  /\ flight[c] # None /\ flight[c].at = "set" /\ flight[c].resp \in Response
         /\ index[key[c]] = None
         /\ Proceeds(c, "return", flight[c].resp)
         /\ SetDoes(key[c], flight[c].resp)
         /\ Shape' /\ Content(TRUE)'
PROOF
<1> DEFINE resp == flight[c].resp
           k == key[c]
<1>1. flight[c] # None /\ flight[c].at = "set" /\ Proceeds(c, "return", resp)
  BY DEF SetsInFile, FlightSets, InFlight
<1>2. resp \in Response /\ k \in Keys
  <2>1. F!FlightSound(c) BY <1>1 DEF F!Sound
  <2> QED BY <1>1, <2>1, SameFlights, FlightValues DEF F!FlightSound
<1>3. index[k] = None BY <1>1, <1>2 DEF First, For
<1>4. resp \in Values /\ file \in File /\ index \in Index /\ ActiveFile = file /\ ActiveIndex = index
  BY <1>2, FlightValues, ShardValues
<1>5. now \in Int /\ TimeDel \in Int BY FileProxyAssumption DEF Shape, TypeOK
<1>6. \/ UNCHANGED <<vars, behind>>
      \/ Kept(resp, TimeDel) # None /\ Stores(c, resp)
  BY DEF SetsInFile
<1> HIDE DEF resp, k
<1>7. CASE UNCHANGED <<vars, behind>>
  <2>1. Shape' BY <1>7, StutterShape
  <2>2. Content(TRUE)' BY <1>7, StutterContent DEF vars, diskVars, mapVars, compVars
  <2>3. SetDoes(k, resp) BY <1>7 DEF SetDoes
  <2> QED BY <1>1, <1>2, <1>3, <2>1, <2>2, <2>3 DEF resp, k
<1>8. CASE Kept(resp, TimeDel) # None /\ Stores(c, resp)
  <2>1. Kept(resp, TimeDel) \in Int
    BY <1>2, <1>5, <1>8, SameFlights, F!KeptBound, FileProxyAssumption
  <2>2. PICK e \in Int : e = now + Kept(resp, TimeDel) BY <1>5, <2>1
  <2>3. /\ Set(k, resp, e)
        /\ behind' = IF index'[k] # index[k] THEN behind \ {k} ELSE behind
    BY <1>8, <2>2 DEF Stores, k
  <2>4. Shape' /\ Content(TRUE)' BY <1>2, <1>4, <2>3, SetShape, SetContent
  <2>5. Buried(file, index[k]) = file BY <1>3 DEF Buried
  <2>6. /\ file.size + RecSize[resp] <= MaxSize
        /\ \/ SetWrites(k, resp, e)
           \/ \E n \in FailBytes : TombstoneFails(k, n) \/ SetFailsOnRecord(k, resp, n)
        /\ now' = now
    BY <1>4, <2>3 DEF Set, SetFails
  <2>7. ASSUME SetWrites(k, resp, e) PROVE SetDoes(k, resp)
    <3> DEFINE n == [off |-> file.size, exp |-> e, len |-> RecSize[resp]]
    <3>1. /\ file' = Written(file, k, resp, FALSE) /\ torn' = torn
          /\ index' = [index EXCEPT ![k] = n] /\ isActiveComp' = isActiveComp
      BY <1>4, <2>5, <2>7 DEF SetWrites, UpdateActive, Plain
    <3>2. n \in Entry BY <1>4, RecSizeAssumption DEF Entry, File
    <3>3. n # None BY <3>2, SentinelAssumption
    <3>4. index'[k] = n
      <4> HIDE DEF n
      <4> QED BY <1>2, <1>4, <3>1 DEF Index
    <3>5. behind' = behind \ {k}
      <4> HIDE DEF n
      <4> QED BY <1>3, <2>3, <3>3, <3>4
    <3> QED BY <2>6, <3>1, <3>5 DEF SetDoes
  <2>8. ASSUME NEW n \in FailBytes, TombstoneFails(k, n) \/ SetFailsOnRecord(k, resp, n)
        PROVE  SetDoes(k, resp)
    <3>1. SetFailsOnRecord(k, resp, n) BY <1>3, <1>4, <2>8 DEF TombstoneFails
    <3>2. FailActive(file, n) BY <1>4, <2>5, <3>1 DEF SetFailsOnRecord
    <3>3. /\ file' = Tear(file, n) /\ torn' = (torn \/ n > 0)
          /\ index' = index /\ isActiveComp' = isActiveComp
      BY <1>4, <3>2 DEF FailActive, UpdateActive, Plain
    <3>4. behind' = behind BY <2>3, <3>3
    <3> QED BY <2>6, <3>3, <3>4 DEF SetDoes
  <2>9. SetDoes(k, resp) BY <2>6, <2>7, <2>8
  <2> QED BY <1>1, <1>2, <1>3, <2>4, <2>9 DEF resp, k
<1> QED BY <1>6, <1>7, <1>8 DEF resp, k

\* What the goroutine that deletes expired records does: nothing, or one tombstone, or a
\* failed write.
DeleterDoes ==
  /\ UNCHANGED isActiveComp
  /\ \/ UNCHANGED <<file, index, torn>>
     \/ \E k \in Keys : /\ index[k] # None /\ torn' = torn
                        /\ file' = Buried(file, index[k])
                        /\ index' = [index EXCEPT ![k] = None]
     \/ \E n \in FailBytes : /\ file' = Tear(file, n) /\ torn' = (torn \/ n > 0)
                             /\ index' = index

LEMMA DeleterEffect ==
  ASSUME Shape, Content(TRUE), Plain, Deleter
  PROVE  DeleterDoes /\ Shape' /\ Content(TRUE)'
PROOF
<1>1. Shape' /\ Content(TRUE)' BY DeleterShape, DeleterContent
<1>2. CASE DeleteExpBegin \/ DeleteExpCancelled \/ DeleterBlocks \/ DeleterStops
  BY <1>1, <1>2 DEF DeleteExpBegin, DeleteExpCancelled, DeleterBlocks, DeleterStops, diskVars,
                    mapVars, DeleterDoes
<1>3. ASSUME NEW k \in Keys, DeleteExpSkips(k) PROVE DeleterDoes
  BY <1>3 DEF DeleteExpSkips, diskVars, mapVars, DeleterDoes
<1>4. ASSUME NEW k \in Keys, DeleteExpFails(k) PROVE DeleterDoes
  BY <1>4 DEF DeleteExpFails, mapVars, DeleterDoes
<1>5. ASSUME NEW k \in Keys, DeleteExpKey(k) PROVE DeleterDoes
  <2>1. /\ file' = Buried(file, index[k]) /\ index' = [index EXCEPT ![k] = None]
        /\ UNCHANGED <<torn, isActiveComp>>
    BY <1>5 DEF DeleteExpKey
  <2>2. CASE index[k] # None BY <2>1, <2>2 DEF DeleterDoes
  <2>3. CASE index[k] = None
    <3>1. file' = file /\ index' = index BY <2>1, <2>3 DEF Buried, Shape, TypeOK
    <3> QED BY <2>1, <3>1 DEF DeleterDoes
  <2> QED BY <2>2, <2>3
<1> QED BY <1>1, <1>2, <1>3, <1>4, <1>5 DEF Deleter

\* In a file that grows, what is still indexed is still held.
LEMMA HeldKept ==
  ASSUME Shape, Content(TRUE), Shape', Content(TRUE)', ~torn, ~torn', file.recs \subseteq file'.recs,
         NEW j \in Keys, index[j] # None, index'[j] = index[j]
  PROVE  Held(j)' = Held(j)
PROOF
<1>1. file \in File /\ file' \in File /\ index \in Index BY DEF Shape, TypeOK, Index
<1>2. LaidOut(file) /\ Points(file, index) BY DEF Content, Fits
<1>3. LaidOut(file') BY DEF Content, Fits, LaidOut
<1>4. ReadAt(file', index[j]) = ReadAt(file, index[j]) BY <1>1, <1>2, <1>3, GrowthKeepsReads
<1>5. Held(j)' = ReadAt(file', index'[j]).val.version BY DEF Held, ReadAt, RecordsAt
<1> QED BY <1>4, <1>5 DEF Held

\* A file with the same records and the same length counted.
LEMMA TornAway ==
  ASSUME Shape, Plain, Room, NEW n \in FailBytes, file' = Tear(file, n),
         torn' = (torn \/ n > 0), UNCHANGED <<index, isActiveComp>>
  PROVE  Plain' /\ Room' /\ (~torn' => ~torn) /\ file'.recs = file.recs
PROOF
<1>1. file'.recs = file.recs /\ file'.size = file.size BY DEF Tear, Shape, TypeOK, File
<1>2. ~torn' => ~torn BY Zenon
<1>3. Plain' BY <1>1 DEF Plain, Response
<1>4. Room' BY <1>1 DEF Room, Live, Indexed
<1> QED BY <1>1, <1>2, <1>3, <1>4

\* After a Set of a flight: its key is held with the new version, or still not at all.
LEMMA SetKeeps ==
  ASSUME Shape, Content(TRUE), Plain, Room, FlightTypeOK, Shape', Content(TRUE)',
         NEW k \in Keys, NEW resp \in Response, index[k] = None, SetDoes(k, resp)
  PROVE  /\ Plain' /\ Room' /\ (~torn' => ~torn)
         /\ \A j \in Keys \ {k} : /\ index'[j] = index[j] /\ (j \in behind' <=> j \in behind)
                                  /\ ~torn' /\ index[j] # None => Held(j)' = Held(j)
         /\ ~torn' /\ index'[k] # None => Held(k)' = resp.version
         /\ k \notin behind' => k \notin behind \/ index'[k] # None
PROOF
<1>1. file \in File /\ index \in Index /\ resp \in Values BY ShardValues, FlightValues
<1>2. CASE UNCHANGED <<vars, behind>>
  <2>1. UNCHANGED <<file, index, torn, isActiveComp, behind>>
    BY <1>2 DEF vars, diskVars, mapVars
  <2>2. Plain' /\ Room' BY <2>1 DEF Plain, Response, Room, Live, Indexed
  <2>3. \A j \in Keys : Held(j)' = Held(j) BY <2>1 DEF Held, ReadAt, RecordsAt
  <2> QED BY <2>1, <2>2, <2>3
<1>3. ASSUME NEW n \in FailBytes, file' = Tear(file, n), torn' = (torn \/ n > 0),
             UNCHANGED <<index, behind, isActiveComp>>
      PROVE  /\ Plain' /\ Room' /\ (~torn' => ~torn)
             /\ \A j \in Keys : ~torn' /\ index[j] # None => Held(j)' = Held(j)
  <2>1. Plain' /\ Room' /\ (~torn' => ~torn) /\ file'.recs = file.recs BY <1>3, TornAway
  <2>2. ASSUME NEW j \in Keys, ~torn', index[j] # None PROVE Held(j)' = Held(j)
    BY <1>3, <2>1, <2>2, HeldKept
  <2> QED BY <2>1, <2>2
<1>4. ASSUME NEW e \in Int, file.size + RecSize[resp] <= MaxSize,
             file' = Written(file, k, resp, FALSE), torn' = torn, UNCHANGED isActiveComp,
             index' = [index EXCEPT ![k] = [off |-> file.size, exp |-> e, len |-> RecSize[resp]]]
      PROVE  /\ Plain' /\ Room' /\ index'[k] # None
             /\ \A j \in Keys \ {k} : /\ index'[j] = index[j]
                                      /\ ~torn' /\ index[j] # None => Held(j)' = Held(j)
             /\ ~torn' => Held(k)' = resp.version
  <2> DEFINE n == [off |-> file.size, exp |-> e, len |-> RecSize[resp]]
             r == [off |-> file.end, key |-> k, val |-> resp, del |-> FALSE]
  <2>1. /\ file'.recs = file.recs \cup {r} /\ file'.size = file.size + RecSize[resp]
        /\ file.size \in Nat /\ RecSize[resp] \in Nat /\ MaxSize \in Nat
    BY <1>1, <1>4, RecSizeAssumption, BoundsAssumption DEF Written, File
  <2>2. n \in Entry /\ n # None /\ n.len = RecSize[resp] /\ n.off = file.size
    <3>1. n \in Entry BY <2>1 DEF Entry
    <3> QED BY <3>1, SentinelAssumption
  <2>3. r.val = resp /\ r.key = k /\ r.off = file.end /\ ~r.del OBVIOUS
  <2>4. Plain' BY <1>4, <2>1, <2>3 DEF Plain, Response
  <2> HIDE DEF n, r
  <2>5. index' = [index EXCEPT ![k] = n] BY <1>4 DEF n
  <2>6. index'[k] = n /\ \A j \in Keys \ {k} : index'[j] = index[j] BY <1>1, <2>5 DEF Index
  <2>7. Room'
    <3>1. IsFiniteSet(Live(index)) /\ Cardinality(Live(index)) \in Nat
      BY FS_CardinalityType DEF Room
    <3>2. /\ IsFiniteSet(Live(index'))
          /\ Cardinality(Live(index')) = Cardinality(Live(index)) + RecSize[resp]
      BY <1>1, <2>2, <2>5, <3>1, LiveAdds
    <3>3. /\ Cardinality(Live(index')) <= file'.size
          /\ file'.size + Cardinality(Live(index')) <= 2 * MaxSize
      <4>1. Cardinality(Live(index)) <= file.size BY DEF Room
      <4>2. file.size + RecSize[resp] <= MaxSize BY <1>4
      <4> QED BY <2>1, <3>1, <3>2, <4>1, <4>2
    <3>4. Live(index)' = Live(index') BY DEF Live, Indexed
    <3> QED BY <3>2, <3>3, <3>4 DEF Room
  <2>8. ASSUME NEW j \in Keys \ {k}, ~torn', index[j] # None PROVE Held(j)' = Held(j)
    BY <1>4, <2>1, <2>6, <2>8, HeldKept
  <2>9. ASSUME ~torn' PROVE Held(k)' = resp.version
    <3>1. LaidOut(file') /\ LaidOut(file) /\ file' \in File
      BY <1>4, <2>9 DEF Content, Fits, LaidOut, Shape, TypeOK
    <3>2. r \in file'.recs /\ IsRecordOf(r, k, n)
      BY <2>1, <2>2, <2>3, <3>1 DEF IsRecordOf, LaidOut
    <3>3. ReadAt(file', n) = r BY <3>1, <3>2, ReadsRecord
    <3>4. Held(k)' = ReadAt(file', index'[k]).val.version BY DEF Held, ReadAt, RecordsAt
    <3> QED BY <2>3, <2>6, <3>3, <3>4
  <2> QED BY <2>2, <2>4, <2>6, <2>7, <2>8, <2>9
<1>5. CASE \E e \in Int :
             /\ file' = Written(file, k, resp, FALSE) /\ torn' = torn
             /\ index' = [index EXCEPT ![k] =
                            [off |-> file.size, exp |-> e, len |-> RecSize[resp]]]
             /\ behind' = behind \ {k} /\ UNCHANGED isActiveComp
             /\ file.size + RecSize[resp] <= MaxSize
  <2>1. behind' = behind \ {k} /\ torn' = torn BY <1>5
  <2>2. /\ Plain' /\ Room' /\ index'[k] # None
        /\ \A j \in Keys \ {k} : /\ index'[j] = index[j]
                                 /\ ~torn' /\ index[j] # None => Held(j)' = Held(j)
        /\ ~torn' => Held(k)' = resp.version
    BY <1>4, <1>5
  <2> QED BY <2>1, <2>2
<1>6. CASE \E n \in FailBytes :
             /\ file' = Tear(file, n) /\ torn' = (torn \/ n > 0)
             /\ UNCHANGED <<index, behind, isActiveComp>>
  BY <1>3, <1>6
<1> QED BY <1>2, <1>5, <1>6 DEF SetDoes

\* After a step of the goroutine: what is not gone is held as before.
LEMMA DeleterKeeps ==
  ASSUME Shape, Content(TRUE), Plain, Room, Shape', Content(TRUE)', DeleterDoes
  PROVE  /\ Plain' /\ Room' /\ (~torn' => ~torn)
         /\ \A j \in Keys : index'[j] # None =>
              index'[j] = index[j] /\ (~torn' => Held(j)' = Held(j))
PROOF
<1>1. file \in File /\ index \in Index BY DEF Shape, TypeOK, Index
<1>2. CASE UNCHANGED <<file, index, torn>>
  <2>1. UNCHANGED <<file, index, torn, isActiveComp>> BY <1>2 DEF DeleterDoes
  <2>2. Plain' /\ Room' BY <2>1 DEF Plain, Response, Room, Live, Indexed
  <2>3. \A j \in Keys : Held(j)' = Held(j) BY <2>1 DEF Held, ReadAt, RecordsAt
  <2> QED BY <2>1, <2>2, <2>3
<1>3. ASSUME NEW n \in FailBytes, file' = Tear(file, n), torn' = (torn \/ n > 0), index' = index
      PROVE  /\ Plain' /\ Room' /\ (~torn' => ~torn)
             /\ \A j \in Keys : ~torn' /\ index[j] # None => Held(j)' = Held(j)
  <2>1. Plain' /\ Room' /\ (~torn' => ~torn) /\ file'.recs = file.recs
    BY <1>3, TornAway DEF DeleterDoes
  <2>2. ASSUME NEW j \in Keys, ~torn', index[j] # None PROVE Held(j)' = Held(j)
    BY <1>3, <2>1, <2>2, HeldKept
  <2> QED BY <2>1, <2>2
<1>4. ASSUME NEW k \in Keys, index[k] # None, torn' = torn, file' = Buried(file, index[k]),
             index' = [index EXCEPT ![k] = None]
      PROVE  /\ Plain' /\ Room'
             /\ \A j \in Keys : index'[j] # None =>
                  index'[j] = index[j] /\ (~torn' => Held(j)' = Held(j))
  <2>1. index[k] \in Entry BY <1>1, <1>4 DEF Index
  <2>2. \A r \in file'.recs : r.val \in Response
    <3>1. CASE ReadAt(file, index[k]) = Garbage
      <4>1. file'.recs = file.recs BY <1>1, <1>4, <3>1 DEF Buried, Rewrite, File
      <4> QED BY <4>1 DEF Plain
    <3>2. CASE ReadAt(file, index[k]) # Garbage
      <4> DEFINE o == ReadAt(file, index[k])
      <4>1. o \in file.recs BY <1>1, <3>2, ReadAtType
      <4>2. file' = Written(file, o.key, o.val, TRUE) BY <1>4, <3>2 DEF Buried, Rewrite
      <4> HIDE DEF o
      <4>3. \A r \in file'.recs : r \in file.recs \/ r.val = o.val BY <4>2 DEF Written
      <4> QED BY <4>1, <4>3 DEF Plain
    <3> QED BY <3>1, <3>2
  <2>3. Plain' BY <2>2 DEF Plain, Response, DeleterDoes
  <2>4. index'[k] = None /\ \A j \in Keys \ {k} : index'[j] = index[j] BY <1>1, <1>4 DEF Index
  <2>5. Room'
    <3>1. file'.size = file.size + index[k].len /\ file.size \in Nat /\ index[k].len \in Nat
          /\ MaxSize \in Nat
      BY <1>1, <1>4, <2>1, BuriedSize, BoundsAssumption DEF File, Entry
    <3>2. /\ IsFiniteSet(Live(index'))
          /\ Cardinality(Live(index)) = Cardinality(Live(index')) + index[k].len
      BY <1>1, <1>4, LiveDrops DEF Room
    <3>3. Cardinality(Live(index)) \in Nat /\ Cardinality(Live(index')) \in Nat
      BY <3>2, FS_CardinalityType DEF Room
    <3>4. /\ Cardinality(Live(index')) <= file'.size
          /\ file'.size + Cardinality(Live(index')) <= 2 * MaxSize
      BY <3>1, <3>2, <3>3 DEF Room
    <3>5. Live(index)' = Live(index') BY DEF Live, Indexed
    <3> QED BY <3>2, <3>4, <3>5 DEF Room
  <2>6. ASSUME NEW j \in Keys, index'[j] # None, ~torn' PROVE Held(j)' = Held(j)
    <3>1. ~torn /\ index'[j] = index[j] BY <1>4, <2>4, <2>6
    <3>2. file.recs \subseteq file'.recs BY <1>1, <1>4, <3>1, BuriedGrows DEF Content
    <3> QED BY <1>4, <2>6, <3>1, <3>2, HeldKept
  <2> QED BY <2>3, <2>4, <2>5, <2>6
<1> QED BY <1>2, <1>3, <1>4 DEF DeleterDoes

-----------------------------------------------------------------------------
(* Flights over the file *)

\* A flight that goes on: it alone is for its key.
LEMMA ProceedsAlone ==
  ASSUME FlightTypeOK, F!Sound, NEW c \in Clients, NEW k \in Keys, For(c, k),
         NEW at \in {"get", "fetch", "refetch", "set", "return"},
         NEW resp \in Response \cup {None, Failed}, Proceeds(c, at, resp)
  PROVE  /\ UNCHANGED <<client, key, result, floor, served, sgr, origin>>
         /\ For(c, k)' /\ flight'[c].at = at /\ flight'[c].resp = resp
         /\ \A j \in Keys : For(c, j)' => j = k
         /\ \A d \in Clients \ {c}, j \in Keys :
              For(d, j)' => For(d, j) /\ j # k /\ flight'[d] = flight[d]
PROOF
<1>1. /\ flight'[c] # None /\ flight'[c].at = at /\ flight'[c].resp = resp
      /\ \A d \in Clients \ {c} : flight'[d] = flight[d]
      /\ UNCHANGED <<client, key, result, floor, served, sgr, origin>>
  <2>1. resp \in F!Response \cup {None, Failed} /\ F!Proceeds(c, at, resp) BY SameFlights
  <2> QED BY <2>1, FlightsKept, F!ProceedsEffect DEF For
<1>2. \A d \in Clients \ {c} : flight[d] # None => key[d] # k
  BY DEF F!Sound, F!FlightSound, For
<1> QED BY <1>1, <1>2 DEF For

\* What it finds missing stays missing, and what it could not read is behind.
LEMMA ProceedsSteady ==
  ASSUME FlightTypeOK, F!Sound, First, Floors, NEW c \in Clients, NEW k \in Keys, For(c, k),
         NEW at \in {"get", "fetch", "refetch", "set", "return"},
         NEW resp \in Response \cup {None, Failed}, Proceeds(c, at, resp),
         \A j \in Keys \ {k} : index'[j] = index[j] /\ (j \in behind' <=> j \in behind),
         at \in {"fetch", "set"} => index'[k] = None, at = "refetch" => k \in behind'
  PROVE  First' /\ Floors'
PROOF
<1>1. First'
  <2>1. ASSUME NEW d \in Clients, NEW j \in Keys, For(d, j)', flight'[d].at \in {"fetch", "set"}
        PROVE  index'[j] = None
    <3>1. CASE d = c BY <2>1, <3>1, ProceedsAlone
    <3>2. CASE d # c BY <2>1, <3>2, ProceedsAlone DEF First
    <3> QED BY <3>1, <3>2
  <2> QED BY <2>1 DEF First
<1>2. Floors'
  <2>1. ASSUME NEW d \in Clients, NEW j \in Keys, For(d, j)', flight'[d].at = "refetch"
        PROVE  j \in behind'
    <3>1. CASE d = c BY <2>1, <3>1, ProceedsAlone
    <3>2. CASE d # c BY <2>1, <3>2, ProceedsAlone DEF Floors
    <3> QED BY <3>1, <3>2
  <2>2. \A d \in Clients : floor'[d] <= served'[key'[d]] BY ProceedsAlone DEF Floors
  <2> QED BY <2>1, <2>2 DEF Floors
<1> QED BY <1>1, <1>2

\* What it has got is of the origin and, unless its key is behind, as new as what was answered.
LEMMA ProceedsFresh ==
  ASSUME FlightTypeOK, F!Sound, Origins, Fresh, NEW c \in Clients, NEW k \in Keys, For(c, k),
         NEW at \in {"get", "fetch", "refetch", "set", "return"},
         NEW resp \in Response \cup {None, Failed}, Proceeds(c, at, resp),
         \A j \in Keys \ {k} : /\ index'[j] = index[j] /\ (j \in behind' <=> j \in behind)
                               /\ index[j] # None => Held(j)' = Held(j),
         index'[k] # None => /\ Held(k)' <= origin[k]
                             /\ k \notin behind' => served[k] <= Held(k)',
         resp \in Response => /\ resp.version <= origin[k]
                              /\ at = "set" => served[k] <= resp.version
                              /\ at = "return" /\ k \notin behind' =>
                                   /\ served[k] <= resp.version
                                   /\ index'[k] # None => resp.version <= Held(k)'
  PROVE  Origins' /\ Fresh'
PROOF
<1>1. /\ UNCHANGED <<client, key, result, floor, served, sgr, origin>>
      /\ For(c, k)' /\ flight'[c].at = at /\ flight'[c].resp = resp
      /\ \A j \in Keys : For(c, j)' => j = k
      /\ \A d \in Clients \ {c}, j \in Keys :
           For(d, j)' => For(d, j) /\ j # k /\ flight'[d] = flight[d]
  BY ProceedsAlone
<1>2. Response' = Response BY DEF Response
<1>3. Origins'
  <2>1. \A j \in Keys : served'[j] <= origin'[j] BY <1>1 DEF Origins
  <2>2. ASSUME NEW j \in Keys, index'[j] # None PROVE Held(j)' <= origin'[j]
    <3>1. CASE j = k BY <1>1, <2>2, <3>1
    <3>2. CASE j # k BY <1>1, <2>2, <3>2 DEF Origins
    <3> QED BY <3>1, <3>2
  <2>3. ASSUME NEW d \in Clients, NEW j \in Keys, For(d, j)', flight'[d].resp \in Response
        PROVE  flight'[d].resp.version <= origin'[j]
    <3>1. CASE d = c BY <1>1, <2>3, <3>1
    <3>2. CASE d # c BY <1>1, <2>3, <3>2 DEF Origins
    <3> QED BY <3>1, <3>2
  <2> QED BY <1>2, <2>1, <2>2, <2>3 DEF Origins
<1>4. Fresh'
  <2>1. ASSUME NEW j \in Keys \ behind', index'[j] # None PROVE served'[j] <= Held(j)'
    <3>1. CASE j = k BY <1>1, <2>1, <3>1
    <3>2. CASE j # k BY <1>1, <2>1, <3>2 DEF Fresh
    <3> QED BY <3>1, <3>2
  <2>2. ASSUME NEW d \in Clients, NEW j \in Keys, For(d, j)', flight'[d].resp \in Response
        PROVE  /\ flight'[d].at = "set" => served'[j] <= flight'[d].resp.version
               /\ flight'[d].at = "return" /\ j \notin behind' =>
                    /\ served'[j] <= flight'[d].resp.version
                    /\ index'[j] # None => flight'[d].resp.version <= Held(j)'
    <3>1. CASE d = c BY <1>1, <2>2, <3>1
    <3>2. CASE d # c
      <4>1. For(d, j) /\ j # k /\ flight'[d] = flight[d] /\ index'[j] = index[j]
            /\ (j \in behind' <=> j \in behind) /\ served' = served
            /\ (index[j] # None => Held(j)' = Held(j))
        BY <1>1, <2>2, <3>2
      <4> QED BY <2>2, <4>1 DEF Fresh
    <3> QED BY <3>1, <3>2
  <2> QED BY <1>2, <2>1, <2>2 DEF Fresh
<1> QED BY <1>3, <1>4

LEMMA StoreStays ==
  ASSUME UNCHANGED vars
  PROVE  /\ UNCHANGED <<file, index, torn, isActiveComp>>
         /\ \A j \in Keys : Held(j)' = Held(j)
PROOF BY DEF vars, diskVars, mapVars, Held, ReadAt, RecordsAt

\* A flight gets a response, nothing, or bytes that are no response.
LEMMA GetsRelates ==
  ASSUME Inv, NEW c \in Clients, GetsFromFile(c)
  PROVE  Related'
PROOF
<1> USE DEF Inv, Related
<1>1. PICK k \in Keys : k = key[c] BY FlightValues
<1>2. /\ For(c, k) /\ UNCHANGED <<file, index, torn, behind>>
      /\ \A j \in Keys : Held(j)' = Held(j)
  BY <1>1, StoreStays DEF GetsFromFile, FlightGets, InFlight, For
<1>3. /\ Get(k) = None <=> index[k] = None
      /\ Get(k) \in Response \cup {None, Garbage} /\ None # Failed /\ Failed \notin Response
      /\ None \notin Response /\ Garbage \notin Response /\ Garbage # None
  BY ShardValues, FlightValues, SentinelAssumption
<1>4. FlightGets(c, Parsed(Get(k))) BY <1>1 DEF GetsFromFile
<1>5. ~torn /\ index[k] # None =>
        /\ Held(k) <= origin[k]
        /\ k \notin behind => served[k] <= Held(k)
  BY DEF Origins, Fresh
<1>6. CASE Get(k) = None
  <2>1. Parsed(Get(k)) = None BY <1>3, <1>6 DEF Parsed
  <2>2. Proceeds(c, "fetch", None) BY <1>4, <2>1 DEF FlightGets
  <2>3. First' /\ Floors' BY <1>2, <1>3, <1>6, <2>2, ProceedsSteady
  <2>4. ASSUME ~torn PROVE Origins' /\ Fresh'
    BY <1>2, <1>3, <1>5, <1>6, <2>2, <2>4, ProceedsFresh
  <2> QED BY <1>2, <2>3, <2>4
<1>7. CASE Get(k) = Garbage
  <2>1. Parsed(Get(k)) = Failed BY <1>7 DEF Parsed
  <2>2. Proceeds(c, "return", Failed) BY <1>3, <1>4, <2>1 DEF FlightGets
  <2>3. First' /\ Floors' BY <1>2, <2>2, ProceedsSteady
  <2>4. ASSUME ~torn PROVE Origins' /\ Fresh' BY <1>2, <1>3, <1>5, <2>2, <2>4, ProceedsFresh
  <2> QED BY <1>2, <2>3, <2>4
<1>8. CASE Get(k) \in Response
  <2>1. PICK resp \in Response : resp = Get(k) BY <1>8
  <2>2. Parsed(Get(k)) = resp BY <1>3, <2>1 DEF Parsed
  <2>3. Proceeds(c, "return", resp) BY <1>3, <1>4, <2>2 DEF FlightGets
  <2>4. First' /\ Floors' BY <1>2, <2>3, ProceedsSteady
  <2>5. ASSUME ~torn PROVE Origins' /\ Fresh'
    <3>1. resp.version = Held(k) /\ Held(k) \in Int /\ index[k] # None
      BY <1>3, <2>1, <2>5, ReadsResponse
    <3> QED BY <1>2, <1>5, <2>3, <2>5, <3>1, ProceedsFresh
  <2> QED BY <1>2, <2>4, <2>5
<1> QED BY <1>3, <1>6, <1>7, <1>8

\* What a flight cannot read falls behind.
LEMMA ReadFailsRelates ==
  ASSUME Inv, NEW c \in Clients, ReadFails(c)
  PROVE  Related'
PROOF
<1> USE DEF Inv, Related
<1>1. PICK k \in Keys : k = key[c] BY FlightValues
<1>2. /\ For(c, k) /\ UNCHANGED <<file, index, torn>> /\ behind' = behind \cup {k}
      /\ \A j \in Keys : Held(j)' = Held(j)
      /\ Proceeds(c, "refetch", None)
  BY <1>1, StoreStays DEF ReadFails, FlightGetFails, InFlight, For
<1>3. None \notin Response BY FlightValues
<1>4. First' /\ Floors' BY <1>2, ProceedsSteady
<1>5. ASSUME ~torn PROVE Origins' /\ Fresh'
  <2>1. index[k] # None => Held(k) <= origin[k] BY <1>5 DEF Origins
  <2> QED BY <1>2, <1>3, <1>5, <2>1, ProceedsFresh
<1> QED BY <1>2, <1>4, <1>5

\* What a flight stores is what it has fetched: the newest there was.
LEMMA SetsRelates ==
  ASSUME Inv, NEW c \in Clients, SetsInFile(c)
  PROVE  Shape' /\ Content(TRUE)' /\ Plain' /\ Room' /\ Related'
PROOF
<1> USE DEF Inv, Related
<1>1. /\ flight[c] # None /\ flight[c].at = "set" /\ flight[c].resp \in Response
      /\ index[key[c]] = None /\ Proceeds(c, "return", flight[c].resp)
      /\ SetDoes(key[c], flight[c].resp) /\ Shape' /\ Content(TRUE)'
  BY SetEffect
<1>2. PICK k \in Keys : k = key[c] BY FlightValues
<1>3. PICK resp \in Response : resp = flight[c].resp BY <1>1
<1>4. /\ For(c, k) /\ Proceeds(c, "return", resp) /\ SetDoes(k, resp) /\ index[k] = None
      /\ flight[c].resp \in Response /\ flight[c].at = "set"
  BY <1>1, <1>2, <1>3 DEF For
<1>5. /\ Plain' /\ Room' /\ (~torn' => ~torn)
      /\ \A j \in Keys \ {k} : /\ index'[j] = index[j] /\ (j \in behind' <=> j \in behind)
                               /\ ~torn' /\ index[j] # None => Held(j)' = Held(j)
      /\ ~torn' /\ index'[k] # None => Held(k)' = resp.version
  BY <1>1, <1>4, SetKeeps
<1>6. First' /\ Floors' BY <1>4, <1>5, ProceedsSteady
<1>7. ASSUME ~torn' PROVE Origins' /\ Fresh'
  <2>1. ~torn BY <1>5, <1>7
  <2>2. resp.version <= origin[k] /\ served[k] <= resp.version /\ resp.version \in Int
    BY <1>3, <1>4, <2>1, FlightValues DEF Origins, Fresh
  <2>3. index'[k] # None => Held(k)' = resp.version BY <1>5, <1>7
  <2>4. \A j \in Keys \ {k} : /\ index'[j] = index[j] /\ (j \in behind' <=> j \in behind)
                              /\ index[j] # None => Held(j)' = Held(j)
    BY <1>5, <1>7
  <2>5. index'[k] # None => /\ Held(k)' <= origin[k] /\ served[k] <= Held(k)'
                            /\ resp.version <= Held(k)'
    BY <2>2, <2>3
  <2> QED BY <1>4, <2>1, <2>2, <2>4, <2>5, ProceedsFresh
<1> QED BY <1>1, <1>5, <1>6, <1>7

\* What a flight fetches is the newest there is; if it could not read, its key is behind.
LEMMA FetchesRelates ==
  ASSUME Inv, UNCHANGED <<vars, behind>>, NEW c \in Clients,
         FlightFetchFails(c) \/ \E header \in CacheControls : FlightFetches(c, header)
  PROVE  Related'
PROOF
<1> USE DEF Inv, Related
<1>1. PICK k \in Keys : k = key[c] BY FlightValues
<1>2. UNCHANGED <<file, index, torn, behind>> /\ \A j \in Keys : Held(j)' = Held(j)
  BY StoreStays
<1>3. For(c, k) BY <1>1 DEF FlightFetchFails, FlightFetches, InFlight, For
<1>4. ~torn /\ index[k] # None => /\ Held(k) <= origin[k]
                                  /\ k \notin behind => served[k] <= Held(k)
  BY DEF Origins, Fresh
<1>5. CASE FlightFetchFails(c)
  <2>1. Proceeds(c, "return", Failed) BY <1>5 DEF FlightFetchFails
  <2>2. First' /\ Floors' BY <1>2, <1>3, <2>1, ProceedsSteady
  <2>3. Failed \notin Response BY FlightValues
  <2>4. ASSUME ~torn PROVE Origins' /\ Fresh' BY <1>2, <1>3, <1>4, <2>1, <2>3, <2>4, ProceedsFresh
  <2> QED BY <1>2, <2>2, <2>4
<1>6. ASSUME NEW header \in CacheControls, FlightFetches(c, header) PROVE Related'
  <2>1. PICK resp : resp = [version |-> origin[k], header |-> header] OBVIOUS
  <2>2. resp \in Response /\ resp.version = origin[k]
    BY <2>1 DEF FlightTypeOK, Response
  <2>3. \/ flight[c].at = "fetch" /\ Proceeds(c, "set", resp)
        \/ flight[c].at = "refetch" /\ Proceeds(c, "return", resp)
    BY <1>1, <1>6, <2>1 DEF FlightFetches, InFlight
  <2>4. ~torn => served[k] <= resp.version BY <2>2 DEF Origins
  <2>5. origin[k] \in Int BY FlightValues
  <2>6. CASE flight[c].at = "fetch" /\ Proceeds(c, "set", resp)
    <3>1. index[k] = None BY <1>3, <2>6 DEF First
    <3>2. First' /\ Floors' BY <1>2, <1>3, <2>2, <2>6, <3>1, ProceedsSteady
    <3>3. ASSUME ~torn PROVE Origins' /\ Fresh'
      BY <1>2, <1>3, <2>2, <2>4, <2>5, <2>6, <3>1, <3>3, ProceedsFresh
    <3> QED BY <1>2, <3>2, <3>3
  <2>7. CASE flight[c].at = "refetch" /\ Proceeds(c, "return", resp)
    <3>1. k \in behind BY <1>3, <2>7 DEF Floors
    <3>2. First' /\ Floors' BY <1>2, <1>3, <2>2, <2>7, ProceedsSteady
    <3>3. ASSUME ~torn PROVE Origins' /\ Fresh'
      BY <1>2, <1>3, <1>4, <2>2, <2>5, <2>7, <3>1, <3>3, ProceedsFresh
    <3> QED BY <1>2, <3>2, <3>3
  <2> QED BY <2>3, <2>6, <2>7
<1> QED BY <1>5, <1>6

\* What a flight returns is served; all who get it waited for its key.
LEMMA ReturnsRelates ==
  ASSUME Inv, UNCHANGED <<vars, behind>>, NEW c \in Clients, FlightReturns(c)
  PROVE  /\ Related'
         /\ \A d \in Clients :
              client[d] = "waits" /\ client'[d] = "answered" /\ key[d] \notin behind /\ ~torn
                => result'[d] = Failed \/ result'[d].version >= floor'[d]
PROOF
<1> USE DEF Inv, Related
<1> DEFINE resp == flight[c].resp
<1>1. PICK k \in Keys : k = key[c] BY FlightValues
<1>2. UNCHANGED <<file, index, torn, behind>> /\ \A j \in Keys : Held(j)' = Held(j)
  BY StoreStays
<1>3. /\ flight[c] # None /\ flight[c].at = "return" /\ resp \in Response \cup {Failed}
      /\ flight'[c] = None /\ \A d \in Clients \ {c} : flight'[d] = flight[d]
      /\ \A d \in Clients : IF d \in flight[c].members
           THEN client[d] = "waits" /\ key[d] = k /\ client'[d] = "answered" /\ result'[d] = resp
           ELSE client'[d] = client[d] /\ result'[d] = result[d]
      /\ key' = key /\ floor' = floor /\ origin' = origin
      /\ \A j \in Keys \ {k} : served'[j] = served[j]
      /\ resp = Failed => served'[k] = served[k]
      /\ resp # Failed => served'[k] = IF resp.version > served[k]
                                       THEN resp.version ELSE served[k]
  <2>1. F!FlightReturns(c) BY SameFlights
  <2> QED BY <1>1, <2>1, FlightsKept, SameFlights, F!ReturnsEffect
<1>4. For(c, k) BY <1>1, <1>3 DEF For
<1>5. \A d \in Clients, j \in Keys : For(d, j)' => For(d, j) /\ flight'[d] = flight[d] /\ j # k
  <2>1. \A d \in Clients \ {c} : flight[d] # None => key[d] # k
    BY <1>1, <1>3 DEF F!Sound, F!FlightSound
  <2> QED BY <1>3, <2>1 DEF For
<1>6. /\ \A j \in Keys : served[j] \in Int /\ origin[j] \in Int
      /\ \A d \in Clients : key[d] \in Keys /\ floor[d] \in Int
      /\ resp \in Response => resp.version \in Int
      /\ Failed \notin Response /\ Response' = Response
  BY FlightValues DEF Response
<1>7. ~torn => /\ resp \in Response => resp.version <= origin[k]
               /\ resp \in Response /\ k \notin behind =>
                    served[k] <= resp.version /\ (index[k] # None => resp.version <= Held(k))
  BY <1>3, <1>4 DEF Origins, Fresh
<1> HIDE DEF resp
<1>8. \A j \in Keys : served'[j] \in Int /\ served[j] <= served'[j]
  <2>1. served'[k] \in Int /\ served[k] <= served'[k] BY <1>3, <1>6
  <2> QED BY <1>3, <1>6, <2>1
<1>9. First' BY <1>2, <1>5 DEF First
<1>10. Floors'
  <2>1. ASSUME NEW d \in Clients PROVE floor'[d] <= served'[key'[d]]
    <3>1. PICK j \in Keys : j = key[d] BY <1>6
    <3>2. floor[d] <= served[j] BY <3>1 DEF Floors
    <3>3. floor[d] <= served'[j] BY <1>6, <1>8, <3>2
    <3> QED BY <1>3, <3>1, <3>3
  <2>2. \A d \in Clients, j \in Keys : For(d, j)' /\ flight'[d].at = "refetch" => j \in behind'
    BY <1>2, <1>5 DEF Floors
  <2> QED BY <2>1, <2>2 DEF Floors
<1>11. ASSUME ~torn PROVE Origins' /\ Fresh'
  <2>1. ASSUME NEW j \in Keys PROVE served'[j] <= origin'[j]
    <3>1. served[j] <= origin[j] BY <1>11 DEF Origins
    <3>2. CASE j = k BY <1>3, <1>6, <1>7, <1>11, <3>1, <3>2
    <3>3. CASE j # k BY <1>3, <3>1, <3>3
    <3> QED BY <3>2, <3>3
  <2>2. \A j \in Keys : index'[j] # None => Held(j)' <= origin'[j]
    BY <1>2, <1>3, <1>11 DEF Origins
  <2>3. \A d \in Clients, j \in Keys : For(d, j)' /\ flight'[d].resp \in Response =>
          flight'[d].resp.version <= origin'[j]
    BY <1>3, <1>5, <1>11 DEF Origins
  <2>4. Origins' BY <1>6, <2>1, <2>2, <2>3 DEF Origins
  <2>5. ASSUME NEW j \in Keys, j \notin behind, index[j] # None PROVE served'[j] <= Held(j)
    <3>1. served[j] <= Held(j) BY <1>11, <2>5 DEF Fresh
    <3>2. CASE j = k
      <4>1. CASE resp = Failed BY <1>3, <3>1, <3>2, <4>1
      <4>2. CASE resp # Failed BY <1>3, <1>7, <1>11, <2>5, <3>1, <3>2, <4>2
      <4> QED BY <4>1, <4>2
    <3>3. CASE j # k BY <1>3, <3>1, <3>3
    <3> QED BY <3>2, <3>3
  <2>6. ASSUME NEW d \in Clients, NEW j \in Keys, For(d, j)', flight'[d].resp \in Response
        PROVE  /\ flight'[d].at = "set" => served'[j] <= flight'[d].resp.version
               /\ flight'[d].at = "return" /\ j \notin behind' =>
                    /\ served'[j] <= flight'[d].resp.version
                    /\ index'[j] # None => flight'[d].resp.version <= Held(j)'
    <3>1. /\ For(d, j) /\ flight'[d] = flight[d] /\ j # k /\ served'[j] = served[j]
          /\ index' = index /\ behind' = behind /\ Held(j)' = Held(j)
      BY <1>2, <1>3, <1>5, <2>6
    <3> QED BY <1>11, <2>6, <3>1 DEF Fresh
  <2>7. Fresh' BY <1>2, <1>6, <2>5, <2>6 DEF Fresh
  <2> QED BY <2>4, <2>7
<1>12. ASSUME NEW d \in Clients, client[d] = "waits", client'[d] = "answered",
              key[d] \notin behind, ~torn
       PROVE  result'[d] = Failed \/ result'[d].version >= floor'[d]
  <2>1. key[d] = k /\ result'[d] = resp BY <1>3, <1>12
  <2>2. floor'[d] = floor[d] /\ floor[d] <= served[k] BY <1>3, <2>1 DEF Floors
  <2>3. resp = Failed \/ served[k] <= resp.version BY <1>3, <1>7, <1>12, <2>1
  <2> QED BY <1>3, <1>6, <2>1, <2>2, <2>3
<1> QED BY <1>2, <1>9, <1>10, <1>11, <1>12

\* Who asks knows of nothing that has not been served.
LEMMA RequestRelates ==
  ASSUME Inv, UNCHANGED <<vars, behind>>, NEW c \in Clients, NEW k \in Keys, Request(c, k)
  PROVE  Related'
PROOF
<1> USE DEF Inv, Related
<1>1. UNCHANGED <<file, index, torn, behind>> /\ \A j \in Keys : Held(j)' = Held(j)
  BY StoreStays
<1>2. /\ flight[c] = None /\ key'[c] = k /\ floor'[c] = served[k]
      /\ \A d \in Clients \ {c} : key'[d] = key[d] /\ floor'[d] = floor[d]
      /\ served' = served /\ origin' = origin
  <2>1. F!Ask(c, k) BY SameFlights DEF Request
  <2> QED BY <2>1, FlightsKept, F!AskEffect
<1>3. \A d \in Clients : flight'[d] # None =>
        \/ flight'[d].at = "get" /\ flight'[d].resp = None
        \/ flight[d] # None /\ d # c /\ flight'[d].at = flight[d].at /\ flight'[d].resp = flight[d].resp
  <2>1. flight \in [Clients -> Flight \cup {None}] BY DEF FlightTypeOK
  <2>2. CASE sgr[k] = None
    <3>1. flight' = [flight EXCEPT ![c] = NewFlight(c)] BY <2>2 DEF Request
    <3> QED BY <2>1, <3>1 DEF NewFlight
  <2>3. CASE sgr[k] # None
    <3>1. flight' = [flight EXCEPT ![sgr[k]].members = @ \cup {c}] BY <2>3 DEF Request
    <3>2. flight[sgr[k]] # None /\ sgr[k] \in Clients BY <2>3 DEF F!Sound, FlightTypeOK
    <3>3. flight'[sgr[k]] = [flight[sgr[k]] EXCEPT !.members = @ \cup {c}]
          /\ \A d \in Clients \ {sgr[k]} : flight'[d] = flight[d]
      BY <2>1, <3>1, <3>2
    <3>4. flight'[sgr[k]].at = flight[sgr[k]].at /\ flight'[sgr[k]].resp = flight[sgr[k]].resp
      BY <2>1, <3>2, <3>3 DEF Flight
    <3> QED BY <1>2, <3>2, <3>3, <3>4
  <2> QED BY <2>2, <2>3
<1>4. \A d \in Clients, j \in Keys : For(d, j)' =>
        \/ flight'[d].at = "get" /\ flight'[d].resp = None
        \/ For(d, j) /\ flight'[d].at = flight[d].at /\ flight'[d].resp = flight[d].resp
  BY <1>2, <1>3 DEF For
<1>5. None \notin Response /\ Response' = Response BY FlightValues DEF Response
<1>6. First' BY <1>1, <1>4 DEF First
<1>7. Floors'
  <2>1. ASSUME NEW d \in Clients PROVE floor'[d] <= served'[key'[d]]
    <3>1. CASE d = c BY <1>2, <3>1, FlightValues
    <3>2. CASE d # c BY <1>2, <3>2 DEF Floors
    <3> QED BY <3>1, <3>2
  <2> QED BY <1>1, <1>4, <2>1 DEF Floors
<1>8. ASSUME ~torn PROVE Origins' /\ Fresh'
  <2>1. Origins' BY <1>1, <1>2, <1>4, <1>5, <1>8 DEF Origins
  <2>2. \A j \in Keys \ behind' : index'[j] # None => served'[j] <= Held(j)'
    BY <1>1, <1>2, <1>8 DEF Fresh
  <2>3. ASSUME NEW d \in Clients, NEW j \in Keys, For(d, j)', flight'[d].resp \in Response
        PROVE  /\ flight'[d].at = "set" => served'[j] <= flight'[d].resp.version
               /\ flight'[d].at = "return" /\ j \notin behind' =>
                    /\ served'[j] <= flight'[d].resp.version
                    /\ index'[j] # None => flight'[d].resp.version <= Held(j)'
    <3>1. For(d, j) /\ flight'[d].at = flight[d].at /\ flight'[d].resp = flight[d].resp
      BY <1>4, <1>5, <2>3
    <3> QED BY <1>1, <1>2, <1>8, <2>3, <3>1 DEF Fresh
  <2> QED BY <1>5, <2>1, <2>2, <2>3 DEF Fresh
<1> QED BY <1>1, <1>6, <1>7, <1>8

\* The origin only gets newer.
LEMMA OriginRelates ==
  ASSUME Inv, UNCHANGED <<vars, behind>>, NEW k \in Keys, OriginChanges(k)
  PROVE  Related'
PROOF
<1> USE DEF Inv, Related
<1>1. UNCHANGED <<file, index, torn, behind>> /\ \A j \in Keys : Held(j)' = Held(j)
  BY StoreStays
<1>2. UNCHANGED <<key, floor, served, flight>> BY DEF OriginChanges, clientVars
<1>3. \A j \in Keys : origin[j] <= origin'[j] /\ origin[j] \in Int /\ origin'[j] \in Int
  <2>1. origin' = [origin EXCEPT ![k] = @ + 1] /\ origin \in [Keys -> 0 .. MaxVersion]
    BY DEF OriginChanges, FlightTypeOK
  <2>2. \A j \in Keys : origin[j] \in Int BY FlightValues
  <2> QED BY <2>1, <2>2
<1>4. Response' = Response /\ \A d \in Clients, j \in Keys : For(d, j)' <=> For(d, j)
  BY <1>2 DEF Response, For
<1>5. First' /\ Floors' BY <1>1, <1>2, <1>4 DEF First, Floors
<1>6. ASSUME ~torn PROVE Origins' /\ Fresh'
  <2>1. ASSUME NEW j \in Keys, NEW v \in Int, v <= origin[j] PROVE v <= origin'[j] BY <1>3, <2>1
  <2>2. \A j \in Keys : served'[j] <= origin'[j] BY <1>2, <1>6, <2>1, FlightValues DEF Origins
  <2>3. ASSUME NEW j \in Keys, index[j] # None PROVE Held(j) <= origin'[j]
    <3>1. Held(j) \in Int BY <1>6, <2>3, ReadsResponse
    <3>2. Held(j) <= origin[j] BY <1>6, <2>3 DEF Origins
    <3> QED BY <2>1, <3>1, <3>2
  <2>4. ASSUME NEW d \in Clients, NEW j \in Keys, For(d, j), flight[d].resp \in Response
        PROVE  flight[d].resp.version <= origin'[j]
    <3>1. flight[d].resp.version \in Int BY <2>4, FlightValues
    <3>2. flight[d].resp.version <= origin[j] BY <1>6, <2>4 DEF Origins
    <3> QED BY <2>1, <3>1, <3>2
  <2>5. Origins' BY <1>1, <1>2, <1>4, <2>2, <2>3, <2>4 DEF Origins
  <2>6. Fresh' BY <1>1, <1>2, <1>4, <1>6 DEF Fresh
  <2> QED BY <2>5, <2>6
<1> QED BY <1>1, <1>5, <1>6

\* What only lets entries go, while no flight moves.
LEMMA LetsGoRelates ==
  ASSUME Inv, UNCHANGED <<flightVars, behind>>, ~torn' => ~torn,
         \A j \in Keys : index'[j] # None =>
           index'[j] = index[j] /\ (~torn' => Held(j)' = Held(j))
  PROVE  Related'
PROOF
<1> USE DEF Inv, Related
<1>1. UNCHANGED <<key, floor, served, origin, flight, behind>> BY DEF flightVars
<1>2. Response' = Response /\ \A d \in Clients, j \in Keys : For(d, j)' <=> For(d, j)
  BY <1>1 DEF Response, For
<1>3. First' /\ Floors' BY <1>1, <1>2 DEF First, Floors
<1>4. ASSUME ~torn' PROVE Origins' /\ Fresh'
  <2>1. ~torn BY <1>4
  <2>2. \A j \in Keys : index'[j] # None => index[j] # None /\ Held(j)' = Held(j) BY <1>4
  <2>3. Origins' BY <1>1, <1>2, <2>1, <2>2 DEF Origins
  <2>4. \A j \in Keys \ behind' : index'[j] # None => served'[j] <= Held(j)'
    BY <1>1, <2>1, <2>2 DEF Fresh
  <2>5. ASSUME NEW d \in Clients, NEW j \in Keys, For(d, j)', flight'[d].resp \in Response
        PROVE  /\ flight'[d].at = "set" => served'[j] <= flight'[d].resp.version
               /\ flight'[d].at = "return" /\ j \notin behind' =>
                    /\ served'[j] <= flight'[d].resp.version
                    /\ index'[j] # None => flight'[d].resp.version <= Held(j)'
    <3>1. For(d, j) /\ flight' = flight /\ served' = served /\ behind' = behind
      BY <1>1, <1>2, <2>5
    <3> QED BY <2>1, <2>2, <2>5, <3>1 DEF Fresh
  <2> QED BY <1>2, <2>3, <2>4, <2>5 DEF Fresh
<1> QED BY <1>3, <1>4

-----------------------------------------------------------------------------
(* The invariant *)

\* Flights and clients stay together, whatever the file does.
LEMMA NextSound ==
  ASSUME Inv, [FileProxyNext]_proxyVars, ~Restarts
  PROVE  F!Sound' /\ FlightTypeOK'
PROOF
<1> USE DEF Inv
<1>1. F!FlightInv BY FlightsKept
<1>2. ASSUME F!FlightInv' PROVE F!Sound' /\ FlightTypeOK'
  <2>1. FlightTypeOK' = F!FlightTypeOK'
    BY DEF FlightTypeOK, F!FlightTypeOK, Response, F!Response, Flight, F!Flight
  <2> QED BY <1>2, <2>1 DEF F!FlightInv
<1>3. ASSUME UNCHANGED flightVars PROVE F!Sound' /\ FlightTypeOK'
  BY <1>3 DEF flightVars, F!Sound, F!FlightSound, FlightTypeOK, Flight, Response, F!Response
<1>4. ASSUME NEW c \in Clients, GetsFromFile(c) PROVE F!FlightInv'
  <2>1. Get(key[c]) \in Response \cup {None, Garbage} BY ShardValues, FlightValues
  <2>2. PICK data \in Response \cup {None, Failed} : data = Parsed(Get(key[c])) BY <2>1 DEF Parsed
  <2>3. F!FlightGets(c, data) BY <1>4, <2>2, SameFlights DEF GetsFromFile
  <2> QED BY <1>1, <2>2, <2>3, SameFlights, F!StoreInv
<1>5. ASSUME NEW c \in Clients, ReadFails(c) \/ SetsInFile(c) PROVE F!FlightInv'
  <2>1. F!FlightGetFails(c) \/ F!FlightSets(c) BY <1>5, SameFlights DEF ReadFails, SetsInFile
  <2> QED BY <1>1, <2>1, F!StoreInv
<1>6. ASSUME Around \/ \E c \in Clients : FliesOutside(c) PROVE F!FlightInv'
  BY <1>1, <1>6, SameFlights, F!OutsideInv
<1>7. CASE UNCHANGED proxyVars BY <1>3, <1>7 DEF proxyVars
<1> QED BY <1>2, <1>3, <1>4, <1>5, <1>6, <1>7 DEF FileProxyNext, FileFlies

\* The flights change the file by their Sets only.
LEMMA StoreUntouched ==
  ASSUME Inv, UNCHANGED vars
  PROVE  Shape' /\ Content(TRUE)' /\ Plain' /\ Room'
PROOF
<1>1. Shape' /\ Content(TRUE)'
  BY StutterShape, StutterContent DEF Inv, vars, mapVars, compVars
<1>2. Plain' /\ Room' BY StoreStays DEF Inv, Plain, Response, Room, Live, Indexed
<1> QED BY <1>1, <1>2

\* The goroutine that deletes, and the clock.
LEMMA AsideKeeps ==
  ASSUME Inv, Deleter \/ Tick, UNCHANGED <<flightVars, behind>>
  PROVE  Shape' /\ Content(TRUE)' /\ Plain' /\ Room' /\ Related'
PROOF
<1> USE DEF Inv
<1>1. CASE Deleter
  <2>1. DeleterDoes /\ Shape' /\ Content(TRUE)' BY <1>1, DeleterEffect
  <2>2. /\ Plain' /\ Room' /\ (~torn' => ~torn)
        /\ \A j \in Keys : index'[j] # None =>
             index'[j] = index[j] /\ (~torn' => Held(j)' = Held(j))
    BY <2>1, DeleterKeeps
  <2> QED BY <2>1, <2>2, LetsGoRelates
<1>2. CASE Tick
  <2>1. UNCHANGED <<diskVars, mapVars, compVars>> BY <1>2 DEF Tick
  <2>2. UNCHANGED <<file, index, torn, isActiveComp>> BY <2>1 DEF diskVars, mapVars
  <2>3. Shape' /\ Content(TRUE)'
    BY <1>2, <2>1, OtherShape, StutterContent DEF mapVars, compVars
  <2>4. Plain' /\ Room' BY <2>2 DEF Plain, Response, Room, Live, Indexed
  <2>5. \A j \in Keys : Held(j)' = Held(j) BY <2>2 DEF Held, ReadAt, RecordsAt
  <2> QED BY <2>2, <2>3, <2>4, <2>5, LetsGoRelates
<1> QED BY <1>1, <1>2

-----------------------------------------------------------------------------
(* A new start *)

\* A start finds for a key what the index had, or nothing: the record the entry led to.
LEMMA ReloadedEntry ==
  ASSUME Inv, Restarts, NEW k \in Keys, index'[k] # None
  PROVE  /\ index[k] # None /\ index'[k] \in Entry
         /\ index'[k].off = index[k].off /\ index'[k].len = index[k].len
         /\ \E r \in file.recs : IsLast(r, file) /\ IsRecordOf(r, k, index'[k])
PROOF
<1>1. /\ file \in File /\ index \in Index /\ now \in Nat /\ ReloadFor \in Nat
      /\ LaidOut(file) /\ Points(file, index) /\ Restores(file, index)
  BY FileProxyAssumption, ShardValues DEF Inv, Restarts, Content, Fits, Shape, TypeOK
<1>2. PICK r \in Reloaded(k) :
        index'[k] = [off |-> r.off, exp |-> now + ReloadFor, len |-> RecSize[r.val]]
  BY DEF Restarts
<1>3. r \in file.recs /\ r.key = k /\ ~r.del /\ IsLast(r, file) BY DEF Reloaded
<1>4. r.off \in Nat /\ r.val \in Values /\ RecSize[r.val] \in Nat
  BY <1>1, <1>3, RecSizeAssumption DEF File, LogRec
<1>5. index'[k] \in Entry /\ index'[k].off = r.off /\ index'[k].len = RecSize[r.val]
  BY <1>1, <1>2, <1>4 DEF Entry
<1>6. index[k] # None /\ index[k].off = r.off BY <1>1, <1>3 DEF Restores
<1>7. PICK s \in file.recs : IsRecordOf(s, k, index[k]) BY <1>1, <1>6 DEF Points, Indexed
<1>8. s = r BY <1>1, <1>3, <1>6, <1>7 DEF IsRecordOf, LaidOut
<1>9. IsRecordOf(r, k, index'[k]) BY <1>3, <1>5 DEF IsRecordOf
<1> QED BY <1>3, <1>5, <1>6, <1>7, <1>8, <1>9 DEF IsRecordOf

\* The shard of the new process is one like that of the old, with the same file.
LEMMA RestartShard ==
  ASSUME Inv, Restarts
  PROVE  /\ Shape' /\ Content(TRUE)' /\ Plain' /\ Room'
         /\ file' = file /\ torn' = torn
         /\ \A k \in Keys : index'[k] # None => Held(k)' = Held(k)
PROOF
<1>1. /\ file \in File /\ index \in Index /\ Shape /\ ~torn /\ ~isActiveComp
      /\ LaidOut(file) /\ Points(file, index) /\ Restores(file, index)
      /\ Fits(TRUE, fileComp, indexComp)
  BY ShardValues DEF Inv, Restarts, Content, Fits, Plain
<1>2. file' = file /\ UNCHANGED <<torn, fileComp, indexComp, isActiveComp, triggerComp, compVars, now, lifeVars>>
  <2>1. file' = [file EXCEPT !.size = file.end] /\ file.size = file.end
    BY <1>1 DEF Restarts, LaidOut
  <2>2. file' = file BY <1>1, <2>1 DEF File
  <2> QED BY <2>2 DEF Restarts
<1>3. index' \in Index
  <2>1. \A k \in Keys : index'[k] \in Entry \cup {None} BY ReloadedEntry
  <2>2. index' = [k \in Keys |-> index'[k]] BY DEF Restarts
  <2> QED BY <2>1, <2>2 DEF Index
<1>4. Shape'
  <2>1. deleter' = "idle" /\ sweepLeft' = {} BY DEF Restarts
  <2>2. TypeOK' BY <1>1, <1>2, <1>3, <2>1 DEF Shape, TypeOK, Index, compVars, lifeVars
  <2> QED BY <1>1, <1>2, <2>1, <2>2
          DEF Shape, SnapshotFrozen, CompactionOwned, Indexed, compVars
<1>5. Points(file, index')
  <2>1. \A k \in Keys : index'[k] # None => \E r \in file.recs : IsRecordOf(r, k, index'[k])
    BY ReloadedEntry
  <2> QED BY <2>1 DEF Points, Indexed
<1>6. Restores(file, index')
  <2> SUFFICES ASSUME NEW r \in file.recs, IsLast(r, file), ~r.del
               PROVE  index'[r.key] # None /\ index'[r.key].off = r.off
    BY DEF Restores
  <2>1. r.key \in Keys /\ r \in Reloaded(r.key) BY <1>1 DEF Reloaded, File, LogRec
  <2>2. PICK s \in Reloaded(r.key) :
          index'[r.key] = [off |-> s.off, exp |-> now + ReloadFor, len |-> RecSize[s.val]]
    BY <2>1 DEF Restarts
  <2>3. index'[r.key] # None
    <3>1. index'[r.key] \in Entry
      <4>1. s.off \in Nat /\ RecSize[s.val] \in Nat
        BY <1>1, RecSizeAssumption DEF Reloaded, File, LogRec
      <4>2. now + ReloadFor \in Int BY <1>1, FileProxyAssumption DEF Shape, TypeOK
      <4> QED BY <2>2, <4>1, <4>2 DEF Entry
    <3> QED BY <3>1, SentinelAssumption
  <2>4. PICK t \in file.recs : IsLast(t, file) /\ IsRecordOf(t, r.key, index'[r.key])
    BY <2>1, <2>3, ReloadedEntry
  <2>5. t.off <= r.off /\ r.off <= t.off /\ t.off \in Nat /\ r.off \in Nat
    BY <1>1, <2>4 DEF IsLast, IsRecordOf, File, LogRec
  <2> QED BY <2>3, <2>4, <2>5 DEF IsRecordOf
<1>7. Content(TRUE)'
  <2>1. Fits(TRUE, file', index') /\ Fits(TRUE, fileComp', indexComp')
    BY <1>1, <1>2, <1>5, <1>6 DEF Fits
  <2>2. compactor' # "write" BY <1>1, <1>2 DEF Shape, compVars
  <2>3. ~leakedRLock' BY <1>1, <1>2 DEF Inv, Content, LeakNeedsTornWrite, compVars
  <2> QED BY <2>1, <2>2, <2>3
          DEF Content, CarriedSound, LeakNeedsTornWrite, Fits, LaidOut, Points, Restores,
              Indexed, IsLast, IsRecordOf
<1>8. Plain' BY <1>2 DEF Inv, Plain, Response
<1>9. Room'
  <2>1. Live(index') \subseteq Live(index)
    <3>1. \A k \in Keys : index'[k] # None => index[k] # None /\ index'[k].len = index[k].len
      BY ReloadedEntry
    <3> QED BY <3>1 DEF Live, Indexed
  <2>2. IsFiniteSet(Live(index)) /\ Cardinality(Live(index)) \in Nat
    BY FS_CardinalityType DEF Inv, Room
  <2>3. /\ IsFiniteSet(Live(index')) /\ Cardinality(Live(index')) <= Cardinality(Live(index))
        /\ Cardinality(Live(index')) \in Nat
    BY <2>1, <2>2, FS_Subset, FS_CardinalityType
  <2>4. file.size \in Nat /\ MaxSize \in Nat BY <1>1, BoundsAssumption DEF File
  <2>5. /\ Cardinality(Live(index')) <= file.size
        /\ file.size + Cardinality(Live(index')) <= 2 * MaxSize
    BY <2>2, <2>3, <2>4 DEF Inv, Room
  <2>6. Live(index)' = Live(index') BY DEF Live, Indexed
  <2> QED BY <1>2, <2>3, <2>5, <2>6 DEF Room
<1>10. ASSUME NEW k \in Keys, index'[k] # None PROVE Held(k)' = Held(k)
  <2>1. index'[k].off = index[k].off /\ index'[k].len = index[k].len BY <1>10, ReloadedEntry
  <2>2. ReadAt(file, index'[k]) = ReadAt(file, index[k]) BY <2>1 DEF ReadAt, RecordsAt
  <2>3. Held(k)' = ReadAt(file', index'[k]).val.version BY DEF Held, ReadAt, RecordsAt
  <2> QED BY <1>2, <2>2, <2>3 DEF Held
<1> QED BY <1>2, <1>4, <1>7, <1>8, <1>9, <1>10

\* No flight outlives the process, and nobody waits for one.
LEMMA RestartFlights ==
  ASSUME Inv, Restarts
  PROVE  F!Sound' /\ FlightTypeOK'
PROOF
<1>1. FlightsLost /\ FlightTypeOK /\ F!Sound BY DEF Inv, Restarts
<1>2. \A c \in Clients : client'[c] # "waits" /\ (client'[c] = "answered" => client[c] = "answered")
  BY <1>1 DEF FlightsLost
<1>3. FlightTypeOK' BY <1>1 DEF FlightsLost, FlightTypeOK, Response, Flight
<1>4. F!Sound' BY <1>1, <1>2 DEF FlightsLost, F!Sound, F!Response
<1> QED BY <1>3, <1>4

LEMMA RestartInv ==
  ASSUME Inv, Restarts PROVE Inv'
PROOF
<1>1. FlightsLost /\ behind' = behind BY DEF Restarts
<1>2. \A c \in Clients, k \in Keys : ~For(c, k)' BY <1>1 DEF FlightsLost, For
<1>3. UNCHANGED <<key, origin, served, floor>> BY <1>1 DEF FlightsLost
<1>4. /\ torn' = torn /\ \A k \in Keys : index'[k] # None => index[k] # None /\ Held(k)' = Held(k)
  BY RestartShard, ReloadedEntry
<1>5. First' BY <1>2 DEF First
<1>6. Floors' BY <1>2, <1>3 DEF Inv, Related, Floors
<1>7. ~torn' => Origins' /\ Fresh'
  BY <1>1, <1>2, <1>3, <1>4 DEF Inv, Related, Origins, Fresh
<1> QED BY <1>5, <1>6, <1>7, RestartShard, RestartFlights DEF Inv, Related

LEMMA ProxyInitInv == FileProxyInit => Inv
PROOF
<1> SUFFICES ASSUME FileProxyInit PROVE Inv OBVIOUS
<1> USE DEF FileProxyInit, FlightInit
<1>1. Shape /\ Content(TRUE) BY InitShape, InitContent
<1>2. 0 \in 0 .. MaxVersion BY FileProxyAssumption DEF FlightAssumption
<1>3. FlightTypeOK BY <1>2 DEF FlightTypeOK
<1>4. F!Sound BY DEF F!Sound
<1>5. file = [recs |-> {}, end |-> 0, size |-> 0] /\ index = [k \in Keys |-> None] /\ ~isActiveComp
  BY DEF Init, EmptyFile, EmptyIndex
<1>6. Plain BY <1>5 DEF Plain
<1>7. Room
  <2>1. Live(index) = {} BY <1>5 DEF Live, Indexed
  <2>2. IsFiniteSet({}) /\ Cardinality({}) = 0 BY FS_EmptySet
  <2>3. file.size = 0 /\ MaxSize \in Nat BY <1>5, BoundsAssumption
  <2> QED BY <2>1, <2>2, <2>3 DEF Room
<1>8. \A c \in Clients, k \in Keys : ~For(c, k) BY DEF For
<1>9. First BY <1>8 DEF First
<1>10. Floors
  <2>1. \A c \in Clients : floor[c] = 0 /\ served[key[c]] = 0 OBVIOUS
  <2> QED BY <1>8, <2>1 DEF Floors
<1>11. Origins /\ Fresh BY <1>5, <1>8 DEF Origins, Fresh
<1> QED BY <1>1, <1>3, <1>4, <1>6, <1>7, <1>9, <1>10, <1>11 DEF Inv, Related

LEMMA ProxyNextInv == Inv /\ [FileProxyNext]_proxyVars => Inv'
PROOF
<1> SUFFICES ASSUME Inv, [FileProxyNext]_proxyVars, ~Restarts PROVE Inv' BY RestartInv
<1>1. F!Sound' /\ FlightTypeOK' BY NextSound
<1>2. ASSUME UNCHANGED vars, Related' PROVE Inv' BY <1>1, <1>2, StoreUntouched DEF Inv
<1>3. ASSUME NEW c \in Clients, FileFlies(c) PROVE Inv'
  <2>1. CASE GetsFromFile(c) BY <1>2, <2>1, GetsRelates DEF GetsFromFile
  <2>2. CASE ReadFails(c) BY <1>2, <2>2, ReadFailsRelates DEF ReadFails
  <2>3. CASE SetsInFile(c) BY <1>1, <2>3, SetsRelates DEF Inv
  <2>4. CASE FliesOutside(c) /\ UNCHANGED <<vars, behind>>
    BY <1>2, <2>4, FetchesRelates, ReturnsRelates DEF FliesOutside
  <2> QED BY <1>3, <2>1, <2>2, <2>3, <2>4 DEF FileFlies
<1>4. CASE Around /\ UNCHANGED <<vars, behind>>
  BY <1>2, <1>4, RequestRelates, OriginRelates DEF Around
<1>5. CASE (Deleter \/ Tick) /\ UNCHANGED <<flightVars, behind>> BY <1>1, <1>5, AsideKeeps DEF Inv
<1>6. CASE UNCHANGED proxyVars
  <2>1. UNCHANGED <<vars, flightVars, behind>> BY <1>6 DEF proxyVars
  <2>2. Related' BY <2>1, StoreStays, LetsGoRelates
  <2> QED BY <1>2, <2>1, <2>2
<1> QED BY <1>3, <1>4, <1>5, <1>6 DEF FileProxyNext

-----------------------------------------------------------------------------
(* The theorems *)

\* The invariant holds whatever the keys, clients, lengths, headers and failing writes: the
\* shard's own, the flights' own, and how the two fit.
THEOREM ProxyInvariance == FileProxySpec => []Inv
PROOF BY ProxyInitInv, ProxyNextInv, PTL DEF FileProxySpec

\* A Set by way of a flight finds no entry for its key: nobody stores a key between the
\* flight's look into the file and its Set.
THEOREM SetsComeFirst == FileProxySpec => []SetsAreFirst
PROOF
<1>1. Inv => SetsAreFirst
  <2> SUFFICES ASSUME Inv, NEW c \in Clients, InFlight(c, "set") PROVE ActiveIndex[key[c]] = None
    BY DEF SetsAreFirst
  <2>1. key[c] \in Keys /\ For(c, key[c]) BY FlightValues DEF Inv, InFlight, For
  <2>2. index[key[c]] = None BY <2>1 DEF Inv, Related, First, InFlight
  <2> QED BY <2>2 DEF Inv, Plain, ActiveIndex
<1> QED BY <1>1, ProxyInvariance, PTL

\* What the shard counts of its file stays within twice the limit, failing writes and new
\* starts included, and so does the whole file as long as no failed write has left bytes in
\* it: it has room for every live record, and within twice the limit for its tombstone.
THEOREM FileStaysWithinTwiceTheLimit == FileProxySpec => []TwiceTheLimit
PROOF
<1>1. Inv => TwiceTheLimit
  <2> SUFFICES ASSUME Inv PROVE file.size <= 2 * MaxSize /\ (~torn => file.end = file.size)
    BY DEF TwiceTheLimit
  <2>1. IsFiniteSet(Live(index)) /\ file.size + Cardinality(Live(index)) <= 2 * MaxSize
    BY DEF Inv, Room
  <2>2. Cardinality(Live(index)) \in Nat BY <2>1, FS_CardinalityType
  <2>3. file.size \in Nat /\ MaxSize \in Nat
    BY BoundsAssumption DEF Inv, Shape, TypeOK, File
  <2>4. ~torn => file.end = file.size BY DEF Inv, Content, Fits, LaidOut
  <2> QED BY <2>1, <2>2, <2>3, <2>4
<1> QED BY <1>1, ProxyInvariance, PTL

\* Nobody is answered but by a flight that returns.
LEMMA OnlyReturnsAnswer ==
  ASSUME Inv, [FileProxyNext]_proxyVars, NEW d \in Clients,
         client[d] = "waits", client'[d] = "answered"
  PROVE  UNCHANGED <<vars, behind>> /\ \E c \in Clients : FlightReturns(c)
PROOF
<1>1. client' # client BY Zenon
<1>2. \A c \in Clients : ~GetsFromFile(c) /\ ~ReadFails(c) /\ ~SetsInFile(c)
  BY <1>1 DEF GetsFromFile, ReadFails, SetsInFile, FlightGets, FlightGetFails, FlightSets,
              Proceeds, clientVars
<1>3. /\ \A c \in Clients : ~FlightFetchFails(c)
      /\ \A c \in Clients, header \in CacheControls : ~FlightFetches(c, header)
  BY <1>1 DEF FlightFetchFails, FlightFetches, Proceeds, clientVars
<1>4. \A k \in Keys : ~OriginChanges(k) BY <1>1 DEF OriginChanges, clientVars
<1>5. ASSUME NEW c \in Clients, NEW k \in Keys, Request(c, k) PROVE FALSE
  <2>1. client' = [client EXCEPT ![c] = "waits"] BY <1>5 DEF Request, Ask
  <2>2. client \in [Clients -> {"idle", "waits", "answered"}] BY DEF Inv, FlightTypeOK
  <2>3. client'[d] = "waits" BY <2>1, <2>2
  <2> QED BY <2>3
<1>6. UNCHANGED flightVars => FALSE BY <1>1 DEF flightVars
<1>7. ~UNCHANGED proxyVars BY <1>6 DEF proxyVars
<1>8. ~Restarts BY DEF Restarts, FlightsLost
<1> QED BY <1>2, <1>3, <1>4, <1>5, <1>6, <1>7, <1>8
    DEF FileProxyNext, FileFlies, FliesOutside, Around

\* No request gets an older version than one that was answered before it was sent, by this
\* process or by one before it, unless its key is behind or a failed write has shifted the
\* file.
THEOREM NobodyGoesBackInFiles == FileProxySpec => NoGoingBackInFiles
PROOF
<1>1. ASSUME Inv, [FileProxyNext]_proxyVars, NEW d \in Clients,
             client[d] = "waits", client'[d] = "answered", key[d] \notin behind, ~torn
      PROVE  NotTakenBack(d)'
  <2>1. PICK c \in Clients : FlightReturns(c) /\ UNCHANGED <<vars, behind>>
    BY <1>1, OnlyReturnsAnswer
  <2>2. result'[d] = Failed \/ result'[d].version >= floor'[d] BY <1>1, <2>1, ReturnsRelates
  <2> QED BY <2>2 DEF NotTakenBack
<1>2. Inv /\ [FileProxyNext]_proxyVars =>
        [\A c \in Clients :
           client[c] = "waits" /\ client'[c] = "answered" /\ key[c] \notin behind /\ ~torn
             => NotTakenBack(c)']_proxyVars
  BY <1>1
<1> QED BY <1>2, ProxyInvariance, PTL DEF FileProxySpec, NoGoingBackInFiles
=============================================================================
