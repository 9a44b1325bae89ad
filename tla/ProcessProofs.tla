---------------------------- MODULE ProcessProofs ----------------------------
(***************************************************************************)
(* Proofs about Process: its type invariant, that the store requests get   *)
(* is complete, that the metrics are exact, and that the process waits for *)
(* its requests.  The inductive invariant is Inv.                          *)
(***************************************************************************)
EXTENDS Process, FiniteSetTheorems, TLAPS

-----------------------------------------------------------------------------
(* The inductive invariant *)

\* A shard is cut short only after a signal or the failure of a shard, and an errgroup
\* that is cancelled while shards load has such a failure.
StoreSound ==
  /\ cacheStore = "none" /\ errctxDone => \E s \in Shards : load[s] = "failed"
  /\ cacheStore = "ready" => \A s \in Shards : load[s] = "ok"
  /\ ~ctxDone /\ (\A s \in Shards : load[s] # "failed") =>
       \A s \in Shards : load[s] = "ok" =>
         /\ loaded[s] = Records[s]
         /\ \A g \in Loops : shardLoops[s][g] \in {"running", "failed"}

\* What main has still to do when it has made none, one, two or three of its deferred calls.
DeferredRest == {DeferredCalls, <<"stop", "cancel">>, <<"cancel">>, <<>>}

\* The server's Shutdown is over before main makes its second deferred call, and only that
\* call ends the context before its time: an error of Shutdown is the end of the 30 seconds.
DrainSound ==
  /\ main \in {"start", "serve"} => serverShutdown = "none" /\ ctxTimeout = "none"
  /\ main = "returns" =>
       /\ deferred \in DeferredRest /\ serverShutdown # "none"
       /\ deferred = DeferredCalls => ctxTimeout \in {"running", "expired"}
       /\ deferred # DeferredCalls => serverShutdown \in {"ok", "error"}
  /\ main = "exited" => serverShutdown \in {"ok", "error"}
  /\ serverShutdown = "ok" => \A r \in Requests : request[r] # "handled"
  /\ serverShutdown = "error" => ctxTimeout = "expired"

Inv == TypeOK /\ StoreSound /\ MetricsExact /\ DrainSound

-----------------------------------------------------------------------------
(* The conjuncts of the invariant *)

\* The deferred calls main has left, after each that it makes.
LEMMA RestOfDeferred ==
  /\ DeferredCalls # <<"stop", "cancel">> /\ DeferredCalls # <<"cancel">> /\ DeferredCalls # <<>>
  /\ Head(DeferredCalls) = "wait" /\ Tail(DeferredCalls) = <<"stop", "cancel">>
  /\ Head(<<"stop", "cancel">>) = "stop" /\ Tail(<<"stop", "cancel">>) = <<"cancel">>
  /\ Head(<<"cancel">>) = "cancel" /\ Tail(<<"cancel">>) = <<>>
PROOF BY DEF DeferredCalls

\* What a goroutine of a shard leaves behind when it ends.
LEMMA LoopEnds ==
  ASSUME TypeOK, NEW s \in Shards, NEW g \in Loops, NEW v \in {"stopped", "failed"},
         shardLoops' = [shardLoops EXCEPT ![s][g] = v]
  PROVE  /\ shardLoops' \in [Shards -> [Loops -> {"none", "running", "stopped", "failed"}]]
         /\ \A q \in Shards, h \in Loops :
              shardLoops'[q][h] = IF q = s /\ h = g THEN v ELSE shardLoops[q][h]
PROOF
<1> DEFINE Statuses == {"none", "running", "stopped", "failed"}
           row == [shardLoops[s] EXCEPT ![g] = v]
<1>1. shardLoops \in [Shards -> [Loops -> Statuses]] BY DEF TypeOK
<1>2. shardLoops[s] \in [Loops -> Statuses] BY <1>1
<1>3. row \in [Loops -> Statuses] BY <1>2
<1>4. \A h \in Loops : row[h] = IF h = g THEN v ELSE shardLoops[s][h] BY <1>2
<1>5. shardLoops' = [shardLoops EXCEPT ![s] = row] OBVIOUS
<1> HIDE DEF row, Statuses
<1>6. shardLoops' \in [Shards -> [Loops -> Statuses]] BY <1>1, <1>3, <1>5
<1>7. \A q \in Shards : shardLoops'[q] = IF q = s THEN row ELSE shardLoops[q]
  BY <1>1, <1>5
<1> QED BY <1>4, <1>6, <1>7 DEF Statuses

\* The requests in one state are finitely many.
LEMMA RequestsFinite == \A v : IsFiniteSet({r \in Requests : request[r] = v})
PROOF BY FS_Subset, ProcessAssumption

\* Every step keeps the types; the gauge is not taken below zero, because the request that
\* leaves is one of those it counts.
LEMMA NextType ==
  ASSUME Inv, Next
  PROVE  TypeOK'
PROOF
<1> USE DEF Inv, TypeOK, StoreStep, Starting, MainStep, ServerStep, RequestStep,
            storeVars, mainVars, serverVars, requestVars
<1> USE ProcessAssumption
<1>1. CASE Signal BY <1>1 DEF Signal
<1>2. CASE TimesOut BY <1>2 DEF TimesOut
<1>3. CASE NewFileCacheStore
  <2>1. ASSUME NEW s \in Shards, LoadsRecord(s) PROVE TypeOK'
    BY <2>1 DEF LoadsRecord
  <2>2. ASSUME NEW s \in Shards, InitReturns(s) PROVE TypeOK'
    BY <2>2 DEF InitReturns
  <2>3. ASSUME NEW s \in Shards, InitFails(s) PROVE TypeOK'
    BY <2>3 DEF InitFails
  <2>4. CASE StoreReturns BY <2>4 DEF StoreReturns
  <2>5. CASE NewFileShardsFails BY <2>5 DEF NewFileShardsFails
  <2> QED BY <1>3, <2>1, <2>2, <2>3, <2>4, <2>5 DEF NewFileCacheStore
<1>4. ASSUME NEW s \in Shards, NEW g \in Loops,
             ShardLoopEnds(s, g) \/ ShardLoopFails(s, g)
      PROVE  TypeOK'
  <2>1. PICK v \in {"stopped", "failed"} : shardLoops' = [shardLoops EXCEPT ![s][g] = v]
    BY <1>4 DEF ShardLoopEnds, ShardLoopFails
  <2>2. shardLoops' \in [Shards -> [Loops -> {"none", "running", "stopped", "failed"}]]
    BY <2>1, LoopEnds
  <2> QED BY <1>4, <2>2 DEF ShardLoopEnds, ShardLoopFails
<1>5. CASE Main
  <2>1. CASE Serve BY <2>1 DEF Serve
  <2>2. CASE ShutDown BY <2>2 DEF ShutDown, DeferredCalls
  <2>3. CASE Waits BY <2>3 DEF Waits, Calls
  <2>4. CASE Stops BY <2>4 DEF Stops, Calls
  <2>5. CASE Cancels BY <2>5 DEF Cancels, Calls
  <2>6. CASE Exits BY <2>6 DEF Exits
  <2> QED BY <1>5, <2>1, <2>2, <2>3, <2>4, <2>5, <2>6 DEF Main
<1>6. CASE LimiterLoopEnds BY <1>6 DEF LimiterLoopEnds
<1>7. CASE Server
  BY <1>7 DEF Server, ListenAndServe, ServerShutdownBegins, ServerShutdownEnds
<1>8. ASSUME NEW r \in Requests, Arrives(r) PROVE TypeOK'
  BY <1>8 DEF Arrives
<1>9. ASSUME NEW r \in Requests, Returns(r) \/ Panics(r) PROVE TypeOK'
  <2>1. httpReqCurrent - 1 \in Nat
    <3>1. r \in {q \in Requests : request[q] = "handled"} BY <1>9 DEF Returns, Panics
    <3>2. Cardinality({q \in Requests : request[q] = "handled"}) # 0
      BY <3>1, RequestsFinite, FS_EmptySet
    <3> QED BY <3>2 DEF MetricsExact
  <2>2. CASE Returns(r) BY <2>1, <2>2 DEF Returns
  <2>3. CASE Panics(r) BY <2>1, <2>3 DEF Panics
  <2> QED BY <1>9, <2>2, <2>3
<1> QED BY <1>1, <1>2, <1>3, <1>4, <1>5, <1>6, <1>7, <1>8, <1>9 DEF Next

\* The start of the cache: a shard is complete or somebody failed, or there was a signal.
LEMMA NextStoreSound ==
  ASSUME Inv, Next
  PROVE  StoreSound'
PROOF
<1> USE DEF Inv, TypeOK, StoreSound, StoreStep, Starting, InitCancelled, storeVars
<1> USE ProcessAssumption
<1>1. CASE Signal BY <1>1 DEF Signal
<1>2. CASE NewFileCacheStore
  <2>1. ASSUME NEW s \in Shards, LoadsRecord(s) PROVE StoreSound'
    BY <2>1 DEF LoadsRecord
  <2>2. ASSUME NEW s \in Shards, InitReturns(s) PROVE StoreSound'
    BY <2>2 DEF InitReturns
  <2>3. ASSUME NEW s \in Shards, InitFails(s) PROVE StoreSound'
    BY <2>3 DEF InitFails
  <2>4. CASE StoreReturns BY <2>4 DEF StoreReturns
  <2>5. CASE NewFileShardsFails BY <2>5 DEF NewFileShardsFails
  <2> QED BY <1>2, <2>1, <2>2, <2>3, <2>4, <2>5 DEF NewFileCacheStore
<1>3. ASSUME NEW s \in Shards, NEW g \in Loops,
             ShardLoopEnds(s, g) \/ ShardLoopFails(s, g)
      PROVE  StoreSound'
  <2>1. PICK v \in {"stopped", "failed"} :
          /\ shardLoops' = [shardLoops EXCEPT ![s][g] = v]
          /\ ctxDone \/ v = "failed"
    BY <1>3 DEF ShardLoopEnds, ShardLoopFails
  <2>2. \A q \in Shards, h \in Loops :
          shardLoops'[q][h] = IF q = s /\ h = g THEN v ELSE shardLoops[q][h]
    BY <2>1, LoopEnds
  <2> QED BY <1>3, <2>1, <2>2 DEF ShardLoopEnds, ShardLoopFails
<1>4. CASE UNCHANGED <<ctxDone, storeVars>> BY <1>4
<1>5. CASE TimesOut \/ Main \/ LimiterLoopEnds \/ Server
  BY <1>4, <1>5 DEF TimesOut, LimiterLoopEnds, Main, Serve, ShutDown, Waits, Stops, Cancels,
     Exits, Calls, MainStep, Server, ListenAndServe, ServerShutdownBegins, ServerShutdownEnds,
     ServerStep
<1>6. ASSUME NEW r \in Requests, Arrives(r) \/ Returns(r) \/ Panics(r) PROVE StoreSound'
  BY <1>4, <1>6 DEF Arrives, Returns, Panics, RequestStep
<1> QED BY <1>1, <1>2, <1>3, <1>5, <1>6 DEF Next

\* The end of the process: main waits for the server before it cuts the server's time short.
LEMMA NextDrainSound ==
  ASSUME Inv, Next
  PROVE  DrainSound'
PROOF
<1> USE DEF Inv, TypeOK, DrainSound, Alive, MainStep, ServerStep, RequestStep,
            mainVars, serverVars, requestVars
<1>1. CASE TimesOut BY <1>1 DEF TimesOut
<1>2. CASE Main
  <2>1. CASE Serve BY <2>1 DEF Serve
  <2>2. CASE ShutDown BY <2>2 DEF ShutDown, DeferredRest
  <2>3. CASE Waits BY <2>3, RestOfDeferred DEF Waits, Calls, DeferredRest
  <2>4. CASE Stops BY <2>4, RestOfDeferred DEF Stops, Calls, DeferredRest
  <2>5. CASE Cancels BY <2>5, RestOfDeferred DEF Cancels, Calls, DeferredRest
  <2>6. CASE Exits BY <2>6, RestOfDeferred DEF Exits
  <2> QED BY <1>2, <2>1, <2>2, <2>3, <2>4, <2>5, <2>6 DEF Main
<1>3. CASE Server
  <2>1. CASE ListenAndServe BY <2>1 DEF ListenAndServe
  <2>2. CASE ServerShutdownBegins BY <2>2, RestOfDeferred DEF ServerShutdownBegins
  <2>3. CASE ServerShutdownEnds BY <2>3, RestOfDeferred DEF ServerShutdownEnds
  <2> QED BY <1>3, <2>1, <2>2, <2>3 DEF Server
<1>4. ASSUME NEW r \in Requests, Arrives(r) \/ Returns(r) \/ Panics(r) PROVE DrainSound'
  BY <1>4 DEF Arrives, Returns, Panics
<1>5. CASE Signal \/ LimiterLoopEnds BY <1>5 DEF Signal, LimiterLoopEnds
<1>6. CASE NewFileCacheStore
  BY <1>6 DEF NewFileCacheStore, LoadsRecord, InitReturns, InitFails, StoreReturns,
              NewFileShardsFails, Starting, StoreStep
<1>7. ASSUME NEW s \in Shards, NEW g \in Loops,
             ShardLoopEnds(s, g) \/ ShardLoopFails(s, g)
      PROVE  DrainSound'
  BY <1>7 DEF ShardLoopEnds, ShardLoopFails, StoreStep
<1> QED BY <1>1, <1>2, <1>3, <1>4, <1>5, <1>6, <1>7 DEF Next

\* A request that comes is counted in, one that goes is counted out, by its end or by its
\* panic, and an answer is counted once.
LEMMA NextMetrics ==
  ASSUME Inv, Next
  PROVE  MetricsExact'
PROOF
<1> DEFINE In(v) == {r \in Requests : request[r] = v}
<1>0. \A v : IsFiniteSet(In(v)) BY RequestsFinite
<1> USE DEF Inv, TypeOK, MetricsExact, requestVars
<1>1. CASE UNCHANGED requestVars BY <1>1
<1>2. ASSUME NEW r \in Requests, Arrives(r) PROVE MetricsExact'
  <2>1. r \notin In("handled") /\ In("handled")' = In("handled") \cup {r}
        /\ In("answered")' = In("answered")
    BY <1>2 DEF Arrives
  <2>2. Cardinality(In("handled") \cup {r}) = Cardinality(In("handled")) + 1
    <3> HIDE DEF In
    <3> QED BY <1>0, <2>1, FS_AddElement
  <2> QED BY <1>2, <2>1, <2>2 DEF Arrives
<1>3. ASSUME NEW r \in Requests, Returns(r) \/ Panics(r) PROVE MetricsExact'
  <2>1. r \in In("handled") /\ In("handled")' = In("handled") \ {r}
    BY <1>3 DEF Returns, Panics
  <2>2. Cardinality(In("handled") \ {r}) = Cardinality(In("handled")) - 1
    <3> HIDE DEF In
    <3> QED BY <1>0, <2>1, FS_RemoveElement
  <2>3. CASE Returns(r)
    <3>1. r \notin In("answered") /\ In("answered")' = In("answered") \cup {r}
      BY <2>3 DEF Returns
    <3>2. Cardinality(In("answered") \cup {r}) = Cardinality(In("answered")) + 1
      <4> HIDE DEF In
      <4> QED BY <1>0, <3>1, FS_AddElement
    <3> QED BY <2>1, <2>2, <2>3, <3>1, <3>2 DEF Returns
  <2>4. CASE Panics(r)
    <3>1. In("answered")' = In("answered") BY <2>4 DEF Panics
    <3> QED BY <2>1, <2>2, <2>4, <3>1 DEF Panics
  <2> QED BY <1>3, <2>3, <2>4
<1>4. CASE Signal \/ TimesOut \/ LimiterLoopEnds
  BY <1>1, <1>4 DEF Signal, TimesOut, LimiterLoopEnds
<1>5. CASE NewFileCacheStore
  BY <1>1, <1>5 DEF NewFileCacheStore, LoadsRecord, InitReturns, InitFails, StoreReturns,
                    NewFileShardsFails, Starting, StoreStep
<1>6. ASSUME NEW s \in Shards, NEW g \in Loops,
             ShardLoopEnds(s, g) \/ ShardLoopFails(s, g)
      PROVE  MetricsExact'
  BY <1>1, <1>6 DEF ShardLoopEnds, ShardLoopFails, StoreStep
<1>7. CASE Main
  BY <1>1, <1>7 DEF Main, Serve, ShutDown, Waits, Stops, Cancels, Exits, Calls, MainStep
<1>8. CASE Server
  BY <1>1, <1>8 DEF Server, ListenAndServe, ServerShutdownBegins, ServerShutdownEnds, ServerStep
<1> QED BY <1>2, <1>3, <1>4, <1>5, <1>6, <1>7, <1>8 DEF Next

\* The invariant holds at first ...
LEMMA InitInv == Init => Inv
PROOF
<1> SUFFICES ASSUME Init PROVE Inv OBVIOUS
<1>1. MetricsExact
  <2>1. /\ {r \in Requests : request[r] = "handled"} = {}
        /\ {r \in Requests : request[r] = "answered"} = {}
    BY DEF Init
  <2> QED BY <2>1, FS_EmptySet DEF Init, MetricsExact
<1>2. TypeOK
  <2>1. deferred \in Seq({"wait", "stop", "cancel"}) BY DEF Init
  <2>2. loaded \in [Shards -> Nat] /\ \A s \in Shards : loaded[s] <= Records[s]
    BY ProcessAssumption DEF Init
  <2> QED BY <2>1, <2>2 DEF Init, TypeOK
<1>3. StoreSound /\ DrainSound BY DEF Init, StoreSound, DrainSound
<1> QED BY <1>1, <1>2, <1>3 DEF Inv

\* ... and every step keeps it.
LEMMA NextInv == Inv /\ [Next]_vars => Inv'
PROOF
<1>1. Inv /\ Next => Inv'
  BY NextType, NextStoreSound, NextMetrics, NextDrainSound DEF Inv
<1>2. Inv /\ UNCHANGED vars => Inv'
  BY DEF Inv, TypeOK, StoreSound, MetricsExact, DrainSound, vars, storeVars, mainVars,
         serverVars, requestVars
<1> QED BY <1>1, <1>2

-----------------------------------------------------------------------------
(* The theorems *)

\* The inductive invariant holds in every state.
THEOREM Invariance == Spec => []Inv
PROOF BY InitInv, NextInv, PTL DEF Spec

\* Type correctness.
THEOREM TypeCorrect == Spec => []TypeOK
PROOF
<1>1. Inv => TypeOK BY DEF Inv
<1> QED BY <1>1, Invariance, PTL

\* A store that is handed to the server without an error has every record of every file, and
\* unless the process has been told to stop, nobody has stopped a goroutine of its shards.
THEOREM ReadyIsComplete == Spec => []ReadyComplete
PROOF
<1>1. Inv => ReadyComplete BY DEF Inv, StoreSound, ReadyComplete
<1> QED BY <1>1, Invariance, PTL

\* The gauge and the counter are exact for any number of requests.
THEOREM MetricsAreExact == Spec => []MetricsExact
PROOF
<1>1. Inv => MetricsExact BY DEF Inv
<1> QED BY <1>1, Invariance, PTL

\* The order of the deferred calls makes the process wait for its requests until the 30
\* seconds are over.
THEOREM ShutdownWaits == Spec => []ShutdownDrains
PROOF
<1>1. Inv => ShutdownDrains BY DEF Inv, DrainSound, ShutdownDrains
<1> QED BY <1>1, Invariance, PTL
=============================================================================
