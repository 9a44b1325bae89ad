------------------------------- MODULE Process -------------------------------
(***************************************************************************)
(* The life of the process (src/main.go) as a reverse proxy with the cache *)
(* in files: the shards load their files at the same time in an errgroup   *)
(* (NewFileCacheStore), the server takes requests, which are counted by    *)
(* the metrics' middleware, and a signal, which may come at any time, ends *)
(* it all by way of main's deferred calls.                                 *)
(*                                                                         *)
(* What a shard loads is its number of records; what is done with them is  *)
(* in Restart and FileShard.  Of a request there is what main and the      *)
(* metrics see of it: a GET, or something the cache is not asked for.      *)
(***************************************************************************)
EXTENDS Naturals, FiniteSets, Sequences

CONSTANTS
  Shards,
  Records,  \* Records[s]: how many records are in the file of s
  Requests  \* each is sent once

ASSUME ProcessAssumption ==
  Records \in [Shards -> Nat] /\ IsFiniteSet(Shards) /\ IsFiniteSet(Requests)

VARIABLES
  ctxDone,    \* a signal has come: ctx is done
  load,       \* load[s]: what Init of s does, "loading", "ok" or "failed"
  loaded,     \* loaded[s]: the records in its index
  shardLoops, \* shardLoops[s][g]: its goroutine g; "stopped" has heard a context, "failed" has not
  errctxDone, \* the errgroup's context is cancelled
  cacheStore, \* what GetCacheStoreFromConfig has returned
  main,       \* where main is: "start", "serve", "returns", "exited"
  deferred,   \* the deferred calls main has still to make, the next one first
  limiterLoop,    \* the goroutine of DeleteDontUseLimiters
  server,         \* the http.Server: draining once Shutdown has closed its listener
  serverShutdown, \* the goroutine that calls server.Shutdown
  ctxTimeout,     \* its context
  request,        \* request[r]: how far it is
  isGet,          \* isGet[r]: it asks the cache
  httpReqCurrent, \* the gauge
  httpReqTotal    \* the counter

storeVars   == <<load, loaded, shardLoops, errctxDone, cacheStore>>
mainVars    == <<main, deferred, ctxTimeout>>
serverVars  == <<server, serverShutdown>>
requestVars == <<request, isGet, httpReqCurrent, httpReqTotal>>
vars == <<ctxDone, storeVars, mainVars, limiterLoop, serverVars, requestVars>>

\* The two goroutines Init starts for a shard.
Loops == {"checkTrigger", "StartDeleteExp"}

-----------------------------------------------------------------------------
Init ==
  /\ ctxDone = FALSE
  /\ load = [s \in Shards |-> "loading"] /\ loaded = [s \in Shards |-> 0]
  /\ shardLoops = [s \in Shards |-> [g \in Loops |-> "none"]]
  /\ errctxDone = FALSE /\ cacheStore = "none"
  /\ main = "start" /\ deferred = <<>> /\ ctxTimeout = "none"
  /\ limiterLoop = "running"
  /\ server = "new" /\ serverShutdown = "none"
  /\ request = [r \in Requests |-> "none"] /\ isGet \in [Requests -> BOOLEAN]
  /\ httpReqCurrent = 0 /\ httpReqTotal = 0

Alive == main # "exited"

\* SIGINT or SIGTERM; NotifyContext swallows a second one.
Signal ==
  /\ Alive /\ ~ctxDone
  /\ ctxDone' = TRUE
  /\ UNCHANGED <<storeVars, mainVars, limiterLoop, serverVars, requestVars>>

-----------------------------------------------------------------------------
(* NewFileCacheStore *)

StoreStep == UNCHANGED <<ctxDone, mainVars, limiterLoop, serverVars, requestVars>>
Starting  == main = "start" /\ cacheStore = "none" /\ StoreStep

InitCancelled == errctxDone \/ ctxDone

\* One round of initIndexFromFile.
LoadsRecord(s) ==
  /\ Starting /\ load[s] = "loading"
  /\ ~InitCancelled /\ loaded[s] < Records[s]
  /\ loaded' = [loaded EXCEPT ![s] = @ + 1]
  /\ UNCHANGED <<load, shardLoops, errctxDone, cacheStore>>

\* The end of the file, or of the context, which is no error: the goroutines start.
InitReturns(s) ==
  /\ Starting /\ load[s] = "loading"
  /\ InitCancelled \/ loaded[s] = Records[s]
  /\ load' = [load EXCEPT ![s] = "ok"]
  /\ shardLoops' = [shardLoops EXCEPT ![s] = [g \in Loops |-> "running"]]
  /\ UNCHANGED <<loaded, errctxDone, cacheStore>>

\* A read fails, perhaps in a round begun before a cancellation: the errgroup cancels the
\* context of the others.
InitFails(s) ==
  /\ Starting /\ load[s] = "loading"
  /\ load' = [load EXCEPT ![s] = "failed"]
  /\ errctxDone' = TRUE
  /\ UNCHANGED <<loaded, shardLoops, cacheStore>>

\* wg.Wait.  After an error the store is a nil *FileCacheStore, in an interface that is
\* not nil; main goes on with it.
StoreReturns ==
  /\ Starting
  /\ \A s \in Shards : load[s] # "loading"
  /\ cacheStore' = IF \E s \in Shards : load[s] = "failed" THEN "nil" ELSE "ready"
  /\ errctxDone' = TRUE
  /\ UNCHANGED <<load, loaded, shardLoops>>

\* newFileShards cannot open one of the files: no shard is started.
NewFileShardsFails ==
  /\ Starting
  /\ \A s \in Shards : load[s] = "loading" /\ loaded[s] = 0
  /\ load' = [s \in Shards |-> "failed"]
  /\ cacheStore' = "nil"
  /\ UNCHANGED <<loaded, shardLoops, errctxDone>>

\* Mutant: Init hands the errgroup's context to the goroutines as well.
ShardLoopEnds_WithErrctx(s, g) ==
  /\ Alive /\ StoreStep
  /\ shardLoops[s][g] = "running" /\ InitCancelled
  /\ shardLoops' = [shardLoops EXCEPT ![s][g] = "stopped"]
  /\ UNCHANGED <<load, loaded, errctxDone, cacheStore>>

\* A goroutine of a shard hears that ctx is done, that of a store thrown away too.
ShardLoopEnds(s, g) ==
  /\ Alive /\ StoreStep
  /\ shardLoops[s][g] = "running" /\ ctxDone
  /\ shardLoops' = [shardLoops EXCEPT ![s][g] = "stopped"]
  /\ UNCHANGED <<load, loaded, errctxDone, cacheStore>>

\* Or it ends of itself, and nobody is told but the log: StartDeleteExp when DeleteExp
\* returns an error, either one when SafeGo's rec swallows a panic.
ShardLoopFails(s, g) ==
  /\ Alive /\ StoreStep
  /\ shardLoops[s][g] = "running"
  /\ shardLoops' = [shardLoops EXCEPT ![s][g] = "failed"]
  /\ UNCHANGED <<load, loaded, errctxDone, cacheStore>>

-----------------------------------------------------------------------------
(* The server and its requests *)

RequestStep == Alive /\ UNCHANGED <<ctxDone, storeVars, mainVars, limiterLoop, serverVars>>

\* Mutant: the Inc is missing, and the Dec is not.
Arrives_NotCounted(r) ==
  /\ RequestStep /\ request[r] = "none"
  /\ server \in {"listening", "draining"} /\ serverShutdown # "ok"
  /\ request' = [request EXCEPT ![r] = "handled"]
  /\ UNCHANGED <<isGet, httpReqCurrent, httpReqTotal>>

\* A handler starts: MetricMiddleware counts it in.  Connections that were accepted go on
\* being served until Shutdown has found them all idle.
Arrives(r) ==
  /\ RequestStep /\ request[r] = "none"
  /\ server \in {"listening", "draining"} /\ serverShutdown # "ok"
  /\ request' = [request EXCEPT ![r] = "handled"]
  /\ httpReqCurrent' = httpReqCurrent + 1
  /\ UNCHANGED <<isGet, httpReqTotal>>

\* next.ServeHTTP has returned, and the request is counted.
Returns(r) ==
  /\ RequestStep /\ request[r] = "handled"
  /\ isGet[r] => cacheStore = "ready"
  /\ request' = [request EXCEPT ![r] = "answered"]
  /\ httpReqTotal' = httpReqTotal + 1 /\ httpReqCurrent' = httpReqCurrent - 1
  /\ UNCHANGED isGet

\* Mutant: Dec is not deferred.
Panics_NotDeferred(r) ==
  /\ RequestStep /\ request[r] = "handled"
  /\ isGet[r] /\ cacheStore = "nil"
  /\ request' = [request EXCEPT ![r] = "aborted"]
  /\ UNCHANGED <<isGet, httpReqCurrent, httpReqTotal>>

\* Get of a nil store panics: net/http recovers, and what is deferred is run.
Panics(r) ==
  /\ RequestStep /\ request[r] = "handled"
  /\ isGet[r] /\ cacheStore = "nil"
  /\ request' = [request EXCEPT ![r] = "aborted"]
  /\ httpReqCurrent' = httpReqCurrent - 1
  /\ UNCHANGED <<isGet, httpReqTotal>>

ServerStep == Alive /\ UNCHANGED <<ctxDone, storeVars, mainVars, limiterLoop, requestVars>>

\* ListenAndServe, in a goroutine: it listens, or fails, which is only logged; once Shutdown
\* has been called, it does not start.
ListenAndServe ==
  /\ ServerStep /\ main # "start" /\ server = "new"
  /\ server' \in {"listening", "failed"}
  /\ UNCHANGED serverShutdown

ServerShutdownBegins ==
  /\ ServerStep /\ serverShutdown = "started"
  /\ serverShutdown' = "waiting"
  /\ server' = IF server = "listening" THEN "draining" ELSE "closed"

ServerShutdownEnds ==
  /\ ServerStep /\ serverShutdown = "waiting"
  /\ \/ serverShutdown' = "ok" /\ \A r \in Requests : request[r] # "handled"
     \/ serverShutdown' = "error" /\ ctxTimeout \in {"expired", "stopped"}
  /\ UNCHANGED server

-----------------------------------------------------------------------------
(* main *)

MainStep == UNCHANGED <<ctxDone, storeVars, limiterLoop, server, requestVars>>

Serve ==
  /\ MainStep /\ main = "start" /\ cacheStore # "none"
  /\ main' = "serve"
  /\ UNCHANGED <<deferred, ctxTimeout, serverShutdown>>

\* Mutant: the two defer statements are the other way round.
DeferredCalls_StopFirst == <<"stop", "wait", "cancel">>

\* The defer statements of main, last in first out.
DeferredCalls == <<"wait", "stop", "cancel">>

\* <-ctx.Done() returns, the Shutdowns are started (ReversProxy's does nothing), and main
\* returns.
ShutDown ==
  /\ MainStep /\ main = "serve" /\ ctxDone
  /\ main' = "returns" /\ deferred' = DeferredCalls
  /\ serverShutdown' = "started" /\ ctxTimeout' = "running"

Calls(name) ==
  /\ MainStep /\ main = "returns"
  /\ deferred # <<>> /\ Head(deferred) = name
  /\ deferred' = Tail(deferred)
  /\ UNCHANGED <<main, serverShutdown>>

\* wg.Wait: for the sweep of the limiters and for the Shutdowns.
Waits ==
  /\ Calls("wait")
  /\ limiterLoop = "ended" /\ serverShutdown \in {"ok", "error"}
  /\ UNCHANGED ctxTimeout

Stops ==
  /\ Calls("stop")
  /\ ctxTimeout' = IF ctxTimeout = "running" THEN "stopped" ELSE ctxTimeout

Cancels == Calls("cancel") /\ UNCHANGED ctxTimeout

\* The process is gone, with whatever still runs in it.
Exits ==
  /\ MainStep /\ main = "returns" /\ deferred = <<>>
  /\ main' = "exited"
  /\ UNCHANGED <<deferred, ctxTimeout, serverShutdown>>

\* The 30 seconds are over.
TimesOut ==
  /\ Alive /\ ctxTimeout = "running"
  /\ ctxTimeout' = "expired"
  /\ UNCHANGED <<ctxDone, storeVars, main, deferred, limiterLoop, serverVars, requestVars>>

\* Mutant: the loop watches its ticker only.
LimiterLoopEnds_Never == FALSE /\ UNCHANGED vars

LimiterLoopEnds ==
  /\ Alive /\ limiterLoop = "running" /\ ctxDone
  /\ limiterLoop' = "ended"
  /\ UNCHANGED <<ctxDone, storeVars, mainVars, serverVars, requestVars>>

-----------------------------------------------------------------------------
NewFileCacheStore ==
  \/ \E s \in Shards : LoadsRecord(s) \/ InitReturns(s) \/ InitFails(s)
  \/ StoreReturns \/ NewFileShardsFails

Main == Serve \/ ShutDown \/ Waits \/ Stops \/ Cancels \/ Exits

Server == ListenAndServe \/ ServerShutdownBegins \/ ServerShutdownEnds

Next ==
  \/ Signal \/ TimesOut
  \/ NewFileCacheStore
  \/ \E s \in Shards, g \in Loops : ShardLoopEnds(s, g) \/ ShardLoopFails(s, g)
  \/ Main \/ LimiterLoopEnds \/ Server
  \/ \E r \in Requests : Arrives(r) \/ Returns(r) \/ Panics(r)

Spec == Init /\ [][Next]_vars

\* Goroutines run, files have an end, and 30 seconds pass.  Nothing is assumed of requests:
\* an origin may be silent for ever.
FairSpec ==
  /\ Spec
  /\ WF_vars(NewFileCacheStore) /\ WF_vars(Main) /\ WF_vars(LimiterLoopEnds)
  /\ WF_vars(ServerShutdownBegins) /\ WF_vars(ServerShutdownEnds) /\ WF_vars(TimesOut)

-----------------------------------------------------------------------------
(* Properties *)

\* Type invariant.
TypeOK ==
  /\ ctxDone \in BOOLEAN /\ errctxDone \in BOOLEAN
  /\ load \in [Shards -> {"loading", "ok", "failed"}]
  /\ loaded \in [Shards -> Nat] /\ \A s \in Shards : loaded[s] <= Records[s]
  /\ shardLoops \in [Shards -> [Loops -> {"none", "running", "stopped", "failed"}]]
  /\ limiterLoop \in {"running", "ended"}
  /\ cacheStore \in {"none", "nil", "ready"}
  /\ main \in {"start", "serve", "returns", "exited"}
  /\ deferred \in Seq({"wait", "stop", "cancel"})
  /\ server \in {"new", "listening", "failed", "draining", "closed"}
  /\ serverShutdown \in {"none", "started", "waiting", "ok", "error"}
  /\ ctxTimeout \in {"none", "running", "expired", "stopped"}
  /\ request \in [Requests -> {"none", "handled", "answered", "aborted"}]
  /\ isGet \in [Requests -> BOOLEAN]
  /\ httpReqCurrent \in Nat /\ httpReqTotal \in Nat

\* The store that requests get has all that was in the files, and its goroutines were
\* started; unless the process has been told to stop, none of them has been stopped: no shard
\* is cut short by what happens to another or by the end of the errgroup, and no shard that
\* failed to load goes unnoticed.  (A goroutine that ended of itself does go unnoticed.)
ReadyComplete ==
  cacheStore = "ready" /\ ~ctxDone =>
    \A s \in Shards : /\ loaded[s] = Records[s]
                     /\ \A g \in Loops : shardLoops[s][g] \in {"running", "failed"}

\* The gauge is the number of requests that are being handled, and the counter that of the
\* requests answered: also when the cache could not be built and every GET panics.
MetricsExact ==
  /\ httpReqCurrent = Cardinality({r \in Requests : request[r] = "handled"})
  /\ httpReqTotal = Cardinality({r \in Requests : request[r] = "answered"})

\* The process exits under a request only when the 30 seconds are over.
ShutdownDrains ==
  main = "exited" /\ ctxTimeout # "expired" => \A r \in Requests : request[r] # "handled"

\* A signal ends the process, whenever it comes, the start included, and whatever the
\* requests do.
SignalEndsProcess == ctxDone ~> (main = "exited")
=============================================================================
