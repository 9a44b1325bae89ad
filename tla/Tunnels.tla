------------------------------- MODULE Tunnels -------------------------------
(***************************************************************************)
(* The transparent proxy's CONNECT tunnels: TranspanentProxy's handler     *)
(* (src/initial/inbox_handler/transpanent.go), Session (session.go) and    *)
(* ConnManager (connManager.go).                                           *)
(*                                                                         *)
(* A request dials the target, hijacks the client's connection, answers    *)
(* and registers a session.  A session has two goroutines that copy, one   *)
(* for each direction; the first that ends closes both connections and     *)
(* deregisters the session.  Shutdown closes what is registered and waits  *)
(* for the sessions with a timeout, while handlers may still be on their   *)
(* way to Register: server.Shutdown runs beside it (src/main.go).          *)
(*                                                                         *)
(* Abstractions.  A direction has bytes in flight or has none.  The        *)
(* buffers of the pool are left out: a copy takes one and gives it back.   *)
(***************************************************************************)
EXTENDS Integers, FiniteSets

CONSTANT Sessions  \* the CONNECT requests there will ever be

ASSUME SessionsAssumption == IsFiniteSet(Sessions)

Directions == {"up", "down"}  \* client to target, target to client

VARIABLES
  handler,   \* handler[s]: how far HandleConnection has come
  target,    \* target[s]: the connection to the target
  client,    \* client[s]: the hijacked connection
  copier,    \* copier[s][d]: where the goroutine of that direction is
  onseMajor, \* onseMajor[s]: the sync.Once that guards sessionClose
  inFlight,  \* inFlight[s]: directions with bytes sent and not yet passed on
  conns,     \* cm.conns
  wg,        \* the counter of cm.wg
  shutdown,  \* where Shutdown is; it holds cm.mu in "sweep"
  sweep,     \* sessions the sweep has still to close
  waiter,    \* where the goroutine with cm.wg.Wait is; "returned" has closed done
  found,     \* history: the sessions that were registered when the sweep began
  cut        \* history: sessions the sweep closed with bytes in flight

sessionVars  == <<target, client, copier, onseMajor, inFlight>>
managerVars  == <<conns, wg>>
shutdownVars == <<shutdown, sweep, waiter, found, cut>>
vars == <<handler, sessionVars, managerVars, shutdownVars>>

\* Mutant: Shutdown unlocks by a defer, so it waits with the mutex held.
MutexFree_HeldWhileWaiting == shutdown \notin {"sweep", "wait"}

MutexFree == shutdown # "sweep"

\* The waiter is a bare goroutine: its panic is the end of the process.
Alive == waiter # "panicked"

Init ==
  /\ handler = [s \in Sessions |-> "request"]
  /\ target = [s \in Sessions |-> "none"] /\ client = [s \in Sessions |-> "none"]
  /\ copier = [s \in Sessions |-> [d \in Directions |-> "none"]]
  /\ onseMajor = [s \in Sessions |-> "free"]
  /\ inFlight = [s \in Sessions |-> {}]
  /\ conns = {} /\ wg = 0
  /\ shutdown = "no" /\ sweep = {} /\ waiter = "none" /\ found = {} /\ cut = {}

-----------------------------------------------------------------------------
(* HandleConnection *)

Dial(s) ==
  /\ handler[s] = "request"
  /\ handler' = [handler EXCEPT ![s] = "dialled"]
  /\ target' = [target EXCEPT ![s] = "open"]
  /\ UNCHANGED <<client, copier, onseMajor, inFlight, managerVars, shutdownVars>>

\* The target does not answer: Bad Gateway to the hijacked client, or an error page.
DialFails(s) ==
  /\ handler[s] = "request"
  /\ handler' = [handler EXCEPT ![s] = "failed"]
  /\ client' \in {client, [client EXCEPT ![s] = "closed"]}
  /\ UNCHANGED <<target, copier, onseMajor, inFlight, managerVars, shutdownVars>>

Hijack(s) ==
  /\ handler[s] = "dialled"
  /\ handler' = [handler EXCEPT ![s] = "hijacked"]
  /\ client' = [client EXCEPT ![s] = "open"]
  /\ UNCHANGED <<target, copier, onseMajor, inFlight, managerVars, shutdownVars>>

\* Mutant: the connection to the target is left open.
HijackFails_KeepsTarget(s) ==
  /\ handler[s] = "dialled"
  /\ handler' = [handler EXCEPT ![s] = "failed"]
  /\ UNCHANGED <<sessionVars, managerVars, shutdownVars>>

HijackFails(s) ==
  /\ handler[s] = "dialled"
  /\ handler' = [handler EXCEPT ![s] = "failed"]
  /\ target' = [target EXCEPT ![s] = "closed"]
  /\ UNCHANGED <<client, copier, onseMajor, inFlight, managerVars, shutdownVars>>

SendSuccess(s) ==
  /\ handler[s] = "hijacked"
  /\ handler' = [handler EXCEPT ![s] = "answered"]
  /\ UNCHANGED <<sessionVars, managerVars, shutdownVars>>

SendSuccessFails(s) ==
  /\ handler[s] = "hijacked"
  /\ handler' = [handler EXCEPT ![s] = "failed"]
  /\ target' = [target EXCEPT ![s] = "closed"]
  /\ client' = [client EXCEPT ![s] = "closed"]
  /\ UNCHANGED <<copier, onseMajor, inFlight, managerVars, shutdownVars>>

-----------------------------------------------------------------------------
(* Register: count, insert, start the goroutines *)

\* Mutant: the goroutines are started before the session is in the map.
RegisterCounts_StartsFirst(s) ==
  /\ handler[s] = "answered"
  /\ handler' = [handler EXCEPT ![s] = "counted"]
  /\ wg' = wg + 1
  /\ copier' = [copier EXCEPT ![s] = [d \in Directions |-> "copy"]]
  /\ UNCHANGED <<target, client, onseMajor, inFlight, conns, shutdownVars>>

RegisterCounts(s) ==
  /\ handler[s] = "answered"
  /\ handler' = [handler EXCEPT ![s] = "counted"]
  /\ wg' = wg + 1
  /\ UNCHANGED <<sessionVars, conns, shutdownVars>>

RegisterInserts(s) ==
  /\ handler[s] = "counted" /\ MutexFree
  /\ handler' = [handler EXCEPT ![s] = "inserted"]
  /\ conns' = conns \cup {s}
  /\ UNCHANGED <<sessionVars, wg, shutdownVars>>

Start(s) ==
  /\ handler[s] = "inserted"
  /\ handler' = [handler EXCEPT ![s] = "done"]
  /\ copier' = [copier EXCEPT ![s] = [d \in Directions |-> "copy"]]
  /\ UNCHANGED <<target, client, onseMajor, inFlight, managerVars, shutdownVars>>

-----------------------------------------------------------------------------
(* The two goroutines of a session *)

IsOpen(s) == target[s] = "open" /\ client[s] = "open"

CloseBoth(s) ==
  /\ target' = [target EXCEPT ![s] = "closed"]
  /\ client' = [client EXCEPT ![s] = "closed"]

Send(s, d) ==
  /\ IsOpen(s) /\ d \notin inFlight[s]
  /\ inFlight' = [inFlight EXCEPT ![s] = @ \cup {d}]
  /\ UNCHANGED <<handler, target, client, copier, onseMajor, managerVars, shutdownVars>>

Copy(s, d) ==
  /\ copier[s][d] = "copy" /\ IsOpen(s) /\ d \in inFlight[s]
  /\ inFlight' = [inFlight EXCEPT ![s] = @ \ {d}]
  /\ UNCHANGED <<handler, target, client, copier, onseMajor, managerVars, shutdownVars>>

\* End of file, an error, or a connection closed here: both are closed by the defers.
TransferEnds(s, d) ==
  /\ copier[s][d] = "copy"
  /\ copier' = [copier EXCEPT ![s][d] = "once"]
  /\ CloseBoth(s)
  /\ UNCHANGED <<handler, onseMajor, inFlight, managerVars, shutdownVars>>

\* onseMajor.Do: the first goroutine runs sessionClose ...
SessionCloses(s, d) ==
  /\ copier[s][d] = "once" /\ onseMajor[s] = "free"
  /\ copier' = [copier EXCEPT ![s][d] = "closing"]
  /\ onseMajor' = [onseMajor EXCEPT ![s] = "running"]
  /\ CloseBoth(s)
  /\ UNCHANGED <<handler, inFlight, managerVars, shutdownVars>>

\* The Done that brings the counter to zero lets the waiter go.
Deregister(s, d) ==
  /\ copier[s][d] = "closing" /\ MutexFree
  /\ conns' = conns \ {s} /\ wg' = wg - 1
  /\ waiter' = IF wg' = 0 /\ waiter = "waiting" THEN "woken" ELSE waiter
  /\ copier' = [copier EXCEPT ![s][d] = "done"]
  /\ onseMajor' = [onseMajor EXCEPT ![s] = "done"]
  /\ UNCHANGED <<handler, target, client, inFlight, shutdown, sweep, found, cut>>

\* Mutant: the second goroutine finds the once free again.
OnceReturns_RunsAgain(s, d) ==
  /\ copier[s][d] = "once" /\ onseMajor[s] = "done"
  /\ copier' = [copier EXCEPT ![s][d] = "closing"]
  /\ UNCHANGED <<handler, target, client, onseMajor, inFlight, managerVars, shutdownVars>>

\* ... and the second waits for it to be through.
OnceReturns(s, d) ==
  /\ copier[s][d] = "once" /\ onseMajor[s] = "done"
  /\ copier' = [copier EXCEPT ![s][d] = "done"]
  /\ UNCHANGED <<handler, target, client, onseMajor, inFlight, managerVars, shutdownVars>>

-----------------------------------------------------------------------------
(* ConnManager.Shutdown *)

ShutdownBegins ==
  /\ shutdown = "no"
  /\ shutdown' = "sweep" /\ sweep' = conns /\ found' = conns
  /\ UNCHANGED <<handler, sessionVars, managerVars, waiter, cut>>

\* Mutant: the sweep forgets to close.
SweepCloses_Skips(s) ==
  /\ shutdown = "sweep" /\ s \in sweep
  /\ sweep' = sweep \ {s}
  /\ UNCHANGED <<handler, sessionVars, managerVars, shutdown, waiter, found, cut>>

SweepCloses(s) ==
  /\ shutdown = "sweep" /\ s \in sweep
  /\ CloseBoth(s)
  /\ cut' = IF IsOpen(s) /\ inFlight[s] # {} THEN cut \cup {s} ELSE cut
  /\ sweep' = sweep \ {s}
  /\ UNCHANGED <<handler, copier, onseMajor, inFlight, managerVars, shutdown, waiter, found>>

SweepEnds ==
  /\ shutdown = "sweep" /\ sweep = {}
  /\ shutdown' = "wait" /\ waiter' = "started"
  /\ UNCHANGED <<handler, sessionVars, managerVars, sweep, found, cut>>

\* Mutant: nobody looks at the counter.
WaitBegins_AtOnce ==
  /\ waiter = "started"
  /\ waiter' = "returned"
  /\ UNCHANGED <<handler, sessionVars, managerVars, shutdown, sweep, found, cut>>

\* The goroutine that waits: it stays behind when Shutdown has timed out.
WaitBegins ==
  /\ waiter = "started"
  /\ waiter' = IF wg = 0 THEN "returned" ELSE "waiting"
  /\ UNCHANGED <<handler, sessionVars, managerVars, shutdown, sweep, found, cut>>

\* Between the last Done and its turn to run a handler may have called Register: the
\* counter is not zero any more, and Wait panics ("WaitGroup is reused before previous Wait
\* has returned").
WaitReturns ==
  /\ waiter = "woken"
  /\ waiter' = IF wg = 0 THEN "returned" ELSE "panicked"
  /\ UNCHANGED <<handler, sessionVars, managerVars, shutdown, sweep, found, cut>>

ShutdownReturns ==
  /\ shutdown = "wait" /\ waiter = "returned"
  /\ shutdown' = "ok"
  /\ UNCHANGED <<handler, sessionVars, managerVars, sweep, waiter, found, cut>>

ShutdownTimesOut ==
  /\ shutdown = "wait"
  /\ shutdown' = "timeout"
  /\ UNCHANGED <<handler, sessionVars, managerVars, sweep, waiter, found, cut>>

-----------------------------------------------------------------------------
Handler(s) ==
  \/ Dial(s) \/ DialFails(s) \/ Hijack(s) \/ HijackFails(s)
  \/ SendSuccess(s) \/ SendSuccessFails(s)
  \/ RegisterCounts(s) \/ RegisterInserts(s) \/ Start(s)

Closing(s, d) == SessionCloses(s, d) \/ Deregister(s, d) \/ OnceReturns(s, d)

Shutdown ==
  \/ ShutdownBegins \/ SweepEnds \/ ShutdownReturns \/ ShutdownTimesOut
  \/ WaitBegins \/ WaitReturns
  \/ \E s \in Sessions : SweepCloses(s)

Next ==
  /\ Alive
  /\ \/ \E s \in Sessions : Handler(s)
     \/ \E s \in Sessions, d \in Directions :
          Send(s, d) \/ Copy(s, d) \/ TransferEnds(s, d) \/ Closing(s, d)
     \/ Shutdown

Spec == Init /\ [][Next]_vars

\* While the process lives, goroutines run; a copy ends once one of its connections is
\* closed here, but a peer may keep an open one for ever.  Nobody holds the mutex but a
\* sweep, once.
Fairness ==
  /\ \A s \in Sessions : WF_vars(Alive /\ Start(s))
  /\ \A s \in Sessions, d \in Directions :
       /\ WF_vars(Alive /\ ~IsOpen(s) /\ TransferEnds(s, d))
       /\ WF_vars(Alive /\ Closing(s, d))
  /\ WF_vars(Alive /\ ((\E s \in Sessions : SweepCloses(s)) \/ SweepEnds))
  /\ WF_vars(Alive /\ (WaitBegins \/ WaitReturns))

FairSpec == Spec /\ Fairness

-----------------------------------------------------------------------------
(* Properties *)

\* Type invariant.
TypeOK ==
  /\ handler \in [Sessions -> {"request", "dialled", "hijacked", "answered", "counted",
                               "inserted", "done", "failed"}]
  /\ target \in [Sessions -> {"none", "open", "closed"}]
  /\ client \in [Sessions -> {"none", "open", "closed"}]
  /\ copier \in [Sessions -> [Directions -> {"none", "copy", "once", "closing", "done"}]]
  /\ onseMajor \in [Sessions -> {"free", "running", "done"}]
  /\ inFlight \in [Sessions -> SUBSET Directions]
  /\ conns \subseteq Sessions /\ wg \in Nat
  /\ shutdown \in {"no", "sweep", "wait", "ok", "timeout"}
  /\ sweep \subseteq Sessions
  /\ waiter \in {"none", "started", "waiting", "woken", "returned", "panicked"}
  /\ found \subseteq Sessions /\ cut \subseteq Sessions

Counted(s) == handler[s] \in {"counted", "inserted", "done"} /\ onseMajor[s] # "done"

\* Both accounts the manager keeps are exact: the counter Shutdown waits for is the number
\* of sessions between wg.Add and wg.Done, and conns holds those from the insertion in
\* Register to Deregister.  No interleaving of the two goroutines of a session deregisters
\* it twice (the counter would go negative and panic) or not at all.
AccountsExact ==
  /\ wg = Cardinality({s \in Sessions : Counted(s)})
  /\ conns = {s \in Sessions : Counted(s) /\ handler[s] # "counted"}

\* No way out of a CONNECT leaves a connection open: not the failures of the handler,
\* not the end of a session.
NoLeakedSocket ==
  \A s \in Sessions :
    handler[s] = "failed" \/ onseMajor[s] # "free" => target[s] # "open" /\ client[s] # "open"

\* When Shutdown has returned without an error, the sessions it found are closed and
\* deregistered.
ShutdownCompletes ==
  shutdown = "ok" => \A s \in found : s \notin conns /\ ~IsOpen(s)

\* The panic of the waiter comes late and from outside: every session Shutdown found is
\* closed and deregistered by then, and the one that is counted again has come after it.
PanicIsLate ==
  ~Alive =>
    /\ \A s \in found : s \notin conns /\ ~IsOpen(s) /\ ~Counted(s)
    /\ \E s \in Sessions \ found : Counted(s)

\* One direction over, both goroutines of the session end, unless the whole process does:
\* none is left behind.
BothEnd ==
  \A s \in Sessions : (\E d \in Directions : copier[s][d] = "once")
                        ~> (~Alive \/ \A d \in Directions : copier[s][d] = "done")

\* A session that Shutdown finds comes to its end, whether or not its peers do anything.
FoundEnds == \A s \in Sessions : (s \in found) ~> (s \notin conns)

\* What the comment in Shutdown says: it waits for the data transfer to complete.
TransfersComplete == cut = {}
=============================================================================
