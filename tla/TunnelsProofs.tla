---------------------------- MODULE TunnelsProofs ----------------------------
(***************************************************************************)
(* Proofs about Tunnels: its type invariant, the two accounts of           *)
(* ConnManager, that no connection is left open, and what Shutdown has     *)
(* done when it returns.  The inductive invariant is Inv.                  *)
(***************************************************************************)
EXTENDS Tunnels, FiniteSetTheorems, TLAPS

-----------------------------------------------------------------------------
(* The inductive invariant *)

\* How far the handler is bounds what there is of the session: no target before the
\* dial, no client before the hijack, no goroutine before Start.
Stages ==
  \A s \in Sessions :
    /\ handler[s] \in {"request", "failed"} => target[s] # "open"
    /\ handler[s] \in {"request", "dialled", "failed"} => client[s] # "open"
    /\ handler[s] # "done" =>
         onseMajor[s] = "free" /\ \A d \in Directions : copier[s][d] = "none"

\* One goroutine at most is inside sessionClose, while the once is taken; once it was
\* taken both connections are closed for good.
OnceOwned ==
  \A s \in Sessions :
    /\ \A d \in Directions : copier[s][d] = "closing" => onseMajor[s] = "running"
    /\ \A d, e \in Directions :
         copier[s][d] = "closing" /\ copier[s][e] = "closing" => d = e
    /\ onseMajor[s] # "free" => target[s] = "closed" /\ client[s] = "closed"

\* What the sweep has passed is closed, and once the waiter has been woken, what was found is
\* deregistered.  No session enters found late: a handler on its way to Register is not in
\* it.  The waiter panics over a counter that is not zero, and nothing happens after that.
SweepSound ==
  /\ shutdown = "no" => found = {}
  /\ shutdown \in {"no", "sweep"} <=> waiter = "none"
  /\ shutdown \notin {"no", "sweep"} => sweep = {}
  /\ shutdown = "ok" => waiter = "returned"
  /\ waiter = "panicked" => wg # 0
  /\ \A s \in found :
       /\ handler[s] \in {"inserted", "done"}
       /\ s \notin sweep => ~IsOpen(s)
       /\ waiter \in {"woken", "returned", "panicked"} => s \notin conns

Inv == TypeOK /\ Stages /\ OnceOwned /\ AccountsExact /\ SweepSound

-----------------------------------------------------------------------------
(* The conjuncts of the invariant, one lemma each *)

\* What the counter counts is a finite set.
LEMMA CountedFinite == IsFiniteSet({s \in Sessions : Counted(s)})
PROOF BY FS_Subset, SessionsAssumption

\* Every step keeps the types; the counter stays a number because a session that is
\* deregistered is one of those it counts.
LEMMA NextType ==
  ASSUME Inv, Next
  PROVE  TypeOK'
PROOF
<1> USE DEF TypeOK, sessionVars, managerVars, shutdownVars
<1>1. ASSUME NEW s \in Sessions, Handler(s) PROVE TypeOK'
  <2>1. CASE Dial(s) BY <2>1 DEF Inv, Dial
  <2>2. CASE DialFails(s) BY <2>2 DEF Inv, DialFails
  <2>3. CASE Hijack(s) BY <2>3 DEF Inv, Hijack
  <2>4. CASE HijackFails(s) BY <2>4 DEF Inv, HijackFails
  <2>5. CASE SendSuccess(s) BY <2>5 DEF Inv, SendSuccess
  <2>6. CASE SendSuccessFails(s) BY <2>6 DEF Inv, SendSuccessFails
  <2>7. CASE RegisterCounts(s) BY <2>7 DEF Inv, RegisterCounts
  <2>8. CASE RegisterInserts(s) BY <2>8 DEF Inv, RegisterInserts
  <2>9. CASE Start(s) BY <2>9 DEF Inv, Start
  <2> QED BY <1>1, <2>1, <2>2, <2>3, <2>4, <2>5, <2>6, <2>7, <2>8, <2>9 DEF Handler
<1>2. ASSUME NEW s \in Sessions, NEW d \in Directions,
             Send(s, d) \/ Copy(s, d) \/ TransferEnds(s, d) \/ Closing(s, d)
      PROVE  TypeOK'
  <2>1. CASE Send(s, d) BY <2>1 DEF Inv, Send
  <2>2. CASE Copy(s, d) BY <2>2 DEF Inv, Copy
  <2>3. CASE TransferEnds(s, d) BY <2>3 DEF Inv, TransferEnds, CloseBoth
  <2>4. CASE SessionCloses(s, d) BY <2>4 DEF Inv, SessionCloses, CloseBoth
  <2>5. CASE Deregister(s, d)
    <3>1. wg - 1 \in Nat
      <4>1. Counted(s) BY <2>5 DEF Inv, Deregister, Stages, OnceOwned, Counted
      <4>2. Cardinality({x \in Sessions : Counted(x)}) # 0
        BY <4>1, FS_EmptySet, FS_Subset, SessionsAssumption
      <4> QED BY <4>2 DEF Inv, AccountsExact
    <3> QED BY <2>5, <3>1 DEF Inv, Deregister
  <2>6. CASE OnceReturns(s, d) BY <2>6 DEF Inv, OnceReturns
  <2> QED BY <1>2, <2>1, <2>2, <2>3, <2>4, <2>5, <2>6 DEF Closing
<1>3. ASSUME Shutdown PROVE TypeOK'
  <2>1. CASE ShutdownBegins BY <2>1 DEF Inv, ShutdownBegins
  <2>2. CASE SweepEnds BY <2>2 DEF Inv, SweepEnds
  <2>3. CASE WaitBegins BY <2>3 DEF Inv, WaitBegins
  <2>7. CASE WaitReturns BY <2>7 DEF Inv, WaitReturns
  <2>4. CASE ShutdownReturns BY <2>4 DEF Inv, ShutdownReturns
  <2>5. CASE ShutdownTimesOut BY <2>5 DEF Inv, ShutdownTimesOut
  <2>6. ASSUME NEW s \in Sessions, SweepCloses(s) PROVE TypeOK'
    BY <2>6 DEF Inv, SweepCloses, CloseBoth
  <2> QED BY <1>3, <2>1, <2>2, <2>3, <2>4, <2>5, <2>6, <2>7 DEF Shutdown
<1> QED BY <1>1, <1>2, <1>3 DEF Next
\* A step moves a handler and what its session has together.
LEMMA NextStages ==
  ASSUME Inv, Next
  PROVE  Stages'
PROOF
<1> USE DEF Inv, TypeOK, Stages, IsOpen, sessionVars, managerVars, shutdownVars
<1>1. ASSUME NEW s \in Sessions, Handler(s) PROVE Stages'
  <2>1. CASE Dial(s) BY <2>1 DEF Dial
  <2>2. CASE DialFails(s) BY <2>2 DEF DialFails
  <2>3. CASE Hijack(s) BY <2>3 DEF Hijack
  <2>4. CASE HijackFails(s) BY <2>4 DEF HijackFails
  <2>5. CASE SendSuccess(s) BY <2>5 DEF SendSuccess
  <2>6. CASE SendSuccessFails(s) BY <2>6 DEF SendSuccessFails
  <2>7. CASE RegisterCounts(s) BY <2>7 DEF RegisterCounts
  <2>8. CASE RegisterInserts(s) BY <2>8 DEF RegisterInserts
  <2>9. CASE Start(s) BY <2>9 DEF Start
  <2> QED BY <1>1, <2>1, <2>2, <2>3, <2>4, <2>5, <2>6, <2>7, <2>8, <2>9 DEF Handler
<1>2. ASSUME NEW s \in Sessions, NEW d \in Directions,
             Send(s, d) \/ Copy(s, d) \/ TransferEnds(s, d) \/ Closing(s, d)
      PROVE  Stages'
  <2>1. CASE Send(s, d) BY <2>1 DEF Send
  <2>2. CASE Copy(s, d) BY <2>2 DEF Copy
  <2>3. CASE TransferEnds(s, d) BY <2>3 DEF TransferEnds, CloseBoth
  <2>4. CASE SessionCloses(s, d) BY <2>4 DEF SessionCloses, CloseBoth
  <2>5. CASE Deregister(s, d) BY <2>5 DEF Deregister
  <2>6. CASE OnceReturns(s, d) BY <2>6 DEF OnceReturns
  <2> QED BY <1>2, <2>1, <2>2, <2>3, <2>4, <2>5, <2>6 DEF Closing
<1>3. ASSUME Shutdown PROVE Stages'
  <2>1. CASE ShutdownBegins BY <2>1 DEF ShutdownBegins
  <2>2. CASE SweepEnds BY <2>2 DEF SweepEnds
  <2>3. CASE WaitBegins BY <2>3 DEF WaitBegins
  <2>7. CASE WaitReturns BY <2>7 DEF WaitReturns
  <2>4. CASE ShutdownReturns BY <2>4 DEF ShutdownReturns
  <2>5. CASE ShutdownTimesOut BY <2>5 DEF ShutdownTimesOut
  <2>6. ASSUME NEW s \in Sessions, SweepCloses(s) PROVE Stages'
    BY <2>6 DEF SweepCloses, CloseBoth
  <2> QED BY <1>3, <2>1, <2>2, <2>3, <2>4, <2>5, <2>6, <2>7 DEF Shutdown
<1> QED BY <1>1, <1>2, <1>3 DEF Next

\* The once is taken by one goroutine and given back by the same; nothing that is closed
\* here is opened again, because Dial and Hijack come before the goroutines.
LEMMA NextOnceOwned ==
  ASSUME Inv, Next
  PROVE  OnceOwned'
PROOF
<1> USE DEF Inv, TypeOK, Stages, OnceOwned, sessionVars, managerVars, shutdownVars
<1>1. ASSUME NEW s \in Sessions, Handler(s) PROVE OnceOwned'
  <2>1. CASE Dial(s) BY <2>1 DEF Dial
  <2>2. CASE DialFails(s) BY <2>2 DEF DialFails
  <2>3. CASE Hijack(s) BY <2>3 DEF Hijack
  <2>4. CASE HijackFails(s) BY <2>4 DEF HijackFails
  <2>5. CASE SendSuccess(s) BY <2>5 DEF SendSuccess
  <2>6. CASE SendSuccessFails(s) BY <2>6 DEF SendSuccessFails
  <2>7. CASE RegisterCounts(s) BY <2>7 DEF RegisterCounts
  <2>8. CASE RegisterInserts(s) BY <2>8 DEF RegisterInserts
  <2>9. CASE Start(s) BY <2>9 DEF Start
  <2> QED BY <1>1, <2>1, <2>2, <2>3, <2>4, <2>5, <2>6, <2>7, <2>8, <2>9 DEF Handler
<1>2. ASSUME NEW s \in Sessions, NEW d \in Directions,
             Send(s, d) \/ Copy(s, d) \/ TransferEnds(s, d) \/ Closing(s, d)
      PROVE  OnceOwned'
  <2>1. CASE Send(s, d) BY <2>1 DEF Send
  <2>2. CASE Copy(s, d) BY <2>2 DEF Copy
  <2>3. CASE TransferEnds(s, d) BY <2>3 DEF TransferEnds, CloseBoth
  <2>4. CASE SessionCloses(s, d) BY <2>4 DEF SessionCloses, CloseBoth
  <2>5. CASE Deregister(s, d) BY <2>5 DEF Deregister
  <2>6. CASE OnceReturns(s, d) BY <2>6 DEF OnceReturns
  <2> QED BY <1>2, <2>1, <2>2, <2>3, <2>4, <2>5, <2>6 DEF Closing
<1>3. ASSUME Shutdown PROVE OnceOwned'
  <2>1. CASE ShutdownBegins BY <2>1 DEF ShutdownBegins
  <2>2. CASE SweepEnds BY <2>2 DEF SweepEnds
  <2>3. CASE WaitBegins BY <2>3 DEF WaitBegins
  <2>7. CASE WaitReturns BY <2>7 DEF WaitReturns
  <2>4. CASE ShutdownReturns BY <2>4 DEF ShutdownReturns
  <2>5. CASE ShutdownTimesOut BY <2>5 DEF ShutdownTimesOut
  <2>6. ASSUME NEW s \in Sessions, SweepCloses(s) PROVE OnceOwned'
    BY <2>6 DEF SweepCloses, CloseBoth
  <2> QED BY <1>3, <2>1, <2>2, <2>3, <2>4, <2>5, <2>6, <2>7 DEF Shutdown
<1> QED BY <1>1, <1>2, <1>3 DEF Next

\* A step that counts and uncounts nobody leaves both accounts exact.
LEMMA SameCount ==
  ASSUME AccountsExact, UNCHANGED managerVars,
         \A s \in Sessions : Counted(s)' = Counted(s),
         \A s \in Sessions : Counted(s) => (handler'[s] = "counted" <=> handler[s] = "counted")
  PROVE  AccountsExact'
PROOF
<1>1. {s \in Sessions : Counted(s)}' = {s \in Sessions : Counted(s)} OBVIOUS
<1>2. {s \in Sessions : Counted(s) /\ handler[s] # "counted"}'
        = {s \in Sessions : Counted(s) /\ handler[s] # "counted"}
  OBVIOUS
<1> QED BY <1>1, <1>2 DEF AccountsExact, managerVars

\* wg.Add counts one session more and leaves it out of the map, the insertion puts it in,
\* Deregister takes it out of both; every other step keeps the accounts.
LEMMA NextAccounts ==
  ASSUME Inv, Next
  PROVE  AccountsExact'
PROOF
<1> DEFINE C == {s \in Sessions : Counted(s)}
<1> DEFINE M == {s \in Sessions : Counted(s) /\ handler[s] # "counted"}
<1>0. IsFiniteSet(C) BY CountedFinite
<1>a. \A s : s \notin C => Cardinality(C \cup {s}) = Cardinality(C) + 1
  <2> HIDE DEF C
  <2> QED BY <1>0, FS_AddElement
<1> USE DEF Inv, TypeOK, Stages, OnceOwned, sessionVars, managerVars, shutdownVars
<1>1. ASSUME NEW s \in Sessions, Handler(s) PROVE AccountsExact'
  <2>1. CASE RegisterCounts(s)
    <3>1. s \notin C /\ C' = C \cup {s} /\ M' = M
      BY <2>1 DEF RegisterCounts, Counted
    <3>2. Cardinality(C \cup {s}) = Cardinality(C) + 1 BY <3>1, <1>a
    <3> QED BY <2>1, <3>1, <3>2 DEF RegisterCounts, AccountsExact
  <2>2. CASE RegisterInserts(s)
    <3>1. C' = C /\ M' = M \cup {s} BY <2>2 DEF RegisterInserts, Counted
    <3> QED BY <2>2, <3>1 DEF RegisterInserts, AccountsExact
  <2>3. CASE \/ Dial(s) \/ DialFails(s) \/ Hijack(s) \/ HijackFails(s)
             \/ SendSuccess(s) \/ SendSuccessFails(s) \/ Start(s)
    BY <2>3, SameCount
       DEF Dial, DialFails, Hijack, HijackFails, SendSuccess, SendSuccessFails, Start, Counted
  <2> QED BY <1>1, <2>1, <2>2, <2>3 DEF Handler
<1>2. ASSUME NEW s \in Sessions, NEW d \in Directions,
             Send(s, d) \/ Copy(s, d) \/ TransferEnds(s, d) \/ Closing(s, d)
      PROVE  AccountsExact'
  <2>1. CASE Deregister(s, d)
    <3>1. s \in C /\ C' = C \ {s} /\ M' = M \ {s}
      BY <2>1 DEF Deregister, Counted
    <3>2. Cardinality(C') = Cardinality(C) - 1 BY <3>1, <1>0, FS_RemoveElement
    <3> QED BY <2>1, <3>1, <3>2 DEF Deregister, AccountsExact
  <2>2. CASE SessionCloses(s, d)
    BY <2>2, SameCount DEF SessionCloses, CloseBoth, Counted
  <2>3. CASE Send(s, d) \/ Copy(s, d) \/ TransferEnds(s, d) \/ OnceReturns(s, d)
    BY <2>3, SameCount DEF Send, Copy, TransferEnds, OnceReturns, CloseBoth, Counted
  <2> QED BY <1>2, <2>1, <2>2, <2>3 DEF Closing
<1>3. ASSUME Shutdown PROVE AccountsExact'
  <2>1. UNCHANGED <<handler, onseMajor, managerVars>>
    BY <1>3 DEF Shutdown, ShutdownBegins, SweepEnds, WaitBegins, WaitReturns, ShutdownReturns,
                ShutdownTimesOut, SweepCloses, CloseBoth
  <2> QED BY <2>1, SameCount DEF Counted
<1> QED BY <1>1, <1>2, <1>3 DEF Next

\* With the counter at zero the map is empty.
LEMMA NoneCounted == AccountsExact /\ wg = 0 => conns = {}
PROOF
<1> SUFFICES ASSUME AccountsExact, wg = 0 PROVE conns = {} OBVIOUS
<1>1. {x \in Sessions : Counted(x)} = {}
  BY CountedFinite, FS_EmptySet DEF AccountsExact
<1> QED BY <1>1 DEF AccountsExact

\* The sweep closes what it passes; when the counter is zero no session that was found is
\* still in the map, and none of them comes back.
LEMMA NextSweepSound ==
  ASSUME Inv, Next
  PROVE  SweepSound'
PROOF
<1>0. waiter # "panicked" BY DEF Next, Alive
<1> USE DEF Inv, TypeOK, Stages, SweepSound, IsOpen, MutexFree, sessionVars, managerVars, shutdownVars
<1>1. ASSUME NEW s \in Sessions, Handler(s) PROVE SweepSound'
  <2>1. CASE Dial(s) BY <2>1 DEF Dial
  <2>2. CASE DialFails(s) BY <2>2 DEF DialFails
  <2>3. CASE Hijack(s) BY <2>3 DEF Hijack
  <2>4. CASE HijackFails(s) BY <2>4 DEF HijackFails
  <2>5. CASE SendSuccess(s) BY <2>5 DEF SendSuccess
  <2>6. CASE SendSuccessFails(s) BY <2>6 DEF SendSuccessFails
  <2>7. CASE RegisterCounts(s) BY <1>0, <2>7 DEF RegisterCounts
  <2>8. CASE RegisterInserts(s) BY <2>8 DEF RegisterInserts
  <2>9. CASE Start(s) BY <2>9 DEF Start
  <2> QED BY <1>1, <2>1, <2>2, <2>3, <2>4, <2>5, <2>6, <2>7, <2>8, <2>9 DEF Handler
<1>2. ASSUME NEW s \in Sessions, NEW d \in Directions,
             Send(s, d) \/ Copy(s, d) \/ TransferEnds(s, d) \/ Closing(s, d)
      PROVE  SweepSound'
  <2>1. CASE Send(s, d) BY <2>1 DEF Send
  <2>2. CASE Copy(s, d) BY <2>2 DEF Copy
  <2>3. CASE TransferEnds(s, d) BY <2>3 DEF TransferEnds, CloseBoth
  <2>4. CASE SessionCloses(s, d) BY <2>4 DEF SessionCloses, CloseBoth
  <2>5. CASE Deregister(s, d)
    <3>1. waiter' = "woken" /\ waiter # "woken" => conns' = {}
      <4>1. AccountsExact' BY NextAccounts
      <4>2. IsFiniteSet({x \in Sessions : Counted(x)}') BY FS_Subset, SessionsAssumption
      <4>3. wg' = 0 => {x \in Sessions : Counted(x)}' = {}
        BY <4>1, <4>2, FS_EmptySet DEF AccountsExact
      <4>4. waiter' = "woken" /\ waiter # "woken" => wg' = 0 BY <2>5 DEF Deregister
      <4>5. AccountsExact' => conns' = {x \in Sessions : Counted(x) /\ handler[x] # "counted"}'
        BY DEF AccountsExact
      <4> QED BY <4>1, <4>3, <4>4, <4>5
    <3> QED BY <1>0, <2>5, <3>1 DEF Deregister
  <2>6. CASE OnceReturns(s, d) BY <2>6 DEF OnceReturns
  <2> QED BY <1>2, <2>1, <2>2, <2>3, <2>4, <2>5, <2>6 DEF Closing
<1>3. ASSUME Shutdown PROVE SweepSound'
  <2>1. CASE ShutdownBegins
    <3>1. \A s \in conns : handler[s] \in {"inserted", "done"} BY DEF AccountsExact, Counted
    <3> QED BY <2>1, <3>1 DEF ShutdownBegins
  <2>2. CASE SweepEnds BY <2>2 DEF SweepEnds
  <2>3. CASE WaitBegins
    <3>1. wg = 0 => conns = {} BY NoneCounted
    <3> QED BY <2>3, <3>1 DEF WaitBegins
  <2>4. CASE WaitReturns BY <2>4 DEF WaitReturns
  <2>5. CASE ShutdownReturns BY <2>5 DEF ShutdownReturns
  <2>6. CASE ShutdownTimesOut BY <2>6 DEF ShutdownTimesOut
  <2>7. ASSUME NEW s \in Sessions, SweepCloses(s) PROVE SweepSound'
    BY <2>7 DEF SweepCloses, CloseBoth
  <2> QED BY <1>3, <2>1, <2>2, <2>3, <2>4, <2>5, <2>6, <2>7 DEF Shutdown
<1> QED BY <1>1, <1>2, <1>3 DEF Next

\* The invariant holds at first ...
LEMMA InitInv == Init => Inv
PROOF
<1> SUFFICES ASSUME Init PROVE Inv OBVIOUS
<1>1. {s \in Sessions : Counted(s)} = {} BY DEF Init, Counted
<1>2. AccountsExact BY <1>1, FS_EmptySet DEF Init, AccountsExact
<1> QED BY <1>2 DEF Init, Inv, TypeOK, Stages, OnceOwned, SweepSound

\* ... and every step keeps it.
LEMMA NextInv == Inv /\ [Next]_vars => Inv'
PROOF
<1>1. Inv /\ Next => Inv'
  BY NextType, NextStages, NextOnceOwned, NextAccounts, NextSweepSound DEF Inv
<1>2. Inv /\ UNCHANGED vars => Inv'
  <2> SUFFICES ASSUME Inv, UNCHANGED vars PROVE Inv' OBVIOUS
  <2> USE DEF Inv, vars, sessionVars, managerVars, shutdownVars
  <2>1. TypeOK' /\ Stages' /\ OnceOwned' BY DEF TypeOK, Stages, OnceOwned
  <2>2. AccountsExact' BY SameCount DEF Counted
  <2>3. SweepSound' BY DEF SweepSound, IsOpen
  <2> QED BY <2>1, <2>2, <2>3
<1> QED BY <1>1, <1>2

-----------------------------------------------------------------------------
(* The theorems *)

\* The inductive invariant holds in every state.
THEOREM Invariance == Spec => []Inv
PROOF BY InitInv, NextInv, PTL DEF Spec

\* Type correctness.
THEOREM TypeCorrect == Spec => []TypeOK
PROOF
<1>1. Inv => TypeOK BY DEF Inv
<1> QED BY <1>1, Invariance, PTL

\* The counter of the wait group and the map are exact, for any number of sessions: the
\* once lets one goroutine of each deregister it, once.
THEOREM AccountsAreExact == Spec => []AccountsExact
PROOF
<1>1. Inv => AccountsExact BY DEF Inv
<1> QED BY <1>1, Invariance, PTL

\* Neither a handler that fails nor a session that ends leaves a connection open.
THEOREM NothingLeaks == Spec => []NoLeakedSocket
PROOF
<1>1. Inv => NoLeakedSocket BY DEF Inv, Stages, OnceOwned, NoLeakedSocket
<1> QED BY <1>1, Invariance, PTL

\* When the waiter panics, everything Shutdown found is closed and deregistered, and there is
\* a session it did not find.
THEOREM OnlyLateSessionsPanic == Spec => []PanicIsLate
PROOF
<1>1. ASSUME Inv PROVE PanicIsLate
  <2> SUFFICES ASSUME ~Alive PROVE PanicIsLate BY DEF PanicIsLate
  <2>1. \A s \in found : s \in Sessions /\ s \notin conns /\ ~IsOpen(s) /\ ~Counted(s)
    BY <1>1 DEF Inv, TypeOK, SweepSound, AccountsExact, Alive
  <2>2. {s \in Sessions : Counted(s)} # {}
    BY <1>1, FS_EmptySet DEF Inv, SweepSound, AccountsExact, Alive
  <2> QED BY <2>1, <2>2 DEF PanicIsLate
<1> QED BY <1>1, Invariance, PTL

\* A Shutdown without an error has closed and waited for all it found, whatever handlers
\* registered beside it.
THEOREM ShutdownIsComplete == Spec => []ShutdownCompletes
PROOF
<1>1. Inv => ShutdownCompletes BY DEF Inv, SweepSound, ShutdownCompletes
<1> QED BY <1>1, Invariance, PTL
=============================================================================
