--------------------------- MODULE BridgeRpc_proofs ---------------------------
(***************************************************************************)
(* Theorems about BridgeRpc, for any set of callers, any number of         *)
(* generations and any retry limit.  Type correctness comes first; then    *)
(* three inductive invariants, the last two resting on the first: who is   *)
(* where while the controlling thread holds the recovery transaction       *)
(* (IInv), how a generation ends (Ends), and where a request and its       *)
(* answer are (Requests).  The safety properties follow from them, and     *)
(* that the client implements the contract AtMostOnceRpc.                  *)
(***************************************************************************)
EXTENDS BridgeRpc, TLAPS

----------------------------------------------------------------------------
(* The inductive invariant *)

\* Places of the controlling thread where it holds _recovery_owner
Owning == {"booting", "assess", "kill", "retry", "spawning", "spawned", "replaying"}

\* A call of an application thread is counted from the gate to its return; the
\* call the controlling thread is making is cur.
CallPlaces ==
  \A c \in Calls :
    /\ pc[c] \in {"idle", "done"} => c \notin active
    /\ c \in Ext /\ pc[c] \notin {"idle", "done"} => c \in active
    /\ c \in Ctl /\ pc[c] \notin {"idle", "done"} => cur = c

\* The transaction, the probe and the call in hand follow the controlling thread
CtlPlaces ==
  /\ cur # Sentinel => ctl \in {"booting", "probing", "replaying"}
  /\ owner <=> ctl \in Owning
  /\ probe <=> ctl = "probing"

\* Only the current process may be alive, and not when the next is spawned
LiveIsCurrent ==
  /\ \A g \in Gens : proc[g] = "alive" => g = gen
  /\ ctl \in {"retry", "spawning"} => stopped \/ proc[gen] # "alive"

\* An entry of _pending belongs to a call between registering and dropping it,
\* and is gone before anybody answers the call
EntryPlaces ==
  /\ \A c \in Calls :
       /\ c \in pending => pc[c] \in InFlight \ {"snapped"}
       /\ slot[c] # "none" => c \notin pending /\ pc[c] \in InFlight \ {"snapped"}
  /\ \A g \in Gens : reader[g] = "popped" =>
       rcall[g] \notin pending /\ pc[rcall[g]] \notin {"idle", "admitted", "snapped"}

\* close() stays with the generation it took, for nothing is spawned after it
CloserPlaces ==
  /\ closer # "open" => stopped /\ closeGen = gen
  /\ closer \in {"joining", "closed"} => proc[closeGen] # "alive"

\* What a call remembers of its generation and its deadline
TimeoutPlaces ==
  \A c \in Calls : /\ cgen[c] <= gen
                   /\ outcome[c] = "timeout" => pc[c] \in {"cancelling", "dropping", "done"}

Places ==
  /\ CallPlaces /\ CtlPlaces /\ RecoveryExclusive /\ CallKeepsGeneration
  /\ TaintIsCurrent /\ LiveIsCurrent /\ EntryPlaces /\ CloserPlaces
  /\ TimeoutPlaces /\ TimedOutRefused

IInv == TypeOK /\ Places


----------------------------------------------------------------------------
(* Type correctness *)

LEMMA TypeInit == Init => TypeOK
<1> SUFFICES ASSUME Init PROVE TypeOK
  OBVIOUS
<1>1. 1 \in Gens /\ 0 \in 0..MaxGen /\ 0 \in 0..(MaxRetries + 1)
  BY BoundsAssumption DEF Gens
<1>2. gen \in Gens /\ timedOut \in 0..MaxGen /\ closeGen \in 0..MaxGen
      /\ failures \in 0..(MaxRetries + 1)
  BY <1>1 DEF Init
<1>3. pc \in [Calls -> {"idle", "admitted", "done"} \cup InFlight]
      /\ cgen \in [Calls -> 0..MaxGen] /\ handled \in [Calls -> Nat]
      /\ queue \in [Gens -> Seq(Calls \cup {Sentinel})]
  BY <1>1 DEF Init
<1> QED
  BY <1>1, <1>2, <1>3 DEF Init, TypeOK

LEMMA CallTypes == ASSUME TypeOK, NEW c \in Calls, CallStep(c) PROVE TypeOK'
<1> USE CallsAssumption DEF TypeOK, InFlight, gateVars, callVars, waitVars, hostVars,
          writerVars, readerVars, ctlVars, closeVars
<1>1. CASE GateAdmit(c)
  BY <1>1 DEF GateAdmit, Goto, Called, MayCall, GateOpen, callEnv, Calls
<1>2. CASE GateRefuse(c)
  BY <1>2 DEF GateRefuse, Goto, Called, MayCall, GateOpen, callEnv, Calls
<1>3. CASE Snapshot(c)
  BY <1>3 DEF Snapshot, Goto, Running, callEnv, Gens
<1>4. CASE NoSnapshot(c)
  BY <1>4 DEF NoSnapshot, Goto, Return, Discount, Running, callEnv
<1>5. CASE Register(c)
  BY <1>5 DEF Register, Goto, callEnv
<1>6. CASE Enqueue(c)
  BY SMTT(30), <1>6 DEF Enqueue, Goto, MayEnqueue, IsCurrent
<1>7. CASE Reject(c)
  BY <1>7 DEF Reject, Goto, Return, Discount, PopEntry, callEnv
<1>8. CASE Written(c)
  BY <1>8 DEF Written, Goto, callEnv
<1>9. CASE NotWritten(c)
  BY <1>9 DEF NotWritten, Goto, callEnv
<1>10. CASE WriteTimeout(c)
  BY <1>10 DEF WriteTimeout, Goto, Taint, IsCurrent, callEnv
<1>11. CASE CancelWrite(c)
  BY <1>11 DEF CancelWrite, Goto, callEnv
<1>12. CASE ResponseTimeout(c)
  BY <1>12 DEF ResponseTimeout, Goto, Taint, IsCurrent, callEnv
<1>13. CASE Drop(c)
  BY <1>13 DEF Drop, Goto, Return, Discount, PopEntry, callEnv
<1>14. CASE TakeResponse(c)
  BY <1>14 DEF TakeResponse, Goto, Return, Discount, callEnv
<1> QED
  BY <1>1, <1>2, <1>3, <1>4, <1>5, <1>6, <1>7, <1>8, <1>9, <1>10, <1>11, <1>12,
     <1>13, <1>14 DEF CallStep

LEMMA WriterTypes == ASSUME TypeOK, NEW g \in Gens, WriterStep(g) PROVE TypeOK'
<1> USE CallsAssumption DEF TypeOK, InFlight, gateVars, callVars, waitVars, hostVars,
          writerVars, readerVars, ctlVars, closeVars
<1>1. CASE WriterStop(g)
  BY <1>1 DEF WriterStop, Takes, FailWrites, WriterEnds, Waiting, writerEnv
<1>2. CASE WriterRefuse(g)
  BY <1>2 DEF WriterRefuse, Takes, FailWrites, WriterEnds, Waiting, writerEnv
<1>3. CASE WriterTake(g)
  BY <1>3 DEF WriterTake, Takes, writerEnv
<1>4. CASE WriterFinish(g)
  BY <1>4 DEF WriterFinish, writerEnv
<1>5. CASE WriterSkips(g)
  <2>1. timedOut' \in 0..MaxGen
    BY <1>5 DEF WriterSkips, Taint, IsCurrent, Gens
  <2>2. Head(queue[g]) \in Calls /\ Tail(queue[g]) \in Seq(Calls \cup {Sentinel})
    BY <1>5 DEF WriterSkips, Takes
  <2> QED
    BY SMTT(30), <1>5, <2>1, <2>2 DEF WriterSkips, writerEnv
<1>6. CASE WriterFails(g)
  BY <1>6 DEF WriterFails, Taint, IsCurrent, writerEnv, Gens
<1>7. CASE WriterAbort(g)
  BY <1>7 DEF WriterAbort, FailWrites, WriterEnds, Waiting, writerEnv
<1> QED
  BY <1>1, <1>2, <1>3, <1>4, <1>5, <1>6, <1>7 DEF WriterStep

LEMMA HostTypes == ASSUME TypeOK, NEW g \in Gens, Exit(g) \/ \E c \in Calls : Handle(g, c) PROVE TypeOK'
<1> USE CallsAssumption DEF TypeOK, InFlight, gateVars, callVars, waitVars, hostVars,
          writerVars, readerVars, ctlVars, closeVars
<1>1. CASE Exit(g)
  BY <1>1 DEF Exit, hostEnv
<1>2. ASSUME NEW c \in Calls, Handle(g, c) PROVE TypeOK'
  BY <1>2 DEF Handle, hostEnv
<1> QED
  BY <1>1, <1>2

LEMMA ReaderTypes == ASSUME TypeOK, NEW g \in Gens, ReaderStep(g) PROVE TypeOK'
<1> USE CallsAssumption DEF TypeOK, InFlight, gateVars, callVars, waitVars, hostVars,
          writerVars, readerVars, ctlVars, closeVars
<1>1. ASSUME NEW c \in Calls, ReadResponse(g, c) PROVE TypeOK'
  BY <1>1 DEF ReadResponse, PendingOf, readerEnv
<1>2. ASSUME NEW c \in Calls, DropResponse(g, c) PROVE TypeOK'
  BY <1>2 DEF DropResponse, PendingOf, readerEnv
<1>3. CASE PutResponse(g)
  BY <1>3 DEF PutResponse, readerEnv
<1>4. CASE ReadEof(g)
  BY <1>4 DEF ReadEof, Taint, IsCurrent, readerEnv, Gens
<1>5. CASE ReaderFail(g)
  BY <1>5 DEF ReaderFail, FailPending, PendingOf, Waiting
<1>6. CASE ReaderEnds(g)
  BY <1>6 DEF ReaderEnds, readerEnv
<1> QED
  BY <1>1, <1>2, <1>3, <1>4, <1>5, <1>6 DEF ReaderStep

LEMMA CtlTypes == ASSUME TypeOK, CtlStep PROVE TypeOK'
<1> USE CallsAssumption DEF TypeOK, InFlight, gateVars, callVars, waitVars, hostVars,
          writerVars, readerVars, ctlVars, closeVars
<1>1. CASE BootBegin
  BY <1>1 DEF BootBegin, Begin, RecoveryFree, ctlEnv
<1>2. CASE ScriptMore
  BY <1>2 DEF ScriptMore, CallReplied, CallEnded, ctlEnv
<1>3. CASE BootEnd
  BY <1>3 DEF BootEnd, CallReplied, CallEnded, ctlEnv
<1>4. CASE WatchTick
  BY <1>4 DEF WatchTick, Running, ctlEnv
<1>5. CASE ProbeBegin
  BY ZenonT(40), <1>5 DEF ProbeBegin, ctlEnv
<1>6. ASSUME NEW c \in Ctl, ProbeCall(c) PROVE TypeOK'
  BY <1>6 DEF ProbeCall, Goto, callEnv, Calls
<1>7. CASE ProbeEnd
  <2>1. failures' \in 0..(MaxRetries + 1)
    BY <1>7, BoundsAssumption DEF ProbeEnd
  <2> QED
    BY <1>7, <2>1 DEF ProbeEnd, CallReplied, CallEnded, ctlEnv
<1>8. CASE RecoverBegin
  BY <1>8 DEF RecoverBegin, Begin, RecoveryFree, ctlEnv
<1>9. CASE Assess
  BY <1>9 DEF Assess, Running, ctlEnv
<1>10. CASE Kill
  BY <1>10 DEF Kill, Terminate, FailPending, PendingOf, Waiting
<1>11. CASE Retry
  <2>1. failures' \in 0..(MaxRetries + 1)
    BY <1>11, BoundsAssumption DEF Retry
  <2> QED
    BY ZenonT(40), <1>11, <2>1 DEF Retry, ctlEnv
<1>12. ASSUME NEW b \in BOOLEAN, Spawn(b) PROVE TypeOK'
  BY <1>12, BoundsAssumption DEF Spawn, MaySpawn, Gens
<1>13. CASE SpawnFails
  BY <1>13 DEF SpawnFails, ctlEnv
<1>14. CASE CheckSpawned
  BY <1>14 DEF CheckSpawned, Running, ctlEnv
<1>15. CASE ReplayEnd
  BY <1>15 DEF ReplayEnd, CallReplied, CallEnded, ctlEnv
<1> QED
  BY <1>1, <1>2, <1>3, <1>4, <1>5, <1>6, <1>7, <1>8, <1>9, <1>10, <1>11, <1>12,
     <1>13, <1>14, <1>15 DEF CtlStep

LEMMA CloseTypes == ASSUME TypeOK, CloseStep PROVE TypeOK'
<1> USE CallsAssumption DEF TypeOK, InFlight, gateVars, callVars, waitVars, hostVars,
          writerVars, readerVars, ctlVars, closeVars
<1>1. CASE CloseMark
  <2>1. closeGen' \in 0..MaxGen
    BY <1>1, BoundsAssumption DEF CloseMark, Gens
  <2> QED
    BY SMTT(30), <1>1, <2>1 DEF CloseMark, closeEnv
<1>2. CASE CloseSignal
  BY <1>2 DEF CloseSignal, closeEnv
<1>3. CASE CloseStdin
  BY <1>3 DEF CloseStdin, closeEnv
<1>4. CASE CloseExited
  BY <1>4 DEF CloseExited, closeEnv
<1>5. CASE CloseKill
  <2>1. /\ queue' = [queue EXCEPT ![closeGen] = Append(@, Sentinel)]
        /\ proc' = [proc EXCEPT ![closeGen] = "dead"] /\ inbox' = [inbox EXCEPT ![closeGen] = {}]
    BY <1>5 DEF CloseKill, Terminate
  <2>2. queue' \in [Gens -> Seq(Calls \cup {Sentinel})]
    <3>1. queue' = [g \in Gens |-> IF g = closeGen THEN Append(queue[g], Sentinel) ELSE queue[g]]
      BY <2>1
    <3>2. \A g \in Gens : /\ queue[g] \in Seq(Calls \cup {Sentinel})
                         /\ Append(queue[g], Sentinel) \in Seq(Calls \cup {Sentinel})
      OBVIOUS
    <3> QED
      BY <3>1, <3>2
  <2>3. proc' \in [Gens -> {"none", "alive", "dead"}] /\ inbox' \in [Gens -> SUBSET Calls]
    BY <2>1
  <2>4. pending' \subseteq Calls /\ slot' \in [Calls -> {"none", "reply", "failed"}]
    BY <1>5 DEF CloseKill, Terminate, FailPending
  <2>5. UNCHANGED <<stopped, closeGen, result, cancelled, outbox, handled, writer, wcall, cut, closeEnv>>
    BY <1>5 DEF CloseKill, Terminate, FailPending
  <2>6. closer' = "joining"
    BY <1>5 DEF CloseKill
  <2> QED
    BY <2>2, <2>3, <2>4, <2>5, <2>6 DEF closeEnv
<1>6. CASE CloseEnd
  BY <1>6 DEF CloseEnd, FailPending, Waiting, closeEnv
<1> QED
  BY <1>1, <1>2, <1>3, <1>4, <1>5, <1>6 DEF CloseStep

LEMMA TypeStep == TypeOK /\ [Next]_vars => TypeOK'
<1> SUFFICES ASSUME TypeOK, [Next]_vars PROVE TypeOK'
  OBVIOUS
<1>1. CASE UNCHANGED vars
  BY <1>1 DEF TypeOK, vars, gateVars, callVars, waitVars, hostVars, writerVars,
              readerVars, ctlVars, closeVars
<1>2. CASE Next
  BY <1>2, CallTypes, WriterTypes, HostTypes, ReaderTypes, CtlTypes, CloseTypes DEF Next
<1> QED
  BY <1>1, <1>2

\* Every variable keeps its type, and a writer or reader with a call in hand
\* really has one (_write_loop and _read_loop never use an unset request).
THEOREM TypeCorrect == Spec => []TypeOK
  BY TypeInit, TypeStep, PTL DEF Spec

----------------------------------------------------------------------------
(* The invariant is inductive *)

LEMMA PlacesInit == Init => Places
  BY BoundsAssumption DEF Init, Places, CallPlaces, CtlPlaces, Owning, RecoveryExclusive,
     CallKeepsGeneration, TaintIsCurrent, LiveIsCurrent, EntryPlaces, CloserPlaces,
     TimeoutPlaces, TimedOutRefused, InFlight, Calls, Gens

LEMMA CallPlacesStep == ASSUME IInv, NEW c \in Calls, CallStep(c) PROVE Places'
<1> USE CallsAssumption, BoundsAssumption
    DEF IInv, Places, CallPlaces, CtlPlaces, Owning, RecoveryExclusive, CallKeepsGeneration,
        TaintIsCurrent, LiveIsCurrent, EntryPlaces, CloserPlaces, TimeoutPlaces,
        TimedOutRefused, TypeOK, InFlight, Gens, Calls, gateVars, callVars, waitVars,
        hostVars, writerVars, readerVars, ctlVars, closeVars
<1>1. CASE GateAdmit(c)
  <2>1. CallPlaces' /\ CtlPlaces' /\ RecoveryExclusive'
    BY <1>1 DEF GateAdmit, Goto, Called, MayCall, GateOpen, callEnv
  <2>2. CallKeepsGeneration'
    BY <1>1 DEF GateAdmit, Goto, Called, MayCall, GateOpen, callEnv
  <2>3. TaintIsCurrent' /\ LiveIsCurrent' /\ CloserPlaces'
    BY <1>1 DEF GateAdmit, Goto, Called, MayCall, GateOpen, callEnv
  <2>4. EntryPlaces'
    BY <1>1 DEF GateAdmit, Goto, Called, MayCall, GateOpen, callEnv
  <2>5. TimeoutPlaces'
    BY <1>1 DEF GateAdmit, Goto, Called, MayCall, GateOpen, callEnv
  <2>6. TimedOutRefused'
    BY <1>1 DEF GateAdmit, Goto, Called, MayCall, GateOpen, callEnv
  <2> QED
    BY <2>1, <2>2, <2>3, <2>4, <2>5, <2>6
<1>2. CASE GateRefuse(c)
  <2>1. CallPlaces' /\ CtlPlaces' /\ RecoveryExclusive'
    BY <1>2 DEF GateRefuse, Goto, Called, MayCall, GateOpen, callEnv
  <2>2. CallKeepsGeneration'
    BY <1>2 DEF GateRefuse, Goto, Called, MayCall, GateOpen, callEnv
  <2>3. TaintIsCurrent' /\ LiveIsCurrent' /\ CloserPlaces'
    BY <1>2 DEF GateRefuse, Goto, Called, MayCall, GateOpen, callEnv
  <2>4. EntryPlaces'
    BY <1>2 DEF GateRefuse, Goto, Called, MayCall, GateOpen, callEnv
  <2>5. TimeoutPlaces'
    BY <1>2 DEF GateRefuse, Goto, Called, MayCall, GateOpen, callEnv
  <2>6. TimedOutRefused'
    BY <1>2 DEF GateRefuse, Goto, Called, MayCall, GateOpen, callEnv
  <2> QED
    BY <2>1, <2>2, <2>3, <2>4, <2>5, <2>6
<1>3. CASE Snapshot(c)
  <2>1. CallPlaces' /\ CtlPlaces' /\ RecoveryExclusive'
    BY <1>3 DEF Snapshot, Goto, Running, callEnv
  <2>2. CallKeepsGeneration'
    BY <1>3 DEF Snapshot, Goto, Running, callEnv
  <2>3. TaintIsCurrent' /\ LiveIsCurrent' /\ CloserPlaces'
    BY <1>3 DEF Snapshot, Goto, Running, callEnv
  <2>4. EntryPlaces'
    BY <1>3 DEF Snapshot, Goto, Running, callEnv
  <2>5. TimeoutPlaces'
    BY <1>3 DEF Snapshot, Goto, Running, callEnv
  <2>6. TimedOutRefused'
    BY <1>3 DEF Snapshot, Goto, Running, callEnv
  <2> QED
    BY <2>1, <2>2, <2>3, <2>4, <2>5, <2>6
<1>4. CASE NoSnapshot(c)
  <2>1. CallPlaces' /\ CtlPlaces' /\ RecoveryExclusive'
    BY <1>4 DEF NoSnapshot, Goto, Return, Discount, Running, callEnv
  <2>2. CallKeepsGeneration'
    BY <1>4 DEF NoSnapshot, Goto, Return, Discount, Running, callEnv
  <2>3. TaintIsCurrent' /\ LiveIsCurrent' /\ CloserPlaces'
    BY <1>4 DEF NoSnapshot, Goto, Return, Discount, Running, callEnv
  <2>4. EntryPlaces'
    BY <1>4 DEF NoSnapshot, Goto, Return, Discount, Running, callEnv
  <2>5. TimeoutPlaces'
    BY <1>4 DEF NoSnapshot, Goto, Return, Discount, Running, callEnv
  <2>6. TimedOutRefused'
    BY <1>4 DEF NoSnapshot, Goto, Return, Discount, Running, callEnv
  <2> QED
    BY <2>1, <2>2, <2>3, <2>4, <2>5, <2>6
<1>5. CASE Register(c)
  <2>1. CallPlaces' /\ CtlPlaces' /\ RecoveryExclusive'
    BY <1>5 DEF Register, Goto, callEnv
  <2>2. CallKeepsGeneration'
    BY <1>5 DEF Register, Goto, callEnv
  <2>3. TaintIsCurrent' /\ LiveIsCurrent' /\ CloserPlaces'
    BY <1>5 DEF Register, Goto, callEnv
  <2>4. EntryPlaces'
    <3>1. slot[c] = "none" /\ \A g \in Gens : reader[g] = "popped" => rcall[g] # c
      BY <1>5 DEF Register
    <3> QED
      BY <1>5, <3>1 DEF Register, Goto, callEnv
  <2>5. TimeoutPlaces'
    BY <1>5 DEF Register, Goto, callEnv
  <2>6. TimedOutRefused'
    BY <1>5 DEF Register, Goto, callEnv
  <2> QED
    BY <2>1, <2>2, <2>3, <2>4, <2>5, <2>6
<1>6. CASE Enqueue(c)
  BY <1>6 DEF Enqueue, Goto, MayEnqueue, IsCurrent
<1>7. CASE Reject(c)
  BY <1>7 DEF Reject, Goto, Return, Discount, PopEntry, callEnv
<1>8. CASE Written(c)
  <2>1. CallPlaces' /\ CtlPlaces' /\ RecoveryExclusive'
    BY <1>8 DEF Written, Goto, callEnv
  <2>2. CallKeepsGeneration'
    BY <1>8 DEF Written, Goto, callEnv
  <2>3. TaintIsCurrent' /\ LiveIsCurrent' /\ CloserPlaces'
    BY <1>8 DEF Written, Goto, callEnv
  <2>4. EntryPlaces'
    BY <1>8 DEF Written, Goto, callEnv
  <2>5. TimeoutPlaces'
    BY <1>8 DEF Written, Goto, callEnv
  <2>6. TimedOutRefused'
    BY <1>8 DEF Written, Goto, callEnv
  <2> QED
    BY <2>1, <2>2, <2>3, <2>4, <2>5, <2>6
<1>9. CASE NotWritten(c)
  BY <1>9 DEF NotWritten, Goto, callEnv
<1>10. CASE WriteTimeout(c)
  BY <1>10 DEF WriteTimeout, Goto, Taint, IsCurrent, callEnv
<1>11. CASE CancelWrite(c)
  BY <1>11 DEF CancelWrite, Goto, callEnv
<1>12. CASE ResponseTimeout(c)
  BY <1>12 DEF ResponseTimeout, Goto, Taint, IsCurrent, callEnv
<1>13. CASE Drop(c)
  BY <1>13 DEF Drop, Goto, Return, Discount, PopEntry, callEnv
<1>14. CASE TakeResponse(c)
  BY <1>14 DEF TakeResponse, Goto, Return, Discount, callEnv
<1> QED
  BY <1>1, <1>2, <1>3, <1>4, <1>5, <1>6, <1>7, <1>8, <1>9, <1>10, <1>11, <1>12,
     <1>13, <1>14 DEF CallStep

LEMMA WriterPlaces == ASSUME IInv, NEW g \in Gens, WriterStep(g) PROVE Places'
<1> USE CallsAssumption, BoundsAssumption
    DEF IInv, Places, CallPlaces, CtlPlaces, Owning, RecoveryExclusive, CallKeepsGeneration,
        TaintIsCurrent, LiveIsCurrent, EntryPlaces, CloserPlaces, TimeoutPlaces,
        TimedOutRefused, TypeOK, InFlight, Gens, Calls, gateVars, callVars, waitVars,
        hostVars, writerVars, readerVars, ctlVars, closeVars
<1>1. CASE WriterStop(g)
  BY <1>1 DEF WriterStop, Takes, FailWrites, WriterEnds, Waiting, writerEnv
<1>2. CASE WriterRefuse(g)
  BY <1>2 DEF WriterRefuse, Takes, FailWrites, WriterEnds, Waiting, writerEnv
<1>3. CASE WriterTake(g)
  BY <1>3 DEF WriterTake, Takes, writerEnv
<1>4. CASE WriterFinish(g)
  BY <1>4 DEF WriterFinish, writerEnv
<1>5. CASE WriterSkips(g)
  BY <1>5 DEF WriterSkips, Takes, Taint, IsCurrent, writerEnv
<1>6. CASE WriterFails(g)
  BY <1>6 DEF WriterFails, Taint, IsCurrent, writerEnv
<1>7. CASE WriterAbort(g)
  BY <1>7 DEF WriterAbort, FailWrites, WriterEnds, Waiting, writerEnv
<1> QED
  BY <1>1, <1>2, <1>3, <1>4, <1>5, <1>6, <1>7 DEF WriterStep

LEMMA HostPlaces == ASSUME IInv, NEW g \in Gens, Exit(g) \/ \E c \in Calls : Handle(g, c) PROVE Places'
<1> USE CallsAssumption, BoundsAssumption
    DEF IInv, Places, CallPlaces, CtlPlaces, Owning, RecoveryExclusive, CallKeepsGeneration,
        TaintIsCurrent, LiveIsCurrent, EntryPlaces, CloserPlaces, TimeoutPlaces,
        TimedOutRefused, TypeOK, InFlight, Gens, Calls, gateVars, callVars, waitVars,
        hostVars, writerVars, readerVars, ctlVars, closeVars
<1>1. CASE Exit(g)
  BY <1>1 DEF Exit, hostEnv
<1>2. ASSUME NEW c \in Calls, Handle(g, c) PROVE Places'
  BY <1>2 DEF Handle, hostEnv
<1> QED
  BY <1>1, <1>2

LEMMA ReaderPlaces == ASSUME IInv, NEW g \in Gens, ReaderStep(g) PROVE Places'
<1> USE CallsAssumption, BoundsAssumption
    DEF IInv, Places, CallPlaces, CtlPlaces, Owning, RecoveryExclusive, CallKeepsGeneration,
        TaintIsCurrent, LiveIsCurrent, EntryPlaces, CloserPlaces, TimeoutPlaces,
        TimedOutRefused, TypeOK, InFlight, Gens, Calls, gateVars, callVars, waitVars,
        hostVars, writerVars, readerVars, ctlVars, closeVars
<1>1. ASSUME NEW c \in Calls, ReadResponse(g, c) PROVE Places'
  <2>1. CallPlaces' /\ CtlPlaces' /\ RecoveryExclusive'
    BY <1>1 DEF ReadResponse, PendingOf, readerEnv
  <2>2. CallKeepsGeneration'
    BY <1>1 DEF ReadResponse, PendingOf, readerEnv
  <2>3. TaintIsCurrent' /\ LiveIsCurrent' /\ CloserPlaces'
    BY <1>1 DEF ReadResponse, PendingOf, readerEnv
  <2>4. EntryPlaces'
    <3>1. c \in pending /\ pc[c] \in InFlight \ {"snapped"}
      BY <1>1 DEF ReadResponse, PendingOf
    <3>2. pending' = pending \ {c} /\ UNCHANGED <<pc, slot>>
      BY <1>1 DEF ReadResponse, PendingOf, readerEnv
    <3>3. reader' = [reader EXCEPT ![g] = "popped"] /\ rcall' = [rcall EXCEPT ![g] = c]
      BY <1>1 DEF ReadResponse
    <3> QED
      BY <3>1, <3>2, <3>3
  <2>5. TimeoutPlaces'
    BY <1>1 DEF ReadResponse, PendingOf, readerEnv
  <2>6. TimedOutRefused'
    BY <1>1 DEF ReadResponse, PendingOf, readerEnv
  <2> QED
    BY <2>1, <2>2, <2>3, <2>4, <2>5, <2>6
<1>2. ASSUME NEW c \in Calls, DropResponse(g, c) PROVE Places'
  BY <1>2 DEF DropResponse, PendingOf, readerEnv
<1>3. CASE PutResponse(g)
  BY <1>3 DEF PutResponse, readerEnv
<1>4. CASE ReadEof(g)
  BY <1>4 DEF ReadEof, Taint, IsCurrent, readerEnv
<1>5. CASE ReaderFail(g)
  BY <1>5 DEF ReaderFail, FailPending, PendingOf, Waiting
<1>6. CASE ReaderEnds(g)
  BY <1>6 DEF ReaderEnds, readerEnv
<1> QED
  BY <1>1, <1>2, <1>3, <1>4, <1>5, <1>6 DEF ReaderStep

LEMMA CtlPlacesStep == ASSUME IInv, CtlStep PROVE Places'
<1> USE CallsAssumption, BoundsAssumption
    DEF IInv, Places, CallPlaces, CtlPlaces, Owning, RecoveryExclusive, CallKeepsGeneration,
        TaintIsCurrent, LiveIsCurrent, EntryPlaces, CloserPlaces, TimeoutPlaces,
        TimedOutRefused, TypeOK, InFlight, Gens, Calls, gateVars, callVars, waitVars,
        hostVars, writerVars, readerVars, ctlVars, closeVars
<1>1. CASE BootBegin
  BY <1>1 DEF BootBegin, Begin, RecoveryFree, ctlEnv
<1>2. CASE ScriptMore
  BY <1>2 DEF ScriptMore, CallReplied, CallEnded, ctlEnv
<1>3. CASE BootEnd
  BY <1>3 DEF BootEnd, CallReplied, CallEnded, ctlEnv
<1>4. CASE WatchTick
  BY <1>4 DEF WatchTick, Running, ctlEnv
<1>5. CASE ProbeBegin
  BY <1>5 DEF ProbeBegin, ctlEnv
<1>6. ASSUME NEW c \in Ctl, ProbeCall(c) PROVE Places'
  <2>1. CallPlaces' /\ CtlPlaces' /\ RecoveryExclusive'
    BY <1>6 DEF ProbeCall, Goto, callEnv
  <2>2. CallKeepsGeneration'
    BY <1>6 DEF ProbeCall, Goto, callEnv
  <2>3. TaintIsCurrent' /\ LiveIsCurrent' /\ CloserPlaces'
    BY <1>6 DEF ProbeCall, Goto, callEnv
  <2>4. EntryPlaces'
    BY <1>6 DEF ProbeCall, Goto, callEnv
  <2>5. TimeoutPlaces'
    BY <1>6 DEF ProbeCall, Goto, callEnv
  <2>6. TimedOutRefused'
    BY <1>6 DEF ProbeCall, Goto, callEnv
  <2> QED
    BY <2>1, <2>2, <2>3, <2>4, <2>5, <2>6
<1>7. CASE ProbeEnd
  BY <1>7 DEF ProbeEnd, CallReplied, CallEnded, ctlEnv
<1>8. CASE RecoverBegin
  BY <1>8 DEF RecoverBegin, Begin, RecoveryFree, ctlEnv
<1>9. CASE Assess
  BY <1>9 DEF Assess, Running, ctlEnv
<1>10. CASE Kill
  BY <1>10 DEF Kill, Terminate, FailPending, PendingOf, Waiting
<1>11. CASE Retry
  BY <1>11 DEF Retry, ctlEnv
<1>12. ASSUME NEW b \in BOOLEAN, Spawn(b) PROVE Places'
  <2>0. \A c \in Calls : pc[c] \in {"idle", "done"}
    BY <1>12 DEF Spawn
  <2>1. CallPlaces' /\ CtlPlaces' /\ RecoveryExclusive'
    BY <1>12, <2>0 DEF Spawn, MaySpawn
  <2>2. CallKeepsGeneration'
    BY <1>12, <2>0 DEF Spawn, MaySpawn
  <2>3. TaintIsCurrent' /\ LiveIsCurrent' /\ CloserPlaces'
    BY <1>12, <2>0 DEF Spawn, MaySpawn
  <2>4. EntryPlaces'
    BY <1>12, <2>0 DEF Spawn, MaySpawn
  <2>5. TimeoutPlaces'
    BY <1>12, <2>0 DEF Spawn, MaySpawn
  <2>6. TimedOutRefused'
    BY <1>12, <2>0 DEF Spawn, MaySpawn
  <2> QED
    BY <2>1, <2>2, <2>3, <2>4, <2>5, <2>6
<1>13. CASE SpawnFails
  BY <1>13 DEF SpawnFails, ctlEnv
<1>14. CASE CheckSpawned
  BY <1>14 DEF CheckSpawned, Running, ctlEnv
<1>15. CASE ReplayEnd
  BY <1>15 DEF ReplayEnd, CallReplied, CallEnded, ctlEnv
<1> QED
  BY SMTT(30), <1>1, <1>2, <1>3, <1>4, <1>5, <1>6, <1>7, <1>8, <1>9, <1>10, <1>11, <1>12,
     <1>13, <1>14, <1>15 DEF CtlStep

LEMMA ClosePlaces == ASSUME IInv, CloseStep PROVE Places'
<1> USE CallsAssumption, BoundsAssumption
    DEF IInv, Places, CallPlaces, CtlPlaces, Owning, RecoveryExclusive, CallKeepsGeneration,
        TaintIsCurrent, LiveIsCurrent, EntryPlaces, CloserPlaces, TimeoutPlaces,
        TimedOutRefused, TypeOK, InFlight, Gens, Calls, gateVars, callVars, waitVars,
        hostVars, writerVars, readerVars, ctlVars, closeVars
<1>1. CASE CloseMark
  BY <1>1 DEF CloseMark, closeEnv
<1>2. CASE CloseSignal
  BY <1>2 DEF CloseSignal, closeEnv
<1>3. CASE CloseStdin
  BY <1>3 DEF CloseStdin, closeEnv
<1>4. CASE CloseExited
  BY <1>4 DEF CloseExited, closeEnv
<1>5. CASE CloseKill
  BY <1>5 DEF CloseKill, Terminate, FailPending, PendingOf, Waiting, closeEnv
<1>6. CASE CloseEnd
  BY <1>6 DEF CloseEnd, FailPending, Waiting, closeEnv
<1> QED
  BY <1>1, <1>2, <1>3, <1>4, <1>5, <1>6 DEF CloseStep

LEMMA IInvStep == IInv /\ [Next]_vars => IInv'
<1> SUFFICES ASSUME IInv, [Next]_vars PROVE IInv'
  OBVIOUS
<1>1. TypeOK'
  BY TypeStep DEF IInv
<1>2. Places'
  <2>1. CASE UNCHANGED vars
    BY <2>1 DEF IInv, Places, CallPlaces, CtlPlaces, RecoveryExclusive, CallKeepsGeneration,
                TaintIsCurrent, LiveIsCurrent, EntryPlaces, CloserPlaces, TimeoutPlaces,
                TimedOutRefused, vars, gateVars, callVars, waitVars, hostVars, writerVars,
                readerVars, ctlVars, closeVars
  <2>2. CASE Next
    BY <2>2, CallPlacesStep, WriterPlaces, HostPlaces, ReaderPlaces, CtlPlacesStep,
       ClosePlaces DEF Next
  <2> QED
    BY <2>1, <2>2
<1> QED
  BY <1>1, <1>2 DEF IInv

LEMMA Invariant == Spec => []IInv
<1>1. Init => IInv
  BY TypeInit, PlacesInit DEF IInv
<1> QED
  BY <1>1, IInvStep, PTL DEF Spec

----------------------------------------------------------------------------
(* What follows *)

\* No application call is counted while a recovery transaction is open, and a
\* probe runs alone: the exclusion of call_blocking, _probe_health and
\* _begin_recovery_transaction, for any number of callers.
THEOREM Exclusion == Spec => []RecoveryExclusive
  BY Invariant, PTL DEF IInv, Places

\* The generation does not change between the snapshot of a call and its return.
THEOREM KeepsGeneration == Spec => []CallKeepsGeneration
  BY Invariant, PTL DEF IInv, Places

\* A taint left by an old thread never names another generation than the
\* running one, so _probe_health always recovers a gate that is closed.
THEOREM TaintCurrent == Spec => []TaintIsCurrent
  BY Invariant, PTL DEF IInv, Places

\* After a deadline on a generation its gate stays closed until the respawn.
THEOREM NoCallAfterTimeout == Spec => []TimedOutRefused
  BY Invariant, PTL DEF IInv, Places

\* However many generations are spawned, no two bridge processes are alive.
THEOREM SingleBridge == Spec => []OneBridge
<1>1. IInv => OneBridge
  BY DEF IInv, Places, LiveIsCurrent, OneBridge
<1> QED
  BY <1>1, Invariant, PTL

\* A call returns with its entry of _pending and its count taken back.
THEOREM CleanReturn == Spec => []NothingLeftBehind
<1>1. IInv => NothingLeftBehind
  BY DEF IInv, Places, CallPlaces, EntryPlaces, InFlight, NothingLeftBehind
<1> QED
  BY <1>1, Invariant, PTL

\* Once close() joins the watchdog no process is alive, and none will be.
THEOREM NoOrphan == Spec => []ClosedLeavesNoProcess
<1>1. IInv => ClosedLeavesNoProcess
  BY DEF IInv, Places, LiveIsCurrent, CloserPlaces, ClosedLeavesNoProcess
<1> QED
  BY <1>1, Invariant, PTL

----------------------------------------------------------------------------
(* The end of a generation, and its queue *)

\* Nobody will wait for the writer of the current generation: it is tainted, or it
\* was terminated with no call in flight, and no call gets a snapshot of it
GivenUp ==
  stopped \/ timedOut = gen \/ (proc[gen] # "alive" /\ \A c \in Calls : pc[c] \notin InFlight)

Queued(g, c) == \E i \in 1..Len(queue[g]) : queue[g][i] = c

\* The sentinel comes with the end of the generation, and the end with a taint
EndPlaces ==
  /\ writer[gen] \in {"aborting", "exited"} \/ Queued(gen, Sentinel) => GivenUp
  /\ reader[gen] \in {"tainted", "failed", "exited"} => stopped \/ timedOut = gen

\* A generation to come has no threads and no requests
NotYet ==
  \A g \in Gens : g > gen => writer[g] = "none" /\ reader[g] = "none" /\ queue[g] = <<>>

CutPlaces == \A g \in Gens : cut[g] => writer[g] \in {"aborting", "exited"}

\* The events of a generation that runs, or starts up for the first time
NewsPlaces ==
  ctl \in {"boot", "booting", "watch", "checked", "probing", "recover"} /\ ~stopped
    /\ reader[gen] # "exited" => news # "down"

Ends == EndPlaces /\ NotYet /\ CutPlaces /\ NewsPlaces /\ SentinelLast

\* Where a call is once its request was accepted by a writer
Sent == {"writing", "cancelling", "waiting", "dropping", "done"}

\* A request is in one place, once, in its own generation, until it is executed
OnePlace ==
  \A g \in Gens, c \in Calls :
    /\ \A i, j \in 1..Len(queue[g]) : queue[g][i] = c /\ queue[g][j] = c => i = j
    /\ Queued(g, c) => wcall[g] # c /\ c \notin inbox[g]
    /\ wcall[g] = c => c \notin inbox[g]
    /\ Queued(g, c) \/ wcall[g] = c \/ c \in inbox[g] =>
         cgen[c] = g /\ pc[c] \in Sent /\ handled[c] = 0

\* A response is on its way only after the execution
Answered ==
  /\ \A g \in Gens : /\ \A c \in outbox[g] : handled[c] = 1
                     /\ reader[g] = "popped" => handled[rcall[g]] = 1
  /\ \A c \in Calls : /\ handled[c] \in {0, 1} /\ (pc[c] \notin Sent => handled[c] = 0)
                      /\ slot[c] = "reply" => handled[c] = 1
                      /\ outcome[c] = "reply" => pc[c] = "done"
                      /\ pc[c] \in {"idle", "admitted"} => cgen[c] = 0

Requests == OnePlace /\ Answered

----------------------------------------------------------------------------
(* A queue with a sentinel *)

EndsIn(q) == q = <<>> \/ q[Len(q)] = Sentinel

LEMMA QueueOps ==
  ASSUME NEW q \in Seq(Calls \cup {Sentinel})
  PROVE  /\ \A e \in Calls \cup {Sentinel} :
              /\ Append(q, e) \in Seq(Calls \cup {Sentinel}) /\ Len(Append(q, e)) = Len(q) + 1
              /\ Append(q, e)[Len(q) + 1] = e /\ Append(q, e) # <<>>
              /\ \A i \in 1..Len(q) : Append(q, e)[i] = q[i]
              /\ \A i \in 1..(Len(q) + 1) : i \in 1..Len(q) \/ i = Len(q) + 1
         /\ q # <<>> =>
              /\ Tail(q) \in Seq(Calls \cup {Sentinel}) /\ Len(Tail(q)) = Len(q) - 1
              /\ Head(q) = q[1] /\ 1 \in 1..Len(q)
              /\ \A i \in 1..Len(Tail(q)) : i + 1 \in 1..Len(q) /\ i # i + 1 /\ Tail(q)[i] = q[i + 1]
         /\ Len(q) \in Nat /\ (q = <<>> <=> Len(q) = 0)
<1>1. ASSUME NEW e \in Calls \cup {Sentinel}
      PROVE  /\ Append(q, e) \in Seq(Calls \cup {Sentinel}) /\ Len(Append(q, e)) = Len(q) + 1
             /\ Append(q, e)[Len(q) + 1] = e /\ Append(q, e) # <<>>
             /\ \A i \in 1..Len(q) : Append(q, e)[i] = q[i]
             /\ \A i \in 1..(Len(q) + 1) : i \in 1..Len(q) \/ i = Len(q) + 1
  OBVIOUS
<1>2. ASSUME q # <<>>
      PROVE  /\ Tail(q) \in Seq(Calls \cup {Sentinel}) /\ Len(Tail(q)) = Len(q) - 1
             /\ Head(q) = q[1] /\ 1 \in 1..Len(q)
             /\ \A i \in 1..Len(Tail(q)) : i + 1 \in 1..Len(q) /\ i # i + 1 /\ Tail(q)[i] = q[i + 1]
  BY <1>2
<1>3. Len(q) \in Nat /\ (q = <<>> <=> Len(q) = 0)
  OBVIOUS
<1> QED
  BY <1>1, <1>2, <1>3

LEMMA EndsInOps ==
  ASSUME NEW q \in Seq(Calls \cup {Sentinel})
  PROVE  /\ EndsIn(Append(q, Sentinel)) /\ EndsIn(<<>>)
         /\ EndsIn(q) /\ q # <<>> => EndsIn(Tail(q))
<1>1. EndsIn(Append(q, Sentinel))
  BY QueueOps DEF EndsIn
<1>2. ASSUME EndsIn(q), q # <<>> PROVE EndsIn(Tail(q))
  <2> DEFINE t == Tail(q)
  <2>1. t \in Seq(Calls \cup {Sentinel}) /\ Len(t) = Len(q) - 1 /\ \A i \in 1..Len(t) : t[i] = q[i + 1]
    BY <1>2, QueueOps
  <2> HIDE DEF t
  <2>2. ASSUME t # <<>> PROVE EndsIn(t)
    <3>1. Len(t) \in 1..Len(t) /\ Len(t) + 1 = Len(q)
      BY <2>1, <2>2
    <3> QED
      BY <1>2, <2>1, <3>1 DEF EndsIn
  <2>3. EndsIn(t)
    BY <2>2 DEF EndsIn
  <2> QED
    BY <2>3 DEF t
<1> QED
  BY <1>1, <1>2 DEF EndsIn

----------------------------------------------------------------------------
(* The end of a generation *)

\* A step that leaves the threads of the bridge alone
LEMMA EndsQuiet ==
  ASSUME IInv, Ends, UNCHANGED <<gen, queue, writer, cut>>,
         reader'[gen] \in {"tainted", "failed", "exited"} => reader[gen] \in {"tainted", "failed", "exited"},
         \A g \in Gens : reader[g] = "none" => reader'[g] = "none",
         timedOut' \in {timedOut, gen}, stopped => stopped',
         proc'[gen] = "alive" => proc[gen] = "alive",
         \A c \in Calls : pc'[c] \in InFlight => pc[c] \in InFlight \/ proc[gen] = "alive",
         closer' \in {"open", "marked"} \/ (closer \notin {"open", "marked"} /\ closeGen' = closeGen)
  PROVE  EndPlaces' /\ NotYet' /\ CutPlaces' /\ SentinelLast'
<1>1. GivenUp => GivenUp'
  BY DEF GivenUp
<1>2. EndPlaces'
  BY <1>1 DEF Ends, EndPlaces, Queued
<1>3. NotYet' /\ CutPlaces'
  BY DEF Ends, NotYet, CutPlaces
<1>4. SentinelLast'
  BY DEF Ends, SentinelLast
<1> QED
  BY <1>2, <1>3, <1>4

\* A step that leaves the connection events alone
LEMMA NewsQuiet ==
  ASSUME IInv, Ends, UNCHANGED <<gen, ctl, news>>, stopped => stopped',
         reader[gen] = "exited" => reader'[gen] = "exited"
  PROVE  NewsPlaces'
BY DEF Ends, NewsPlaces

LEMMA CallEnds == ASSUME IInv, Ends, NEW c \in Calls, CallStep(c) PROVE Ends'
<1> USE DEF gateVars, callVars, waitVars, hostVars, writerVars, readerVars, ctlVars, closeVars
<1>1. CASE Enqueue(c)
  <2>1. /\ ~stopped /\ gen = cgen[c] /\ queue' = [queue EXCEPT ![gen] = Append(@, c)]
        /\ UNCHANGED <<gen, stopped, timedOut, proc, writer, cut, reader, ctl, news, closer, closeGen>>
        /\ pc[c] = "registered" /\ pc' = [pc EXCEPT ![c] = "writing"]
    BY <1>1 DEF Enqueue, MayEnqueue, IsCurrent, Goto
  <2>2. gen \in Gens /\ queue \in [Gens -> Seq(Calls \cup {Sentinel})] /\ pc \in [Calls -> {"idle", "admitted", "done"} \cup InFlight]
    BY DEF IInv, TypeOK
  <2>3. \A k \in Calls : pc'[k] \in InFlight <=> pc[k] \in InFlight
    BY <2>1, <2>2 DEF InFlight
  <2>4. GivenUp' <=> GivenUp
    BY <2>1, <2>3 DEF GivenUp
  <2>5. Queued(gen, Sentinel)' => Queued(gen, Sentinel)
    <3>1. queue'[gen] = Append(queue[gen], c) /\ queue[gen] \in Seq(Calls \cup {Sentinel}) /\ gen' = gen
      BY <2>1, <2>2
    <3>2. \A i \in 1..Len(queue'[gen]) : (i \in 1..Len(queue[gen]) /\ queue'[gen][i] = queue[gen][i]) \/ queue'[gen][i] = c
      BY <3>1, QueueOps
    <3> QED
      BY <3>1, <3>2, CallsAssumption DEF Queued
  <2>6. EndPlaces'
    BY <2>1, <2>4, <2>5 DEF Ends, EndPlaces
  <2>7. NotYet'
    <3>1. \A g \in Gens : g # gen => queue'[g] = queue[g]
      BY <2>1, <2>2
    <3>2. ~(gen > gen)
      BY <2>2 DEF Gens
    <3> QED
      BY <2>1, <3>1, <3>2 DEF Ends, NotYet
  <2>8. CutPlaces' /\ NewsPlaces'
    BY <2>1 DEF Ends, CutPlaces, NewsPlaces
  <2>9. SentinelLast'
    BY <2>1 DEF SentinelLast, IInv, Places, CloserPlaces
  <2> QED
    BY <2>6, <2>7, <2>8, <2>9 DEF Ends
<1>2. CASE ~Enqueue(c)
  <2>1. UNCHANGED <<gen, stopped, queue, writer, cut, reader, proc, ctl, news, closer, closeGen>>
    BY <1>2 DEF CallStep, GateAdmit, GateRefuse, Snapshot, NoSnapshot, Register, Reject, Written, NotWritten,
       WriteTimeout, CancelWrite, ResponseTimeout, Drop, TakeResponse, callEnv
  <2>2. timedOut' \in {timedOut, gen}
    BY <1>2 DEF CallStep, GateAdmit, GateRefuse, Snapshot, NoSnapshot, Register, Reject, Written, NotWritten,
       WriteTimeout, CancelWrite, ResponseTimeout, Drop, TakeResponse, Taint, IsCurrent
  <2>3. /\ pc' \in {[pc EXCEPT ![c] = place] : place \in InFlight \cup {"admitted", "done"}}
        /\ pc'[c] \in InFlight => pc[c] \in InFlight \/ proc[gen] = "alive"
    <3>1. pc \in [Calls -> {"idle", "admitted", "done"} \cup InFlight]
      BY DEF IInv, TypeOK
    <3> QED
      BY <1>2, <3>1 DEF CallStep, GateAdmit, GateRefuse, Snapshot, NoSnapshot, Register, Reject, Written, NotWritten,
         WriteTimeout, CancelWrite, ResponseTimeout, Drop, TakeResponse, Return, Goto, Running, InFlight
  <2>4. \A k \in Calls : pc'[k] \in InFlight => pc[k] \in InFlight \/ proc[gen] = "alive"
    BY <2>3 DEF IInv, TypeOK
  <2>5. closer' \in {"open", "marked"} \/ (closer \notin {"open", "marked"} /\ closeGen' = closeGen)
    BY <2>1
  <2>6. EndPlaces' /\ NotYet' /\ CutPlaces' /\ SentinelLast'
    BY <2>1, <2>2, <2>4, <2>5, EndsQuiet
  <2>7. NewsPlaces'
    BY <2>1, NewsQuiet
  <2> QED
    BY <2>6, <2>7 DEF Ends
<1> QED
  BY <1>1, <1>2

LEMMA WriterEndsStep == ASSUME IInv, Ends, NEW g \in Gens, WriterStep(g) PROVE Ends'
<1> USE DEF gateVars, callVars, waitVars, hostVars, writerVars, readerVars, ctlVars, closeVars
<1>1. UNCHANGED <<gen, stopped, reader, proc, pc, ctl, news, closer, closeGen>>
  BY DEF WriterStep, WriterStop, WriterRefuse, WriterTake, WriterFinish, WriterSkips, WriterFails,
     WriterAbort, writerEnv
<1>2. timedOut' \in {timedOut, gen}
  BY DEF WriterStep, WriterStop, WriterRefuse, WriterTake, WriterFinish, WriterSkips, WriterFails,
     WriterAbort, Taint, IsCurrent
<1>3. GivenUp => GivenUp'
  BY <1>1, <1>2 DEF GivenUp
<1>4. /\ gen \in Gens /\ queue \in [Gens -> Seq(Calls \cup {Sentinel})] /\ cut \in [Gens -> BOOLEAN]
      /\ writer \in [Gens -> {"none", "idle", "writing", "aborting", "exited"}]
  BY DEF IInv, TypeOK
<1>5. /\ \A h \in Gens \ {g} : queue'[h] = queue[h]
      /\ \/ queue'[g] = queue[g] \/ queue'[g] = <<>>
         \/ queue[g] # <<>> /\ queue'[g] = Tail(queue[g])
  BY <1>4 DEF WriterStep, WriterStop, WriterRefuse, WriterTake, WriterFinish, WriterSkips, WriterFails,
     WriterAbort, FailWrites, Takes
<1>6. /\ \A h \in Gens \ {g} : writer'[h] = writer[h] /\ cut'[h] = cut[h]
      /\ writer[g] \in {"idle", "writing", "aborting"}
  BY <1>4 DEF WriterStep, WriterStop, WriterRefuse, WriterTake, WriterFinish, WriterSkips, WriterFails,
     WriterAbort, FailWrites, WriterEnds, Takes
<1>7. writer'[g] \in {"aborting", "exited"} /\ g = gen => GivenUp'
  <2>1. CASE WriterStop(g)
    <3>1. queue[g] # <<>> /\ Head(queue[g]) = Sentinel
      BY <2>1 DEF WriterStop, Takes
    <3>2. Queued(g, Sentinel)
      BY <1>4, <3>1, QueueOps DEF Queued
    <3> QED
      BY <1>3, <3>2 DEF Ends, EndPlaces
  <2>2. CASE WriterRefuse(g)
    BY <1>1, <2>2 DEF WriterRefuse, IsCurrent, GivenUp
  <2>3. CASE WriterTake(g) \/ WriterFinish(g)
    BY <1>4, <2>3 DEF WriterTake, WriterFinish
  <2>4. CASE WriterSkips(g) \/ WriterFails(g)
    BY <1>1, <2>4 DEF WriterSkips, WriterFails, Taint, IsCurrent, GivenUp
  <2>5. CASE WriterAbort(g)
    BY <1>3, <2>5 DEF WriterAbort, Ends, EndPlaces
  <2> QED
    BY <2>1, <2>2, <2>3, <2>4, <2>5 DEF WriterStep
<1>8. \A h \in Gens : Queued(h, Sentinel)' => Queued(h, Sentinel)
  <2>1. ASSUME queue[g] # <<>>, queue'[g] = Tail(queue[g]), Queued(g, Sentinel)' PROVE Queued(g, Sentinel)
    <3>1. \A i \in 1..Len(queue'[g]) : i + 1 \in 1..Len(queue[g]) /\ queue'[g][i] = queue[g][i + 1]
      BY <1>4, <2>1, QueueOps
    <3> QED
      BY <2>1, <3>1 DEF Queued
  <2>2. ASSUME queue'[g] = <<>> PROVE ~Queued(g, Sentinel)'
    BY <2>2 DEF Queued
  <2> QED
    BY <1>5, <2>1, <2>2 DEF Queued
<1>9. EndPlaces'
  BY <1>1, <1>2, <1>3, <1>4, <1>6, <1>7, <1>8 DEF Ends, EndPlaces
<1>10. NotYet'
  BY <1>1, <1>4, <1>5, <1>6 DEF Ends, NotYet
<1>11. CutPlaces'
  <2>1. cut'[g] => writer'[g] \in {"aborting", "exited"}
    BY <1>4 DEF WriterStep, WriterStop, WriterRefuse, WriterTake, WriterFinish, WriterSkips, WriterFails,
       WriterAbort, FailWrites, WriterEnds, Takes, Ends, CutPlaces
  <2> QED
    BY <1>6, <2>1 DEF Ends, CutPlaces
<1>12. SentinelLast'
  <2>1. ASSUME closer \notin {"open", "marked"} PROVE EndsIn(queue'[closeGen])
    <3>1. closeGen = gen /\ EndsIn(queue[closeGen])
      BY <2>1 DEF IInv, Places, CloserPlaces, Ends, SentinelLast, EndsIn
    <3> QED
      BY <1>4, <1>5, <3>1, EndsInOps
  <2> QED
    BY <1>1, <2>1 DEF SentinelLast, EndsIn
<1>13. NewsPlaces'
  BY <1>1, NewsQuiet
<1> QED
  BY <1>9, <1>10, <1>11, <1>12, <1>13 DEF Ends

LEMMA HostEnds == ASSUME IInv, Ends, NEW g \in Gens, Exit(g) \/ \E c \in Calls : Handle(g, c) PROVE Ends'
<1> USE DEF gateVars, callVars, waitVars, hostVars, writerVars, readerVars, ctlVars, closeVars
<1>1. UNCHANGED <<gen, timedOut, stopped, queue, writer, cut, reader, pc, ctl, news, closer, closeGen>>
  BY DEF Exit, Handle, hostEnv
<1>2. proc'[gen] = "alive" => proc[gen] = "alive"
  BY DEF Exit, Handle, IInv, TypeOK
<1>3. closer' \in {"open", "marked"} \/ (closer \notin {"open", "marked"} /\ closeGen' = closeGen)
  BY <1>1
<1>4. EndPlaces' /\ NotYet' /\ CutPlaces' /\ SentinelLast'
  BY <1>1, <1>2, <1>3, EndsQuiet
<1>5. NewsPlaces'
  BY <1>1, NewsQuiet
<1> QED
  BY <1>4, <1>5 DEF Ends

\* The sentinel is put in the queue of a generation that is given up
LEMMA SentinelPut ==
  ASSUME IInv, Ends, NEW g \in Gens, g = gen => GivenUp', g <= gen,
         queue' = [queue EXCEPT ![g] = Append(@, Sentinel)], GivenUp => GivenUp',
         UNCHANGED <<gen, writer, cut>>,
         reader'[gen] \in {"tainted", "failed", "exited"} => stopped' \/ timedOut' = gen,
         \A h \in Gens : reader[h] = "none" => reader'[h] = "none",
         closer' \in {"open", "marked"} \/ (closeGen' = closeGen /\ (closer \notin {"open", "marked"} \/ closeGen = g))
  PROVE  EndPlaces' /\ NotYet' /\ CutPlaces' /\ SentinelLast'
<1>1. gen \in Gens /\ queue \in [Gens -> Seq(Calls \cup {Sentinel})]
  BY DEF IInv, TypeOK
<1>2. queue'[g] = Append(queue[g], Sentinel) /\ \A h \in Gens \ {g} : queue'[h] = queue[h]
  BY <1>1
<1>3. EndPlaces'
  BY <1>1, <1>2 DEF Ends, EndPlaces, Queued
<1>4. NotYet'
  <2>1. \A h \in Gens : h > gen => h # g
    BY <1>1 DEF Gens
  <2> QED
    BY <1>1, <1>2, <2>1 DEF Ends, NotYet
<1>5. CutPlaces'
  BY DEF Ends, CutPlaces
<1>6. SentinelLast'
  <2>1. EndsIn(queue'[g])
    BY <1>1, <1>2, EndsInOps
  <2>2. ASSUME closer \notin {"open", "marked"} PROVE EndsIn(queue'[closeGen])
    <3>1. closeGen = gen /\ EndsIn(queue[closeGen])
      BY <2>2 DEF IInv, Places, CloserPlaces, Ends, SentinelLast, EndsIn
    <3> QED
      BY <1>1, <1>2, <2>1, <3>1
  <2> QED
    BY <2>1, <2>2 DEF SentinelLast, EndsIn
<1> QED
  BY <1>3, <1>4, <1>5, <1>6

LEMMA ReaderEndsStep == ASSUME IInv, Ends, NEW g \in Gens, ReaderStep(g) PROVE Ends'
<1> USE DEF gateVars, callVars, waitVars, hostVars, writerVars, readerVars, ctlVars, closeVars
<1>1. UNCHANGED <<gen, stopped, pc, proc, writer, cut, ctl, closer, closeGen>>
  BY DEF ReaderStep, ReadResponse, DropResponse, PutResponse, ReadEof, ReaderFail, ReaderEnds, readerEnv
<1>2. timedOut' \in {timedOut, gen}
  BY DEF ReaderStep, ReadResponse, DropResponse, PutResponse, ReadEof, ReaderFail, ReaderEnds, Taint,
     IsCurrent, readerEnv
<1>3. GivenUp => GivenUp'
  BY <1>1, <1>2 DEF GivenUp
<1>4. /\ gen \in Gens /\ reader \in [Gens -> {"none", "reading", "popped", "tainted", "failed", "exited"}]
  BY DEF IInv, TypeOK
<1>5. reader[g] \notin {"none", "exited"} /\ \A h \in Gens \ {g} : reader'[h] = reader[h]
  BY <1>4 DEF ReaderStep, ReadResponse, DropResponse, PutResponse, ReadEof, ReaderFail, ReaderEnds
<1>6. closer' \in {"open", "marked"} \/ (closer \notin {"open", "marked"} /\ closeGen' = closeGen)
  BY <1>1
<1>7. ASSUME reader'[gen] \in {"tainted", "failed", "exited"} PROVE stopped \/ timedOut' = gen
  <2>1. CASE reader[gen] \in {"tainted", "failed", "exited"}
    BY <1>2, <2>1 DEF Ends, EndPlaces
  <2>2. CASE reader[gen] \notin {"tainted", "failed", "exited"}
    <3>1. g = gen /\ ReadEof(g)
      BY <1>4, <1>5, <1>7, <2>2
         DEF ReaderStep, ReadResponse, DropResponse, PutResponse, ReadEof, ReaderFail, ReaderEnds
    <3> QED
      BY <3>1 DEF ReadEof, Taint, IsCurrent
  <2> QED
    BY <2>1, <2>2
<1>8. \A h \in Gens : reader[h] = "none" => reader'[h] = "none"
  BY <1>5
<1>9. EndPlaces' /\ NotYet' /\ CutPlaces' /\ SentinelLast'
  <2>1. CASE ReaderFail(g)
    <3>1. reader[g] = "tainted" /\ queue' = [queue EXCEPT ![g] = Append(@, Sentinel)] /\ timedOut' = timedOut
      BY <2>1 DEF ReaderFail
    <3>2. g = gen => GivenUp'
      BY <1>3, <3>1 DEF Ends, EndPlaces, GivenUp
    <3>3. g <= gen
      BY <1>4, <1>5 DEF Ends, NotYet, Gens
    <3>4. stopped' = stopped
      BY <1>1
    <3>5. reader'[gen] \in {"tainted", "failed", "exited"} => stopped' \/ timedOut' = gen
      BY <1>7, <3>4
    <3>6. closer' \in {"open", "marked"}
          \/ (closeGen' = closeGen /\ (closer \notin {"open", "marked"} \/ closeGen = g))
      BY <1>6
    <3>7. UNCHANGED <<gen, writer, cut>>
      BY <1>1
    <3>8. queue' = [queue EXCEPT ![g] = Append(@, Sentinel)]
      BY <3>1
    <3> QED
      BY <1>3, <1>8, <3>2, <3>3, <3>5, <3>6, <3>7, <3>8, SentinelPut
  <2>2. CASE ~ReaderFail(g)
    <3>1. UNCHANGED queue
      BY <2>2 DEF ReaderStep, ReadResponse, DropResponse, PutResponse, ReadEof, ReaderEnds
    <3>2. EndPlaces'
      BY <1>1, <1>3, <1>7, <3>1 DEF Ends, EndPlaces, Queued
    <3>3. NotYet' /\ CutPlaces' /\ SentinelLast'
      BY <1>1, <1>8, <3>1 DEF Ends, NotYet, CutPlaces, SentinelLast
    <3> QED
      BY <3>2, <3>3
  <2> QED
    BY <2>1, <2>2
<1>10. NewsPlaces'
  <2>1. CASE ReaderEnds(g)
    <3>1. news' = (IF Announces(g) THEN "down" ELSE news) /\ reader' = [reader EXCEPT ![g] = "exited"]
      BY <2>1 DEF ReaderEnds
    <3>2. Announces(g) => reader'[gen] = "exited"
      BY <1>4, <3>1 DEF Announces, IsCurrent
    <3>3. reader[gen] = "exited" => reader'[gen] = "exited"
      BY <1>4, <3>1
    <3>4. CASE Announces(g)
      <4>1. gen' = gen /\ reader'[gen] = "exited"
        BY <1>1, <3>2, <3>4
      <4> QED
        BY <4>1 DEF NewsPlaces
    <3>5. CASE ~Announces(g)
      <4>1. news' = news
        BY <3>1, <3>5
      <4> QED
        BY <1>1, <3>3, <4>1, NewsQuiet
    <3> QED
      BY <3>4, <3>5
  <2>2. CASE ~ReaderEnds(g)
    <3>1. news' = news
      BY <2>2 DEF ReaderStep, ReadResponse, DropResponse, PutResponse, ReadEof, ReaderFail
    <3>2. reader[gen] = "exited" => reader'[gen] = "exited"
      BY <1>4, <1>5
    <3> QED
      BY <1>1, <3>1, <3>2, NewsQuiet
  <2> QED
    BY <2>1, <2>2
<1> QED
  BY <1>9, <1>10 DEF Ends

LEMMA KillEnds == ASSUME IInv, Ends, Kill PROVE Ends'
<1> USE DEF gateVars, callVars, waitVars, hostVars, writerVars, readerVars, ctlVars, closeVars
<1>1. /\ ctl = "kill" /\ ctl' = "retry" /\ queue' = [queue EXCEPT ![gen] = Append(@, Sentinel)]
      /\ proc' = [proc EXCEPT ![gen] = "dead"]
      /\ UNCHANGED <<gen, stopped, timedOut, pc, writer, cut, reader, closer, closeGen>>
  BY DEF Kill, Terminate
<1>2. gen \in Gens /\ proc \in [Gens -> {"none", "alive", "dead"}]
  BY DEF IInv, TypeOK
<1>3. \A c \in Calls : pc[c] \notin InFlight
  <2>1. owner /\ cur = Sentinel
    BY <1>1 DEF IInv, Places, CtlPlaces, Owning
  <2>2. active \cap Ext = {}
    BY <2>1 DEF IInv, Places, RecoveryExclusive
  <2>3. \A c \in Calls : c # Sentinel
    BY CallsAssumption
  <2> QED
    BY <2>1, <2>2, <2>3 DEF IInv, Places, CallPlaces, InFlight, Calls
<1>4. proc'[gen] = "dead"
  BY <1>1, <1>2
<1>5. GivenUp'
  BY <1>1, <1>3, <1>4 DEF GivenUp
<1>6. gen <= gen
  BY <1>2 DEF Gens
<1>7. closer' \in {"open", "marked"} \/ (closer \notin {"open", "marked"} /\ closeGen' = closeGen)
  BY <1>1
<1>8. reader'[gen] \in {"tainted", "failed", "exited"} => stopped' \/ timedOut' = gen
  BY <1>1 DEF Ends, EndPlaces
<1>9. \A h \in Gens : reader[h] = "none" => reader'[h] = "none"
  BY <1>1
<1>10. EndPlaces' /\ NotYet' /\ CutPlaces' /\ SentinelLast'
  BY <1>1, <1>2, <1>5, <1>6, <1>7, <1>8, <1>9, SentinelPut
<1>11. NewsPlaces'
  BY <1>1 DEF NewsPlaces
<1> QED
  BY <1>10, <1>11 DEF Ends

LEMMA SpawnEnds == ASSUME IInv, Ends, NEW broken \in BOOLEAN, Spawn(broken) PROVE Ends'
<1> USE DEF gateVars, callVars, waitVars, hostVars, writerVars, readerVars, ctlVars, closeVars
<1>1. /\ gen < MaxGen /\ gen' = gen + 1 /\ ~stopped
      /\ reader' = [reader EXCEPT ![gen + 1] = "reading"]
      /\ \E start \in {"none", "idle"} : writer' = [writer EXCEPT ![gen + 1] = start]
      /\ ctl' \in {"kill", "spawned"}
      /\ UNCHANGED <<queue, cut, stopped, closer, closeGen>>
  BY DEF Spawn, MaySpawn
<1> DEFINE next == gen + 1
<1>2. gen \in Gens /\ next \in Gens /\ next > gen /\ \A g \in Gens : g > next => g > gen /\ g # next
  BY <1>1, BoundsAssumption DEF IInv, TypeOK, Gens
<1>3. gen' = next
  BY <1>1
<1> HIDE DEF next
<1>4. /\ writer'[next] \in {"none", "idle"} /\ reader'[next] = "reading" /\ queue'[next] = <<>>
      /\ \A g \in Gens \ {next} : writer'[g] = writer[g] /\ reader'[g] = reader[g]
  BY <1>1, <1>2 DEF next, Ends, NotYet, IInv, TypeOK
<1>5. EndPlaces'
  <2>1. ~Queued(gen, Sentinel)'
    BY <1>3, <1>4 DEF Queued
  <2> QED
    BY <1>3, <1>4, <2>1 DEF EndPlaces
<1>6. NotYet'
  BY <1>1, <1>2, <1>3, <1>4 DEF Ends, NotYet
<1>7. CutPlaces'
  <2>1. ~cut[next]
    BY <1>2 DEF Ends, CutPlaces, NotYet
  <2> QED
    BY <1>1, <1>4, <2>1 DEF Ends, CutPlaces
<1>8. SentinelLast' /\ NewsPlaces'
  BY <1>1 DEF SentinelLast, NewsPlaces, IInv, Places, CloserPlaces
<1> QED
  BY <1>5, <1>6, <1>7, <1>8 DEF Ends

LEMMA CtlEnds == ASSUME IInv, Ends, CtlStep PROVE Ends'
<1> USE DEF gateVars, callVars, waitVars, hostVars, writerVars, readerVars, ctlVars, closeVars
<1>1. CASE Kill
  BY <1>1, KillEnds
<1>2. ASSUME NEW broken \in BOOLEAN, Spawn(broken) PROVE Ends'
  BY <1>2, SpawnEnds
<1>3. CASE \/ BootBegin \/ ScriptMore \/ BootEnd \/ WatchTick \/ ProbeBegin
           \/ \E c \in Ctl : ProbeCall(c)
           \/ ProbeEnd \/ RecoverBegin \/ Assess \/ Retry \/ SpawnFails \/ CheckSpawned \/ ReplayEnd
  <2>1. UNCHANGED <<gen, stopped, timedOut, queue, writer, cut, reader, proc, closer, closeGen>>
    BY <1>3 DEF BootBegin, ScriptMore, BootEnd, WatchTick, ProbeBegin, ProbeCall, ProbeEnd, RecoverBegin,
       Begin, Assess, Retry, SpawnFails, CheckSpawned, ReplayEnd, ctlEnv, callEnv
  <2>2. \A c \in Calls : pc'[c] \in InFlight => pc[c] \in InFlight
    <3>1. UNCHANGED pc \/ \E c \in Ctl : pc' = [pc EXCEPT ![c] = "admitted"]
      BY <1>3 DEF BootBegin, ScriptMore, BootEnd, WatchTick, ProbeBegin, ProbeCall, ProbeEnd, RecoverBegin,
         Begin, Assess, Retry, SpawnFails, CheckSpawned, ReplayEnd, ctlEnv, Goto
    <3> QED
      BY <3>1 DEF IInv, TypeOK, InFlight
  <2>3. closer' \in {"open", "marked"} \/ (closer \notin {"open", "marked"} /\ closeGen' = closeGen)
    BY <2>1
  <2>4. EndPlaces' /\ NotYet' /\ CutPlaces' /\ SentinelLast'
    BY <2>1, <2>2, <2>3, EndsQuiet
  <2>5. NewsPlaces'
    <3>1. CASE BootBegin \/ RecoverBegin
      BY <2>1, <3>1 DEF BootBegin, RecoverBegin, Begin, Ends, NewsPlaces
    <3>2. CASE ScriptMore \/ \E c \in Ctl : ProbeCall(c)
      BY <2>1, <3>2, NewsQuiet DEF ScriptMore, ProbeCall, callEnv
    <3>3. CASE BootEnd \/ WatchTick \/ ProbeBegin \/ ProbeEnd
      BY <2>1, <3>3 DEF BootEnd, WatchTick, ProbeBegin, ProbeEnd, Ends, NewsPlaces
    <3>4. CASE Assess \/ Retry \/ SpawnFails \/ CheckSpawned \/ ReplayEnd
      BY <3>4 DEF Assess, Retry, SpawnFails, CheckSpawned, ReplayEnd, NewsPlaces
    <3> QED
      BY <1>3, <3>1, <3>2, <3>3, <3>4
  <2> QED
    BY <2>4, <2>5 DEF Ends
<1> QED
  BY <1>1, <1>2, <1>3 DEF CtlStep

LEMMA CloseEnds == ASSUME IInv, Ends, CloseStep PROVE Ends'
<1> USE DEF gateVars, callVars, waitVars, hostVars, writerVars, readerVars, ctlVars, closeVars
<1>1. UNCHANGED <<gen, timedOut, pc, reader, writer, cut, ctl, news>> /\ (stopped => stopped')
  BY DEF CloseStep, CloseMark, CloseSignal, CloseStdin, CloseExited, CloseKill, CloseEnd, Terminate, closeEnv
<1>2. NewsPlaces'
  BY <1>1, NewsQuiet
<1>3. gen \in Gens /\ proc \in [Gens -> {"none", "alive", "dead"}] /\ gen <= gen
  BY DEF IInv, TypeOK, Gens
<1>4. \A h \in Gens : reader[h] = "none" => reader'[h] = "none"
  BY <1>1
<1>5. CASE CloseMark \/ CloseStdin \/ CloseExited \/ CloseEnd
  <2>1. UNCHANGED <<queue, proc>>
    BY <1>5 DEF CloseMark, CloseStdin, CloseExited, CloseEnd
  <2>2. closer' \in {"open", "marked"} \/ (closer \notin {"open", "marked"} /\ closeGen' = closeGen)
    BY <1>5 DEF CloseMark, CloseStdin, CloseExited, CloseEnd
  <2>3. EndPlaces' /\ NotYet' /\ CutPlaces' /\ SentinelLast'
    BY <1>1, <2>1, <2>2, EndsQuiet
  <2> QED
    BY <1>2, <2>3 DEF Ends
<1>6. CASE CloseSignal \/ CloseKill
  <2>1. closer # "open" /\ UNCHANGED <<stopped, closeGen>>
    BY <1>6 DEF CloseSignal, CloseKill
  <2>2. stopped /\ closeGen = gen
    BY <2>1 DEF IInv, Places, CloserPlaces
  <2>3. queue' = [queue EXCEPT ![gen] = Append(@, Sentinel)]
    BY <1>6, <2>2 DEF CloseSignal, CloseKill, Terminate
  <2>4. stopped' /\ GivenUp'
    BY <2>1, <2>2 DEF GivenUp
  <2>5. EndPlaces' /\ NotYet' /\ CutPlaces' /\ SentinelLast'
    BY <1>1, <1>3, <1>4, <2>1, <2>2, <2>3, <2>4, SentinelPut
  <2> QED
    BY <1>2, <2>5 DEF Ends
<1> QED
  BY <1>5, <1>6 DEF CloseStep

LEMMA EndsInit == Init => Ends
<1> SUFFICES ASSUME Init PROVE Ends
  OBVIOUS
<1>1. 1 \in Gens /\ \A g \in Gens : g > 1 => g # 1
  BY BoundsAssumption DEF Gens
<1>2. EndPlaces
  BY <1>1 DEF Init, EndPlaces, Queued
<1>3. NotYet /\ CutPlaces /\ NewsPlaces /\ SentinelLast
  BY <1>1 DEF Init, NotYet, CutPlaces, NewsPlaces, SentinelLast
<1> QED
  BY <1>2, <1>3 DEF Ends

LEMMA EndsStep == IInv /\ Ends /\ [Next]_vars => Ends'
<1> SUFFICES ASSUME IInv, Ends, [Next]_vars PROVE Ends'
  OBVIOUS
<1>1. CASE UNCHANGED vars
  <2>1. UNCHANGED <<gen, timedOut, stopped, queue, writer, cut, reader, pc, proc, ctl, news, closer, closeGen>>
    BY <1>1 DEF vars, gateVars, callVars, waitVars, hostVars, writerVars, readerVars, ctlVars, closeVars
  <2>2. closer' \in {"open", "marked"} \/ (closer \notin {"open", "marked"} /\ closeGen' = closeGen)
    BY <2>1
  <2>3. EndPlaces' /\ NotYet' /\ CutPlaces' /\ SentinelLast'
    BY <2>1, <2>2, EndsQuiet
  <2>4. NewsPlaces'
    BY <2>1, NewsQuiet
  <2> QED
    BY <2>3, <2>4 DEF Ends
<1>2. CASE Next
  BY <1>2, CallEnds, WriterEndsStep, HostEnds, ReaderEndsStep, CtlEnds, CloseEnds DEF Next
<1> QED
  BY <1>1, <1>2

LEMMA EndsAlways == Spec => [](IInv /\ Ends)
<1>1. IInv /\ Ends /\ [Next]_vars => Ends'
  BY EndsStep
<1> QED
  BY <1>1, EndsInit, Invariant, PTL DEF Spec

\* A request is never left behind the end of its writer while the generation is still
\* in use: whoever ends a writer has tainted its generation, is closing, or ended
\* the process with no call in flight.
THEOREM NobodyStranded == Spec => []StrandedOnlyWhenGivenUp
<1>1. IInv /\ Ends => StrandedOnlyWhenGivenUp
  <2> SUFFICES ASSUME IInv, Ends, NEW c \in Calls, pc[c] = "writing", writer[cgen[c]] = "exited"
               PROVE  stopped \/ timedOut = cgen[c]
    BY DEF StrandedOnlyWhenGivenUp
  <2>1. pc[c] \in InFlight /\ cgen[c] = gen
    BY DEF IInv, Places, CallKeepsGeneration, InFlight
  <2>2. GivenUp
    BY <2>1 DEF Ends, EndPlaces
  <2> QED
    BY <2>1, <2>2 DEF GivenUp
<1> QED
  BY <1>1, EndsAlways, PTL

\* _enqueue_request accepts nothing once close() has queued its sentinel, so the writer
\* sees every accepted request before the sentinel.
THEOREM NothingAfterSentinel == Spec => []SentinelLast
<1>1. IInv /\ Ends => SentinelLast
  BY DEF Ends
<1> QED
  BY <1>1, EndsAlways, PTL

\* The reader of an old generation never overrides the "connected" event of its
\* successor: _mark_generation_exited compares the generation under _state_lock.
THEOREM NewsNeverStale == Spec => []NewsIsCurrent
<1>1. IInv /\ Ends => NewsIsCurrent
  BY DEF Ends, NewsPlaces, NewsIsCurrent
<1> QED
  BY <1>1, EndsAlways, PTL

\* Once a write was given up, maybe within a line, the writer of that generation puts
\* nothing more in the pipe.
THEOREM NothingAfterACut == Spec => FramingIntact
<1>1. IInv /\ Ends /\ [Next]_vars => [\A g \in Gens : cut[g] => inbox'[g] \subseteq inbox[g]]_vars
  <2> SUFFICES ASSUME IInv, Ends, Next, NEW h \in Gens, cut[h] PROVE inbox'[h] \subseteq inbox[h]
    BY DEF Ends
  <2> USE DEF gateVars, callVars, waitVars, hostVars, writerVars, readerVars, ctlVars, closeVars
  <2>1. inbox \in [Gens -> SUBSET Calls] /\ writer[h] \in {"aborting", "exited"}
    BY DEF IInv, TypeOK, Ends, CutPlaces
  <2>2. ASSUME NEW c \in Calls, CallStep(c) PROVE inbox' = inbox
    BY <2>2 DEF CallStep, GateAdmit, GateRefuse, Snapshot, NoSnapshot, Register, Enqueue, Reject, Written, NotWritten,
       WriteTimeout, CancelWrite, ResponseTimeout, Drop, TakeResponse, callEnv
  <2>3. ASSUME NEW g \in Gens, WriterStep(g) PROVE inbox'[h] = inbox[h]
    BY <2>1, <2>3 DEF WriterStep, WriterStop, WriterRefuse, WriterTake, WriterFinish, WriterSkips, WriterFails, WriterAbort
  <2>4. ASSUME NEW g \in Gens, Exit(g) \/ \E c \in Calls : Handle(g, c) PROVE inbox'[h] \subseteq inbox[h]
    BY <2>1, <2>4 DEF Exit, Handle
  <2>5. ASSUME NEW g \in Gens, ReaderStep(g) PROVE inbox' = inbox
    BY <2>5 DEF ReaderStep, ReadResponse, DropResponse, PutResponse, ReadEof, ReaderFail, ReaderEnds, readerEnv
  <2>6. ASSUME CtlStep PROVE inbox'[h] \subseteq inbox[h]
    BY <2>1, <2>6 DEF CtlStep, BootBegin, ScriptMore, BootEnd, WatchTick, ProbeBegin, ProbeCall, ProbeEnd,
       RecoverBegin, Begin, Assess, Kill, Terminate, Retry, Spawn, SpawnFails, CheckSpawned, ReplayEnd, ctlEnv, callEnv
  <2>7. ASSUME CloseStep PROVE inbox'[h] \subseteq inbox[h]
    BY <2>1, <2>7 DEF CloseStep, CloseMark, CloseSignal, CloseStdin, CloseExited, CloseKill, CloseEnd, Terminate
  <2> QED
    BY <2>2, <2>3, <2>4, <2>5, <2>6, <2>7 DEF Next
<1> QED
  BY <1>1, EndsAlways, PTL DEF Spec, FramingIntact

----------------------------------------------------------------------------
(* Where a request and its answer are *)

LEMMA RequestsInit == Init => Requests
<1> SUFFICES ASSUME Init PROVE Requests
  OBVIOUS
<1>1. \A g \in Gens, c \in Calls : ~Queued(g, c) /\ wcall[g] # c /\ c \notin inbox[g]
  BY CallsAssumption DEF Init, Queued
<1>2. OnePlace
  <2>1. \A g \in Gens : Len(queue[g]) = 0
    BY DEF Init
  <2> QED
    BY <1>1, <2>1 DEF OnePlace
<1>3. Answered
  BY DEF Init, Answered, Sent
<1> QED
  BY <1>2, <1>3 DEF Requests

\* A step that hands no request on
LEMMA OnePlaceFrame ==
  ASSUME IInv, OnePlace, handled' = handled,
         \A g \in Gens : /\ queue'[g] \in {queue[g], <<>>, Append(queue[g], Sentinel)}
                         /\ wcall'[g] \in {wcall[g], Sentinel} /\ inbox'[g] \subseteq inbox[g],
         \A c \in Calls : pc[c] \in Sent => pc'[c] \in Sent /\ cgen'[c] = cgen[c]
  PROVE  OnePlace'
<1> SUFFICES ASSUME NEW g \in Gens, NEW c \in Calls
             PROVE  /\ \A i, j \in 1..Len(queue'[g]) : queue'[g][i] = c /\ queue'[g][j] = c => i = j
                    /\ Queued(g, c)' => wcall'[g] # c /\ c \notin inbox'[g]
                    /\ wcall'[g] = c => c \notin inbox'[g]
                    /\ Queued(g, c)' \/ wcall'[g] = c \/ c \in inbox'[g] =>
                         cgen'[c] = g /\ pc'[c] \in Sent /\ handled'[c] = 0
  BY DEF OnePlace
<1> DEFINE q == queue[g]
           r == queue'[g]
<1>1. q \in Seq(Calls \cup {Sentinel}) /\ Sentinel # c
  BY CallsAssumption DEF IInv, TypeOK
<1>2. \A i \in 1..Len(r) : r[i] = c => i \in 1..Len(q) /\ q[i] = c
  <2>1. CASE r = q
    BY <2>1
  <2>2. CASE r = <<>>
    BY <2>2
  <2>3. CASE r = Append(q, Sentinel)
    BY <1>1, <2>3, QueueOps
  <2> QED
    BY <2>1, <2>2, <2>3
<1>3. \A i, j \in 1..Len(q) : q[i] = c /\ q[j] = c => i = j
  BY DEF OnePlace
<1>4. \A i, j \in 1..Len(r) : r[i] = c /\ r[j] = c => i = j
  BY <1>2, <1>3
<1>5. Queued(g, c)' => Queued(g, c)
  BY <1>2 DEF Queued
<1>6. wcall'[g] = c => wcall[g] = c
  BY <1>1
<1>7. c \in inbox'[g] => c \in inbox[g]
  OBVIOUS
<1> QED
  BY <1>4, <1>5, <1>6, <1>7 DEF OnePlace

\* A step that answers nothing
LEMMA AnsweredFrame ==
  ASSUME Answered, handled' = handled,
         \A g \in Gens : /\ outbox'[g] \subseteq outbox[g]
                         /\ reader'[g] = "popped" => reader[g] = "popped" /\ rcall'[g] = rcall[g],
         \A c \in Calls : /\ pc'[c] \notin Sent => pc[c] \notin Sent
                          /\ slot'[c] = "reply" => slot[c] = "reply"
                          /\ outcome'[c] = "reply" => pc'[c] = "done"
                          /\ pc'[c] \in {"idle", "admitted"} => cgen'[c] = 0
  PROVE  Answered'
BY DEF Answered

\* The writer takes the first request of its queue
LEMMA TakenInOnePlace ==
  ASSUME IInv, OnePlace, NEW g \in Gens, queue[g] # <<>>,
         wcall' = [wcall EXCEPT ![g] = Head(queue[g])], queue' = [queue EXCEPT ![g] = Tail(@)],
         UNCHANGED <<pc, cgen, handled, inbox>>
  PROVE  OnePlace'
<1> SUFFICES ASSUME NEW h \in Gens, NEW c \in Calls
             PROVE  /\ \A i, j \in 1..Len(queue'[h]) : queue'[h][i] = c /\ queue'[h][j] = c => i = j
                    /\ Queued(h, c)' => wcall'[h] # c /\ c \notin inbox[h]
                    /\ wcall'[h] = c => c \notin inbox[h]
                    /\ Queued(h, c)' \/ wcall'[h] = c \/ c \in inbox[h] =>
                         cgen[c] = h /\ pc[c] \in Sent /\ handled[c] = 0
  BY DEF OnePlace
<1>1. CASE h # g
  <2>1. queue'[h] = queue[h] /\ wcall'[h] = wcall[h]
    BY <1>1 DEF IInv, TypeOK
  <2>2. Queued(h, c)' <=> Queued(h, c)
    BY <2>1 DEF Queued
  <2> QED
    BY <2>1, <2>2 DEF OnePlace
<1>2. CASE h = g
  <2> DEFINE q == queue[h]
             t == Tail(q)
  <2>1. q \in Seq(Calls \cup {Sentinel}) /\ queue'[h] = t /\ wcall'[h] = Head(q)
    BY <1>2 DEF IInv, TypeOK
  <2>2. /\ q # <<>> /\ Head(q) = q[1] /\ 1 \in 1..Len(q)
        /\ \A i \in 1..Len(t) : i + 1 \in 1..Len(q) /\ i + 1 # 1 /\ t[i] = q[i + 1]
    BY <1>2, <2>1, QueueOps
  <2>3. \A i, j \in 1..Len(q) : q[i] = c /\ q[j] = c => i = j
    BY DEF OnePlace
  <2>4. ASSUME NEW i \in 1..Len(t), NEW j \in 1..Len(t), t[i] = c, t[j] = c PROVE i = j
    <3>1. i + 1 = j + 1
      BY <2>2, <2>3, <2>4
    <3> QED
      BY <3>1
  <2>5. (\E i \in 1..Len(t) : t[i] = c) => Queued(h, c) /\ Head(q) # c
    BY <2>2, <2>3 DEF Queued
  <2>6. Head(q) = c => Queued(h, c)
    BY <2>2 DEF Queued
  <2>7. Queued(h, c)' <=> \E i \in 1..Len(t) : t[i] = c
    BY <2>1 DEF Queued
  <2>8. /\ Queued(h, c)' => Queued(h, c) /\ wcall'[h] # c
        /\ wcall'[h] = c => Queued(h, c)
    BY <2>1, <2>5, <2>6, <2>7
  <2>9. /\ Queued(h, c) => c \notin inbox[h]
        /\ Queued(h, c) \/ c \in inbox[h] => cgen[c] = h /\ pc[c] \in Sent /\ handled[c] = 0
    BY DEF OnePlace
  <2>10. \A i, j \in 1..Len(queue'[h]) : queue'[h][i] = c /\ queue'[h][j] = c => i = j
    BY <2>1, <2>4
  <2> HIDE DEF q, t
  <2> QED
    BY <2>8, <2>9, <2>10
<1> QED
  BY <1>1, <1>2

\* A call hands its request to the writer of its generation
LEMMA EnqueuedInOnePlace ==
  ASSUME IInv, Requests, NEW c \in Calls, Enqueue(c) PROVE OnePlace'
<1> USE DEF gateVars, callVars, waitVars, hostVars, readerVars, ctlVars, closeVars
<1>1. /\ pc[c] = "registered" /\ pc'[c] = "writing" /\ \A d \in Calls \ {c} : pc'[d] = pc[d]
      /\ queue' = [queue EXCEPT ![gen] = Append(@, c)]
      /\ UNCHANGED <<cgen, handled, inbox, wcall>>
  BY DEF Enqueue, Goto, IInv, TypeOK
<1>2. gen \in Gens /\ cgen[c] = gen
  BY <1>1 DEF IInv, TypeOK, Places, CallKeepsGeneration, InFlight
<1>3. \A h \in Gens : ~Queued(h, c) /\ wcall[h] # c /\ c \notin inbox[h]
  BY <1>1 DEF Requests, OnePlace, Sent
<1>4. handled[c] = 0
  BY <1>1 DEF Requests, Answered, Sent
<1> SUFFICES ASSUME NEW h \in Gens, NEW d \in Calls
             PROVE  /\ \A i, j \in 1..Len(queue'[h]) : queue'[h][i] = d /\ queue'[h][j] = d => i = j
                    /\ Queued(h, d)' => wcall[h] # d /\ d \notin inbox[h]
                    /\ wcall[h] = d => d \notin inbox[h]
                    /\ Queued(h, d)' \/ wcall[h] = d \/ d \in inbox[h] =>
                         cgen[d] = h /\ pc'[d] \in Sent /\ handled[d] = 0
  BY <1>1 DEF OnePlace
<1>5. d # c => pc'[d] = pc[d]
  BY <1>1
<1>6. CASE h # gen
  <2>1. queue'[h] = queue[h]
    BY <1>1, <1>6 DEF IInv, TypeOK
  <2>2. Queued(h, d)' <=> Queued(h, d)
    BY <2>1 DEF Queued
  <2>3. d = c => ~Queued(h, d) /\ wcall[h] # d /\ d \notin inbox[h]
    BY <1>3
  <2> QED
    BY <1>5, <2>1, <2>2, <2>3 DEF Requests, OnePlace
<1>7. CASE h = gen
  <2> DEFINE q == queue[h]
             r == Append(q, c)
  <2>1. q \in Seq(Calls \cup {Sentinel}) /\ queue'[h] = r
    BY <1>1, <1>2, <1>7 DEF IInv, TypeOK
  <2>2. /\ Len(r) = Len(q) + 1 /\ r[Len(q) + 1] = c
        /\ \A i \in 1..Len(q) : r[i] = q[i]
        /\ \A i \in 1..(Len(q) + 1) : i \in 1..Len(q) \/ i = Len(q) + 1
    BY <2>1, QueueOps
  <2>3. \A i \in 1..Len(q) : q[i] # c
    BY <1>3 DEF Queued
  <2>4. \A i, j \in 1..Len(q) : q[i] = d /\ q[j] = d => i = j
    BY DEF Requests, OnePlace
  <2>5. Queued(h, d)' <=> \E i \in 1..Len(r) : r[i] = d
    BY <2>1 DEF Queued
  <2>6. Queued(h, d) <=> \E i \in 1..Len(q) : q[i] = d
    BY DEF Queued
  <2> HIDE DEF q, r
  <2>7. \A i, j \in 1..Len(r) : r[i] = d /\ r[j] = d => i = j
    BY <2>2, <2>3, <2>4
  <2>8. d # c => (Queued(h, d)' => Queued(h, d))
    BY <2>2, <2>5, <2>6
  <2>9. CASE d = c
    BY <1>1, <1>2, <1>3, <1>4, <1>7, <2>1, <2>7, <2>9 DEF Sent
  <2>10. CASE d # c
    BY <1>5, <2>1, <2>7, <2>8, <2>10 DEF Requests, OnePlace
  <2> QED
    BY <2>9, <2>10
<1> QED
  BY <1>6, <1>7

LEMMA CallRequests == ASSUME IInv, Requests, NEW c \in Calls, CallStep(c) PROVE Requests'
<1> USE DEF gateVars, callVars, waitVars, hostVars, writerVars, readerVars, ctlVars, closeVars
<1>1. /\ UNCHANGED <<handled, outbox, inbox, wcall, reader, rcall>>
      /\ \A d \in Calls \ {c} : pc'[d] = pc[d] /\ outcome'[d] = outcome[d] /\ slot'[d] = slot[d]
  BY DEF CallStep, GateAdmit, GateRefuse, Snapshot, NoSnapshot, Register, Enqueue, Reject, Written,
     NotWritten, WriteTimeout, CancelWrite, ResponseTimeout, Drop, TakeResponse, Return, Goto,
     callEnv, IInv, TypeOK
<1>2. /\ Snapshot(c) => pc[c] = "admitted" /\ pc'[c] = "snapped"
                        /\ \A d \in Calls \ {c} : cgen'[d] = cgen[d]
      /\ ~Snapshot(c) => cgen' = cgen
  BY DEF CallStep, GateAdmit, GateRefuse, Snapshot, NoSnapshot, Register, Enqueue, Reject, Written,
     NotWritten, WriteTimeout, CancelWrite, ResponseTimeout, Drop, TakeResponse, Goto,
     callEnv, IInv, TypeOK
<1>3. /\ pc[c] # "done" /\ (pc[c] \in Sent => pc'[c] \in Sent)
      /\ pc'[c] \in {"idle", "admitted"} => pc[c] \in {"idle", "admitted"} /\ ~Snapshot(c)
      /\ slot'[c] = "reply" => slot[c] = "reply"
      /\ outcome'[c] = "reply" => outcome[c] = "reply" \/ pc'[c] = "done"
  BY DEF CallStep, GateAdmit, GateRefuse, Snapshot, NoSnapshot, Register, Enqueue, Reject, Written,
     NotWritten, WriteTimeout, CancelWrite, ResponseTimeout, Drop, TakeResponse, Return, Goto,
     callEnv, IInv, TypeOK, Sent
<1>4. Enqueue(c) \/ queue' = queue
  BY DEF CallStep, GateAdmit, GateRefuse, Snapshot, NoSnapshot, Register, Reject, Written,
     NotWritten, WriteTimeout, CancelWrite, ResponseTimeout, Drop, TakeResponse, callEnv
<1>5. \A d \in Calls : /\ pc[d] \in Sent => pc'[d] \in Sent /\ cgen'[d] = cgen[d]
                       /\ pc'[d] \notin Sent => pc[d] \notin Sent
                       /\ slot'[d] = "reply" => slot[d] = "reply"
                       /\ outcome'[d] = "reply" => pc'[d] = "done"
                       /\ pc'[d] \in {"idle", "admitted"} => cgen'[d] = 0
  <2> SUFFICES ASSUME NEW d \in Calls
               PROVE  /\ pc[d] \in Sent => pc'[d] \in Sent /\ cgen'[d] = cgen[d]
                      /\ pc'[d] \notin Sent => pc[d] \notin Sent
                      /\ slot'[d] = "reply" => slot[d] = "reply"
                      /\ outcome'[d] = "reply" => pc'[d] = "done"
                      /\ pc'[d] \in {"idle", "admitted"} => cgen'[d] = 0
    OBVIOUS
  <2>1. /\ outcome[d] = "reply" => pc[d] = "done"
        /\ pc[d] \in {"idle", "admitted"} => cgen[d] = 0
    BY DEF Requests, Answered
  <2>2. CASE d = c
    BY <1>2, <1>3, <2>1, <2>2 DEF Sent
  <2>3. CASE d # c
    BY <1>1, <1>2, <2>1, <2>3
  <2> QED
    BY <2>2, <2>3
<1>6. Answered'
  BY <1>1, <1>5, AnsweredFrame DEF Requests
<1>7. OnePlace'
  BY <1>1, <1>4, <1>5, OnePlaceFrame, EnqueuedInOnePlace DEF Requests
<1> QED
  BY <1>6, <1>7 DEF Requests

LEMMA WriterRequests == ASSUME IInv, Requests, NEW g \in Gens, WriterStep(g) PROVE Requests'
<1> USE DEF gateVars, callVars, waitVars, hostVars, writerVars, readerVars, ctlVars, closeVars
<1>1. UNCHANGED <<pc, cgen, outcome, slot, outbox, handled, reader, rcall>>
  BY DEF WriterStep, WriterStop, WriterRefuse, WriterTake, WriterFinish, WriterSkips, WriterFails,
     WriterAbort, writerEnv
<1>2. Answered'
  <2>1. \A c \in Calls : /\ outcome[c] = "reply" => pc[c] = "done"
                         /\ pc[c] \in {"idle", "admitted"} => cgen[c] = 0
    BY DEF Requests, Answered
  <2> QED
    BY <1>1, <2>1, AnsweredFrame DEF Requests
<1>3. CASE WriterTake(g) \/ WriterSkips(g)
  <2>1. /\ queue[g] # <<>> /\ wcall' = [wcall EXCEPT ![g] = Head(queue[g])]
        /\ queue' = [queue EXCEPT ![g] = Tail(@)] /\ UNCHANGED inbox
    BY <1>3 DEF WriterTake, WriterSkips, Takes
  <2> QED
    BY <1>1, <1>2, <2>1, TakenInOnePlace DEF Requests
<1>4. CASE WriterFinish(g)
  <2>1. /\ wcall[g] \in Calls /\ UNCHANGED queue
        /\ \A h \in Gens : /\ inbox'[h] = IF h = g THEN inbox[g] \cup {wcall[g]} ELSE inbox[h]
                           /\ wcall'[h] = IF h = g THEN Sentinel ELSE wcall[h]
    BY <1>4 DEF WriterFinish, IInv, TypeOK
  <2>2. \A h \in Gens, c \in Calls : Queued(h, c)' <=> Queued(h, c)
    BY <2>1 DEF Queued
  <2>3. OnePlace'
    BY <1>1, <2>1, <2>2, CallsAssumption DEF Requests, OnePlace
  <2> QED
    BY <1>2, <2>3 DEF Requests
<1>5. CASE WriterStop(g) \/ WriterRefuse(g) \/ WriterFails(g) \/ WriterAbort(g)
  <2>1. /\ inbox' = inbox
        /\ \A h \in Gens : queue'[h] \in {queue[h], <<>>} /\ wcall'[h] \in {wcall[h], Sentinel}
    BY ZenonT(40), <1>5 DEF WriterStop, WriterRefuse, WriterFails, WriterAbort, FailWrites, IInv, TypeOK
  <2>2. OnePlace'
    BY <1>1, <2>1, OnePlaceFrame DEF Requests
  <2> QED
    BY <1>2, <2>2 DEF Requests
<1> QED
  BY <1>3, <1>4, <1>5 DEF WriterStep

LEMMA HostRequests ==
  ASSUME IInv, Requests, NEW g \in Gens, Exit(g) \/ \E c \in Calls : Handle(g, c) PROVE Requests'
<1> USE DEF gateVars, callVars, waitVars, hostVars, writerVars, readerVars, ctlVars, closeVars
<1>1. UNCHANGED <<pc, cgen, outcome, slot, queue, wcall, reader, rcall>>
  BY DEF Exit, Handle, hostEnv
<1>2. \A c \in Calls : /\ outcome[c] = "reply" => pc[c] = "done"
                       /\ pc[c] \in {"idle", "admitted"} => cgen[c] = 0
  BY DEF Requests, Answered
<1>3. CASE Exit(g)
  <2>1. UNCHANGED <<outbox, handled>> /\ \A h \in Gens : inbox'[h] \subseteq inbox[h]
    BY <1>3 DEF Exit, IInv, TypeOK
  <2> QED
    BY <1>1, <1>2, <2>1, OnePlaceFrame, AnsweredFrame DEF Requests
<1>4. ASSUME NEW c \in Calls, Handle(g, c) PROVE Requests'
  <2>1. /\ c \in inbox[g]
        /\ \A h \in Gens : /\ inbox'[h] = IF h = g THEN inbox[g] \ {c} ELSE inbox[h]
                           /\ outbox'[h] = IF h = g THEN outbox[g] \cup {c} ELSE outbox[h]
        /\ \A d \in Calls : handled'[d] = IF d = c THEN handled[c] + 1 ELSE handled[d]
    BY <1>4 DEF Handle, IInv, TypeOK
  <2>2. /\ cgen[c] = g /\ pc[c] \in Sent /\ handled[c] = 0
        /\ \A h \in Gens : ~Queued(h, c) /\ wcall[h] # c /\ (c \in inbox[h] => h = g)
    BY <2>1 DEF Requests, OnePlace
  <2>3. \A d \in Calls : handled'[d] = IF d = c THEN 1 ELSE handled[d]
    BY <2>1, <2>2
  <2>4. \A h \in Gens, d \in Calls : Queued(h, d)' <=> Queued(h, d)
    BY <1>1 DEF Queued
  <2>5. OnePlace'
    BY <1>1, <2>1, <2>2, <2>3, <2>4 DEF Requests, OnePlace
  <2>6. Answered'
    <3>1. \A h \in Gens : outbox[h] \subseteq Calls /\ (reader[h] = "popped" => rcall[h] \in Calls)
      BY DEF IInv, TypeOK
    <3> QED
      BY <1>1, <2>1, <2>2, <2>3, <3>1 DEF Requests, Answered
  <2> QED
    BY <2>5, <2>6 DEF Requests
<1> QED
  BY <1>3, <1>4

LEMMA ReaderRequests == ASSUME IInv, Requests, NEW g \in Gens, ReaderStep(g) PROVE Requests'
<1> USE DEF gateVars, callVars, waitVars, hostVars, writerVars, readerVars, ctlVars, closeVars
<1>1. UNCHANGED <<pc, cgen, outcome, handled, inbox, wcall>>
  BY DEF ReaderStep, ReadResponse, DropResponse, PutResponse, ReadEof, ReaderFail, ReaderEnds, readerEnv
<1>2. \A c \in Calls : /\ outcome[c] = "reply" => pc[c] = "done"
                       /\ pc[c] \in {"idle", "admitted"} => cgen[c] = 0
  BY DEF Requests, Answered
<1>3. \A h \in Gens : queue'[h] \in {queue[h], Append(queue[h], Sentinel)}
  BY DEF ReaderStep, ReadResponse, DropResponse, PutResponse, ReadEof, ReaderFail, ReaderEnds, IInv, TypeOK
<1>4. OnePlace'
  BY <1>1, <1>3, OnePlaceFrame DEF Requests
<1>5. ASSUME NEW c \in Calls, ReadResponse(g, c) PROVE Answered'
  <2>1. handled[c] = 1 /\ slot' = slot
    BY <1>5 DEF ReadResponse, Requests, Answered
  <2>2. \A h \in Gens : /\ outbox'[h] \subseteq outbox[h]
                       /\ IF h = g THEN rcall'[h] = c ELSE reader'[h] = reader[h] /\ rcall'[h] = rcall[h]
    BY <1>5 DEF ReadResponse, IInv, TypeOK
  <2>3. \A h \in Gens : reader'[h] = "popped" => handled[rcall'[h]] = 1
    BY <2>1, <2>2 DEF Requests, Answered
  <2>4. \A h \in Gens : \A d \in outbox'[h] : handled[d] = 1
    BY <2>2 DEF Requests, Answered
  <2> QED
    BY <1>1, <2>1, <2>3, <2>4 DEF Requests, Answered
<1>6. CASE PutResponse(g)
  <2>1. outbox' = outbox /\ handled[rcall[g]] = 1
    BY <1>6 DEF PutResponse, Requests, Answered
  <2>2. \A h \in Gens : reader'[h] = "popped" => reader[h] = "popped" /\ rcall'[h] = rcall[h]
    BY <1>6 DEF PutResponse, IInv, TypeOK
  <2>3. \A d \in Calls : slot'[d] = "reply" => slot[d] = "reply" \/ d = rcall[g]
    BY <1>6 DEF PutResponse, IInv, TypeOK
  <2>4. \A d \in Calls : slot'[d] = "reply" => handled[d] = 1
    BY <2>1, <2>3 DEF Requests, Answered
  <2>5. \A h \in Gens : reader'[h] = "popped" => handled[rcall'[h]] = 1
    BY <2>2 DEF Requests, Answered
  <2>6. \A h \in Gens : \A d \in outbox'[h] : handled[d] = 1
    BY <2>1 DEF Requests, Answered
  <2> QED
    BY <1>1, <1>4, <2>4, <2>5, <2>6 DEF Requests, Answered
<1>7. CASE ReadEof(g) \/ ReaderFail(g) \/ ReaderEnds(g) \/ \E c \in Calls : DropResponse(g, c)
  <2>1. \A h \in Gens : outbox'[h] \subseteq outbox[h]
    <3>1. outbox' = outbox \/ \E c \in Calls : outbox' = [outbox EXCEPT ![g] = @ \ {c}]
      BY <1>7 DEF ReadEof, ReaderFail, ReaderEnds, DropResponse
    <3> QED
      BY ZenonT(40), <3>1 DEF IInv, TypeOK
  <2>2. \A h \in Gens : reader'[h] = "popped" => reader[h] = "popped" /\ rcall'[h] = rcall[h]
    BY <1>7 DEF ReadEof, ReaderFail, ReaderEnds, DropResponse, IInv, TypeOK
  <2>3. \A d \in Calls : slot'[d] = "reply" => slot[d] = "reply"
    BY <1>7 DEF ReadEof, ReaderFail, ReaderEnds, DropResponse, FailPending
  <2>4. \A d \in Calls : /\ pc'[d] \notin Sent => pc[d] \notin Sent
                         /\ outcome'[d] = "reply" => pc'[d] = "done"
                         /\ pc'[d] \in {"idle", "admitted"} => cgen'[d] = 0
    BY <1>1, <1>2
  <2> QED
    BY <1>1, <1>4, <2>1, <2>2, <2>3, <2>4, AnsweredFrame DEF Requests
<1> QED
  BY <1>4, <1>5, <1>6, <1>7 DEF Requests, ReaderStep

LEMMA CtlRequests == ASSUME IInv, Requests, CtlStep \/ CloseStep PROVE Requests'
<1> USE DEF gateVars, callVars, waitVars, hostVars, writerVars, readerVars, ctlVars, closeVars
<1>1. /\ UNCHANGED <<cgen, outcome, handled, outbox, wcall, rcall>>
      /\ \A h \in Gens : /\ queue'[h] \in {queue[h], Append(queue[h], Sentinel)}
                         /\ inbox'[h] \subseteq inbox[h]
                         /\ reader'[h] = "popped" => reader[h] = "popped"
      /\ \A d \in Calls : slot'[d] = "reply" => slot[d] = "reply"
  <2>1. CASE CtlStep
    <3>1. CASE \E c \in Ctl : ProbeCall(c)
      BY <3>1 DEF ProbeCall, callEnv
    <3>2. CASE Kill
      BY <3>2 DEF Kill, Terminate, FailPending, IInv, TypeOK
    <3>3. CASE \E broken \in BOOLEAN : Spawn(broken)
      BY <3>3 DEF Spawn, IInv, TypeOK
    <3>4. CASE BootBegin \/ ScriptMore \/ BootEnd \/ WatchTick \/ ProbeBegin \/ ProbeEnd \/ RecoverBegin
               \/ Assess \/ Retry \/ SpawnFails \/ CheckSpawned \/ ReplayEnd
      BY <3>4 DEF BootBegin, ScriptMore, BootEnd, WatchTick, ProbeBegin, ProbeEnd, RecoverBegin, Begin,
         Assess, Retry, SpawnFails, CheckSpawned, ReplayEnd, ctlEnv
    <3> QED
      BY <2>1, <3>1, <3>2, <3>3, <3>4 DEF CtlStep
  <2>2. CASE CloseStep
    BY <2>2 DEF CloseStep, CloseMark, CloseSignal, CloseStdin, CloseExited, CloseKill, CloseEnd,
       Terminate, FailPending, closeEnv, IInv, TypeOK
  <2> QED
    BY <2>1, <2>2
<1>2. \A d \in Calls : pc'[d] = pc[d] \/ (pc[d] = "idle" /\ pc'[d] = "admitted")
  <2>1. ASSUME NEW c \in Ctl, ProbeCall(c) PROVE \A d \in Calls : pc'[d] = pc[d] \/ (pc[d] = "idle" /\ pc'[d] = "admitted")
    BY <2>1 DEF ProbeCall, Goto, Calls, IInv, TypeOK
  <2>2. CASE ~\E c \in Ctl : ProbeCall(c)
    BY <2>2 DEF CtlStep, CloseStep, BootBegin, ScriptMore, BootEnd, WatchTick, ProbeBegin, ProbeEnd, RecoverBegin,
       Begin, Assess, Kill, Retry, Spawn, SpawnFails, CheckSpawned, ReplayEnd, ctlEnv, CloseMark, CloseSignal,
       CloseStdin, CloseExited, CloseKill, CloseEnd, closeEnv
  <2> QED
    BY <2>1, <2>2
<1>3. OnePlace'
  <2>1. \A c \in Calls : pc[c] \in Sent => pc'[c] \in Sent /\ cgen'[c] = cgen[c]
    BY <1>1, <1>2 DEF Sent
  <2> QED
    BY <1>1, <2>1, OnePlaceFrame DEF Requests
<1>4. Answered'
  <2>1. \A c \in Calls : /\ outcome'[c] = "reply" => pc'[c] = "done"
                         /\ pc'[c] \in {"idle", "admitted"} => cgen'[c] = 0
                         /\ pc'[c] \notin Sent => pc[c] \notin Sent
    BY <1>1, <1>2 DEF Requests, Answered, Sent
  <2> QED
    BY <1>1, <2>1, AnsweredFrame DEF Requests
<1> QED
  BY <1>3, <1>4 DEF Requests

LEMMA RequestsStep == IInv /\ Requests /\ [Next]_vars => Requests'
<1> SUFFICES ASSUME IInv, Requests, [Next]_vars PROVE Requests'
  OBVIOUS
<1>1. CASE UNCHANGED vars
  BY <1>1 DEF vars, gateVars, callVars, waitVars, hostVars, writerVars, readerVars, ctlVars, closeVars,
     Requests, OnePlace, Answered, Queued
<1>2. CASE Next
  BY <1>2, CallRequests, WriterRequests, HostRequests, ReaderRequests, CtlRequests DEF Next
<1> QED
  BY <1>1, <1>2

LEMMA RequestsAlways == Spec => [](IInv /\ Requests)
<1>1. Init => IInv
  BY TypeInit, PlacesInit DEF IInv
<1> QED
  BY <1>1, IInvStep, RequestsInit, RequestsStep, PTL DEF Spec

----------------------------------------------------------------------------
(* The contract *)

Status == [c \in Calls |-> StatusOf(pc[c], cgen[c], outcome[c])]

LEMMA StatusIs ==
  ASSUME NEW p, NEW g, NEW o
  PROVE  /\ p \in InFlight => StatusOf(p, g, o) = "open"
         /\ p \in {"idle", "admitted"} => StatusOf(p, g, o) = "new"
         /\ p = "done" /\ g = 0 => StatusOf(p, g, o) = "new"
         /\ p = "done" /\ g # 0 => StatusOf(p, g, o) = IF o = "reply" THEN "replied" ELSE "failed"
BY DEF StatusOf, InFlight

LEMMA AllStatus ==
  ASSUME NEW c \in Calls
  PROVE  /\ pc[c] \in InFlight => Status[c] = "open"
         /\ pc[c] \in {"idle", "admitted"} => Status[c] = "new"
         /\ pc[c] = "done" /\ cgen[c] = 0 => Status[c] = "new"
         /\ pc[c] = "done" /\ cgen[c] # 0 =>
              Status[c] = IF outcome[c] = "reply" THEN "replied" ELSE "failed"
BY StatusIs DEF Status

LEMMA AllStatusNext ==
  ASSUME NEW c \in Calls
  PROVE  /\ pc'[c] \in InFlight => Status'[c] = "open"
         /\ pc'[c] \in {"idle", "admitted"} => Status'[c] = "new"
         /\ pc'[c] = "done" /\ cgen'[c] = 0 => Status'[c] = "new"
         /\ pc'[c] = "done" /\ cgen'[c] # 0 =>
              Status'[c] = IF outcome'[c] = "reply" THEN "replied" ELSE "failed"
<1>1. Status'[c] = StatusOf(pc'[c], cgen'[c], outcome'[c])
  BY DEF Status
<1> QED
  BY <1>1, StatusIs

\* A step in which only c moves
LEMMA OneMoves ==
  ASSUME NEW c \in Calls,
         \A d \in Calls \ {c} : pc'[d] = pc[d] /\ cgen'[d] = cgen[d] /\ outcome'[d] = outcome[d]
  PROVE  /\ Status' = [Status EXCEPT ![c] = Status'[c]]
         /\ Status'[c] = Status[c] => Status' = Status
BY DEF Status

LEMMA ContractInit == Init => Contract!AInit
<1> SUFFICES ASSUME Init PROVE Contract!AInit
  OBVIOUS
<1>1. \A c \in Calls : StatusOf(pc[c], cgen[c], outcome[c]) = "new"
  BY StatusIs DEF Init
<1> QED
  BY <1>1 DEF Init, Contract!AInit

LEMMA CallKeepsContract ==
  ASSUME IInv, Requests, NEW c \in Calls, CallStep(c) PROVE [Contract!ANext]_(Contract!avars)
<1> USE DEF gateVars, callVars, waitVars, hostVars, writerVars, readerVars, ctlVars, closeVars
<1>0. /\ UNCHANGED <<gen, handled>>
      /\ Snapshot(c) \/ cgen' = cgen
  BY DEF CallStep, GateAdmit, GateRefuse, Snapshot, NoSnapshot, Register, Enqueue, Reject, Written,
     NotWritten, WriteTimeout, CancelWrite, ResponseTimeout, Drop, TakeResponse, callEnv
<1>1. /\ UNCHANGED <<gen, handled>>
      /\ \A d \in Calls \ {c} : pc'[d] = pc[d] /\ outcome'[d] = outcome[d] /\ cgen'[d] = cgen[d]
  <2>1. \A d \in Calls \ {c} : pc'[d] = pc[d] /\ outcome'[d] = outcome[d]
    <3>1. \E place : Goto(c, place)
      BY DEF CallStep, GateAdmit, GateRefuse, Snapshot, NoSnapshot, Register, Enqueue, Reject, Written,
         NotWritten, WriteTimeout, CancelWrite, ResponseTimeout, Drop, TakeResponse, Return
    <3>2. outcome' = outcome \/ \E got : outcome' = [outcome EXCEPT ![c] = got]
      BY DEF CallStep, GateAdmit, GateRefuse, Snapshot, NoSnapshot, Register, Enqueue, Reject, Written,
         NotWritten, WriteTimeout, CancelWrite, ResponseTimeout, Drop, TakeResponse
    <3> QED
      BY <3>1, <3>2 DEF Goto, IInv, TypeOK
  <2>2. \A d \in Calls \ {c} : cgen'[d] = cgen[d]
    BY <1>0 DEF Snapshot, IInv, TypeOK
  <2> QED
    BY <1>0, <2>1, <2>2
<1>2. /\ Status' = [Status EXCEPT ![c] = Status'[c]]
      /\ Status'[c] = Status[c] => Status' = Status
  BY <1>1, OneMoves DEF IInv
<1>3. gen # 0
  BY DEF IInv, TypeOK, Gens
<1>4. CASE Snapshot(c)
  <2>1. pc[c] = "admitted" /\ pc'[c] = "snapped" /\ cgen' = [cgen EXCEPT ![c] = gen]
    BY <1>4 DEF Snapshot, Goto, IInv, TypeOK
  <2>2. Status[c] = "new" /\ Status'[c] = "open"
    BY <2>1, AllStatus, AllStatusNext DEF InFlight
  <2>3. Contract!Open(c)
    BY <1>1, <1>2, <2>1, <2>2 DEF Contract!Open, Status
  <2> QED
    BY <2>3 DEF Contract!ANext
<1>5. CASE GateAdmit(c) \/ GateRefuse(c) \/ NoSnapshot(c)
  <2>1. cgen' = cgen /\ pc[c] \in {"idle", "admitted"} /\ pc'[c] \in {"admitted", "done"}
    BY <1>5 DEF GateAdmit, GateRefuse, NoSnapshot, Return, Goto, IInv, TypeOK
  <2>2. cgen[c] = 0
    BY <2>1 DEF Requests, Answered
  <2>3. Status[c] = "new" /\ Status'[c] = "new"
    BY <2>1, <2>2, AllStatus, AllStatusNext
  <2> QED
    BY <1>1, <1>2, <2>1, <2>3 DEF Contract!avars, Status
<1>6. CASE Register(c) \/ Enqueue(c) \/ Written(c) \/ NotWritten(c) \/ WriteTimeout(c) \/ CancelWrite(c)
           \/ ResponseTimeout(c)
  <2>1. cgen' = cgen /\ pc[c] \in InFlight /\ pc'[c] \in InFlight
    BY <1>6 DEF Register, Enqueue, Written, NotWritten, WriteTimeout, CancelWrite, ResponseTimeout,
       Goto, callEnv, IInv, TypeOK, InFlight
  <2>2. Status[c] = "open" /\ Status'[c] = "open"
    BY <2>1, AllStatus, AllStatusNext
  <2> QED
    BY <1>1, <1>2, <2>1, <2>2 DEF Contract!avars, Status
<1>7. CASE Reject(c) \/ Drop(c) \/ TakeResponse(c)
  <2>1. cgen' = cgen /\ pc[c] \in InFlight /\ pc'[c] = "done"
    BY <1>7 DEF Reject, Drop, TakeResponse, Return, Goto, IInv, TypeOK, InFlight
  <2>2. cgen'[c] # 0
    BY <1>3, <2>1 DEF IInv, Places, CallKeepsGeneration
  <2>3. Status[c] = "open" /\ Status'[c] = IF outcome'[c] = "reply" THEN "replied" ELSE "failed"
    BY <2>1, <2>2, AllStatus, AllStatusNext
  <2>4. outcome'[c] = "reply" => handled[c] = 1
    <3>1. outcome[c] # "reply" /\ (slot[c] = "reply" => handled[c] = 1)
      BY <2>1 DEF Requests, Answered, InFlight
    <3>2. outcome'[c] = "reply" => outcome[c] = "reply" \/ slot[c] = "reply"
      BY <1>7 DEF Reject, Drop, TakeResponse, IInv, TypeOK
    <3> QED
      BY <3>1, <3>2
  <2>5. Contract!Reply(c) \/ Contract!Fail(c)
    BY <1>1, <1>2, <2>1, <2>3, <2>4 DEF Contract!Reply, Contract!Fail, Status
  <2> QED
    BY <2>5 DEF Contract!ANext
<1> QED
  BY <1>4, <1>5, <1>6, <1>7 DEF CallStep

LEMMA HandleKeepsContract ==
  ASSUME IInv, Requests, NEW g \in Gens, NEW c \in Calls, Handle(g, c)
  PROVE  [Contract!ANext]_(Contract!avars)
<1> USE DEF gateVars, callVars, waitVars, hostVars, writerVars, readerVars, ctlVars, closeVars
<1>1. /\ UNCHANGED <<gen, pc, cgen, outcome>> /\ proc[g] = "alive" /\ c \in inbox[g]
      /\ handled' = [handled EXCEPT ![c] = @ + 1]
  BY DEF Handle, hostEnv
<1>2. g = gen /\ g # 0
  BY <1>1 DEF IInv, Places, LiveIsCurrent, Gens
<1>3. cgen[c] = g /\ pc[c] \in Sent /\ handled[c] = 0
  BY <1>1 DEF Requests, OnePlace
<1>4. Status[c] # "new"
  BY <1>2, <1>3, AllStatus DEF IInv, Sent, InFlight
<1>5. handled' = [handled EXCEPT ![c] = 1]
  BY <1>1, <1>3
<1>6. Contract!Execute(c)
  BY <1>1, <1>2, <1>3, <1>4, <1>5 DEF Contract!Execute, Status
<1> QED
  BY <1>6 DEF Contract!ANext

LEMMA SpawnKeepsContract ==
  ASSUME IInv, NEW broken \in BOOLEAN, Spawn(broken)
  PROVE  [Contract!ANext]_(Contract!avars)
<1> USE DEF gateVars, callVars, waitVars, hostVars, writerVars, readerVars, ctlVars, closeVars
<1>1. ctl = "spawning" /\ gen' = gen + 1 /\ UNCHANGED <<pc, cgen, outcome, handled>>
  BY DEF Spawn
<1>2. owner /\ cur = Sentinel
  BY <1>1 DEF IInv, Places, CtlPlaces, Owning
<1>3. \A c \in Calls : pc[c] \notin InFlight
  <2>1. \A c \in Calls : c \in Ext \/ c \in Ctl
    BY DEF Calls
  <2>2. \A c \in Calls : pc[c] \notin {"idle", "done"} => c \in Ext /\ c \in active
    BY <1>2, <2>1, CallsAssumption DEF IInv, Places, CallPlaces
  <2> QED
    BY <1>2, <2>2 DEF IInv, Places, RecoveryExclusive, InFlight
<1>4. \A c \in Calls : Status[c] # "open"
  BY <1>3, AllStatus DEF IInv, TypeOK
<1>5. Contract!NextEpoch
  BY <1>1, <1>4 DEF Contract!NextEpoch, Status
<1> QED
  BY <1>5 DEF Contract!ANext

\* The steps of the threads that the contract does not see
LEMMA UnseenSteps ==
  ASSUME IInv, [Next]_vars,
         ~\E c \in Calls : CallStep(c), ~\E g \in Gens, c \in Calls : Handle(g, c),
         ~\E broken \in BOOLEAN : Spawn(broken)
  PROVE  UNCHANGED Contract!avars
<1> USE DEF gateVars, callVars, waitVars, hostVars, writerVars, readerVars, ctlVars, closeVars
<1>1. ASSUME NEW c \in Ctl, ProbeCall(c) PROVE UNCHANGED Contract!avars
  <2>1. c \in Calls /\ pc[c] = "idle" /\ pc' = [pc EXCEPT ![c] = "admitted"]
        /\ UNCHANGED <<gen, cgen, outcome, handled>>
    BY <1>1 DEF ProbeCall, Goto, callEnv, Calls
  <2>2. pc'[c] = "admitted" /\ \A d \in Calls \ {c} : pc'[d] = pc[d]
    BY <2>1 DEF IInv, TypeOK
  <2>3. Status[c] = "new" /\ Status'[c] = "new"
    BY <2>1, <2>2, AllStatus, AllStatusNext
  <2>4. Status' = Status
    BY <2>1, <2>2, <2>3, OneMoves DEF IInv
  <2> QED
    BY <2>1, <2>4 DEF Contract!avars, Status
<1>2. CASE ~\E c \in Ctl : ProbeCall(c)
  <2>1. UNCHANGED <<gen, pc, cgen, outcome, handled>>
    <3>1. ASSUME NEW g \in Gens, WriterStep(g) PROVE UNCHANGED <<gen, pc, cgen, outcome, handled>>
      BY <3>1 DEF WriterStep, WriterStop, WriterRefuse, WriterTake, WriterFinish, WriterSkips, WriterFails,
         WriterAbort, writerEnv
    <3>2. ASSUME NEW g \in Gens, ReaderStep(g) PROVE UNCHANGED <<gen, pc, cgen, outcome, handled>>
      BY <3>2 DEF ReaderStep, ReadResponse, DropResponse, PutResponse, ReadEof, ReaderFail, ReaderEnds, readerEnv
    <3>3. ASSUME NEW g \in Gens, Exit(g) PROVE UNCHANGED <<gen, pc, cgen, outcome, handled>>
      BY <3>3 DEF Exit, hostEnv
    <3>4. ASSUME CtlStep PROVE UNCHANGED <<gen, pc, cgen, outcome, handled>>
      BY <1>2, <3>4 DEF CtlStep, BootBegin, ScriptMore, BootEnd, WatchTick, ProbeBegin, ProbeEnd, RecoverBegin,
         Begin, Assess, Kill, Terminate, Retry, SpawnFails, CheckSpawned, ReplayEnd, ctlEnv
    <3>5. ASSUME CloseStep PROVE UNCHANGED <<gen, pc, cgen, outcome, handled>>
      BY <3>5 DEF CloseStep, CloseMark, CloseSignal, CloseStdin, CloseExited, CloseKill, CloseEnd, Terminate, closeEnv
    <3>6. CASE UNCHANGED vars
      BY <3>6 DEF vars
    <3> QED
      BY <3>1, <3>2, <3>3, <3>4, <3>5, <3>6 DEF Next
  <2> QED
    BY <2>1 DEF Contract!avars
<1> QED
  BY <1>1, <1>2

LEMMA ContractStep == IInv /\ Requests /\ [Next]_vars => [Contract!ANext]_(Contract!avars)
BY CallKeepsContract, HandleKeepsContract, SpawnKeepsContract, UnseenSteps

\* Whatever processes come and go, a request is executed at most once, only by the
\* generation it was made in, "reply" is told only of a request that was executed,
\* and a generation is replaced only when no call is in flight: call_blocking, the
\* writer, the reader and the watchdog together implement AtMostOnceRpc.
THEOREM AtMostOnceHolds == Spec => AtMostOnce
<1>1. IInv /\ Requests /\ [Next]_vars => [Contract!ANext]_(Contract!avars)
  BY ContractStep
<1>2. Spec => Init /\ [][Next]_vars
  BY DEF Spec
<1> QED
  BY <1>1, <1>2, ContractInit, RequestsAlways, PTL DEF AtMostOnce, Contract!ASpec

==============================================================================
