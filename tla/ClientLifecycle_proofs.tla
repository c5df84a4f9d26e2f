----------------------- MODULE ClientLifecycle_proofs -----------------------
(***************************************************************************)
(* What holds of every bridge client, however many goroutines connect,     *)
(* disconnect and emit: the types and locks, and the three safety          *)
(* properties of ClientLifecycle.                                          *)
(***************************************************************************)
EXTENDS ClientLifecycle, TLAPS

----------------------------------------------------------------------------
(* The inductive invariant *)

\* How far a closer is: it runs, it has had connectMu, it has hung up
Running(t)  == dpc[t] \notin {"idle", "back"}
Locked(t)   == dpc[t] \in {"read", "joining", "securing", "hanging", "locking", "closing"}
Secured(t)  == dpc[t] \in {"hanging", "locking", "closing"}
HungUp(t)   == dpc[t] \in {"locking", "closing"}

\* disconnectOnce lets one closer run
OneCloser ==
  /\ once = "new" => \A t \in Closers : dpc[t] = "idle"
  /\ once # "new" => cancelled
  /\ \A t \in Closers : Running(t) => once = "running"
  /\ \A t, u \in Closers : Running(t) /\ Running(u) => t = u
  /\ \A t \in Closers : dpc[t] = "marked" \/ Locked(t) => disconnected
  /\ once = "done" => disconnected

\* Only the current E2EE client is ever up, and nobody replaces one that is
CurrentLink ==
  /\ \A s \in Securers : link[s] = "up" => e2ee = s
  /\ \A s \in Securers : cpc[s] = "preparing" => \A u \in Securers : link[u] = "down"
  /\ \A s \in Securers : cpc[s] \in {"registering", "dialling", "checking"} => e2ee = s
  /\ \A s \in Securers : cpc[s] # "loading"

\* Once Disconnect has had connectMu nobody connects any more, and what was up
\* is the client it took
NobodyConnects == connectMu = Nobody
Closing ==
  /\ \A t \in Closers : Locked(t) => NobodyConnects
  /\ once = "done" => NobodyConnects
  /\ \A t \in Closers : Locked(t) => Secured(t) \/ taken[t] = e2ee
  /\ \A t \in Closers : Secured(t) => \A s \in Securers : link[s] = "down"
  /\ \A t \in Closers : HungUp(t) => socket = "down"

LifecycleInv ==
  CallTypes /\ ConnectLock /\ OneCloser /\ CurrentLink /\ Closing /\ NothingUpAfterDisconnect

\* Nobody is inside a closed stream
StreamInv == StreamTypes /\ StreamLock /\ NoSendOnClosed

\* The order of the snapshots, stage by stage
Below(n) == seen < n /\ \A i \in 1..Len(eventChan) : eventChan[i] < n
Order ==
  /\ \A i \in 1..Len(eventChan) : eventChan[i] # 0 => seen < eventChan[i]
  /\ \A i, j \in 1..Len(eventChan) : i < j /\ eventChan[j] # 0 => eventChan[i] < eventChan[j]
  /\ epc[Dispatcher] # "idle" => Below(item[Dispatcher])
  /\ pending # 0 => Below(pending)
  /\ pending # 0 /\ epc[Dispatcher] # "idle" => item[Dispatcher] < pending
  /\ \A t \in Emitters : t # Dispatcher => item[t] = 0

\* Every snapshot was committed
Committed ==
  /\ seen <= committed /\ pending <= committed /\ item[Dispatcher] <= committed
  /\ \A i \in 1..Len(eventChan) : eventChan[i] <= committed

SnapshotInv == Order /\ Committed

----------------------------------------------------------------------------
LEMMA LifecycleStep == LifecycleInv /\ [Next]_vars => LifecycleInv'
<1> SUFFICES ASSUME LifecycleInv, [Next]_vars PROVE LifecycleInv'
  OBVIOUS
<1> USE GoroutinesAssumption DEF LifecycleInv, CallTypes, ConnectLock, OneCloser, CurrentLink, Closing,
    NothingUpAfterDisconnect, Running, Locked, Secured, HungUp, NobodyConnects, Alive, Goto, Returns,
    At, To, lifecycle, callers, links, stream, store, output, Connectors, Emitters, Enqueue, ConnectFree
<1>1. ASSUME NEW t \in Emitters, LockStream(t) PROVE LifecycleInv'
  BY <1>1 DEF LockStream
<1>2. ASSUME NEW t \in Emitters, Send(t) PROVE LifecycleInv'
  BY <1>2 DEF Send
<1>3. ASSUME NEW t \in Emitters, Callback(t) PROVE LifecycleInv'
  BY <1>3 DEF Callback
<1>4. ASSUME Woken PROVE LifecycleInv'
  BY <1>4 DEF Woken
<1>5. ASSUME Look PROVE LifecycleInv'
  BY <1>5 DEF Look
<1>6. ASSUME CalledBack PROVE LifecycleInv'
  BY <1>6 DEF CalledBack
<1>7. ASSUME Mutate PROVE LifecycleInv'
  BY <1>7 DEF Mutate
<1>8. ASSUME Pump PROVE LifecycleInv'
  BY <1>8 DEF Pump
<1>9. ASSUME Lost PROVE LifecycleInv'
  BY <1>9 DEF Lost
<1>10. ASSUME NEW t \in Connectors, Begin(t) PROVE LifecycleInv'
  BY <1>10 DEF Begin
<1>11. ASSUME NEW t \in Connectors, Dial(t) PROVE LifecycleInv'
  BY <1>11 DEF Dial
<1>12. ASSUME NEW t \in Connectors, Check(t) PROVE LifecycleInv'
  BY <1>12 DEF Check
<1>13. ASSUME NEW t \in Sockets, Load(t) PROVE LifecycleInv'
  BY <1>13 DEF Load
<1>14. ASSUME NEW t \in Securers, Prepare(t) PROVE LifecycleInv'
  BY <1>14 DEF Prepare
<1>15. ASSUME NEW t \in Securers, Register(t) PROVE LifecycleInv'
  BY <1>15 DEF Register
<1>16. ASSUME NEW t \in Closers, CancelClient(t) PROVE LifecycleInv'
  BY <1>16 DEF CancelClient
<1>17. ASSUME NEW t \in Closers, AlreadyDone(t) PROVE LifecycleInv'
  BY <1>17 DEF AlreadyDone
<1>18. ASSUME NEW t \in Closers, MarkDisconnected(t) PROVE LifecycleInv'
  BY <1>18 DEF MarkDisconnected
<1>19. ASSUME NEW t \in Closers, ReadClients(t) PROVE LifecycleInv'
  <2>1. At(t, "marked") /\ connectMu = Nobody /\ taken' = [taken EXCEPT ![t] = e2ee] /\ To(t, "read")
    BY <1>19 DEF ReadClients
  <2>2. UNCHANGED <<cancelled, disconnected, once, connectMu, cpc, socket, e2ee, link>>
    BY <1>19 DEF ReadClients
  <2>3. CallTypes'
    BY <2>1, <2>2
  <2>4. OneCloser' /\ disconnected
    BY <2>1, <2>2
  <2>5. Closing'
    BY <2>1, <2>2
  <2> QED
    BY <2>1, <2>2, <2>3, <2>4, <2>5
<1>20. ASSUME NEW t \in Closers, StopDispatcher(t) PROVE LifecycleInv'
  BY <1>20 DEF StopDispatcher
<1>21. ASSUME NEW t \in Closers, JoinDispatcher(t) PROVE LifecycleInv'
  BY <1>21 DEF JoinDispatcher
<1>22. ASSUME NEW t \in Closers, HangUpE2EE(t) PROVE LifecycleInv'
  BY <1>22 DEF HangUpE2EE
<1>23. ASSUME NEW t \in Closers, HangUp(t) PROVE LifecycleInv'
  BY <1>23 DEF HangUp
<1>24. ASSUME NEW t \in Closers, AwaitStream(t) PROVE LifecycleInv'
  BY <1>24 DEF AwaitStream
<1>25. ASSUME NEW t \in Closers, CloseStream(t) PROVE LifecycleInv'
  BY <1>25 DEF CloseStream
<1>26. ASSUME UNCHANGED vars PROVE LifecycleInv'
  BY <1>26 DEF vars
<1> QED
  BY <1>1, <1>2, <1>3, <1>4, <1>5, <1>6, <1>7, <1>8, <1>9, <1>10, <1>11, <1>12, <1>13, <1>14, <1>15, <1>16, <1>17, <1>18, <1>19, <1>20, <1>21, <1>22, <1>23, <1>24, <1>25, <1>26
     DEF Next, EmitStep, ConnectStep, DisconnectStep, DispatchStep, Connectors

\* Reading shortens the stream
LEMMA ShorterFits ==
  ASSUME NEW S, NEW q \in Seq(S), NEW r, r = q \/ (q # <<>> /\ r = Tail(q)), Len(q) <= Cap
  PROVE  r \in Seq(S) /\ Len(r) <= Cap
<1>1. Cap \in Nat /\ Len(q) \in Nat
  BY ClientBoundsAssumption
<1>2. q # <<>> => Tail(q) \in Seq(S) /\ Len(Tail(q)) = Len(q) - 1
  OBVIOUS
<1> QED
  BY <1>1, <1>2

LEMMA Numbers ==
  /\ 0 \in Snapshots /\ \A n \in Snapshots : n \in Nat
  /\ \A n \in Snapshots : n < MaxSnaps => n + 1 \in Snapshots
BY ClientBoundsAssumption DEF Snapshots

LEMMA EventNumbers ==
  ASSUME NEW n \in 0..MaxEvents, n < MaxEvents PROVE n + 1 \in 0..MaxEvents
BY ClientBoundsAssumption

LEMMA StreamStep == StreamInv /\ StoreTypes /\ [Next]_vars => StreamInv'
<1> SUFFICES ASSUME StreamInv, pending \in Snapshots, [Next]_vars PROVE StreamInv'
  BY DEF StoreTypes
<1> USE GoroutinesAssumption, Numbers DEF StreamInv, StreamTypes, StreamLock, NoSendOnClosed, Emits, lifecycle, callers, links, stream,
    store, output, StreamFree
<1>1. ASSUME NEW t \in Emitters, LockStream(t) PROVE StreamInv'
  BY <1>1 DEF LockStream
<1>2. ASSUME NEW t \in Emitters, Send(t) PROVE StreamInv'
  <2>1. item[t] \in Snapshots /\ Cap \in Nat
    BY <1>2, ClientBoundsAssumption
  <2>2. eventChan' \in Seq(Snapshots) /\ Len(eventChan') <= Cap
    <3>1. CASE Len(eventChan) < Cap /\ eventChan' = Append(eventChan, item[t])
      BY <2>1, <3>1
    <3>2. CASE eventChan' = eventChan
      BY <3>2
    <3> QED
      BY <1>2, <3>1, <3>2 DEF Send
  <2>3. UNCHANGED <<closed, writer, item, emitted>> /\ epc[t] = "sending"
        /\ epc' = [epc EXCEPT ![t] = "idle"] /\ readers' = readers \ {t}
    BY <1>2 DEF Send
  <2>4. epc' \in [Emitters -> {"idle", "locking", "sending"}] /\ readers' \subseteq Emitters
    BY <2>3
  <2>5. StreamLock' /\ NoSendOnClosed'
    BY <2>3
  <2> QED
    BY <2>2, <2>3, <2>4, <2>5
<1>3. ASSUME NEW t \in Emitters, Callback(t) PROVE StreamInv'
  <2>1. emitted' \in 0..MaxEvents
    BY <1>3, EventNumbers DEF Callback
  <2> QED
    BY <1>3, <2>1 DEF Callback
<1>4. ASSUME Woken PROVE StreamInv'
  BY <1>4 DEF Woken
<1>5. ASSUME Look PROVE StreamInv'
  BY SMTT(30), <1>5 DEF Look
<1>6. ASSUME CalledBack PROVE StreamInv'
  BY <1>6 DEF CalledBack
<1>7. ASSUME Mutate PROVE StreamInv'
  BY <1>7 DEF Mutate
<1>8. ASSUME Pump PROVE StreamInv'
  <2>1. eventChan' = eventChan \/ (eventChan # <<>> /\ eventChan' = Tail(eventChan))
    BY <1>8 DEF Pump
  <2>2. eventChan' \in Seq(Snapshots) /\ Len(eventChan') <= Cap
    BY <2>1, ShorterFits
  <2>3. UNCHANGED <<closed, readers, writer, epc, item, emitted>>
    BY <1>8 DEF Pump
  <2> QED
    BY <2>2, <2>3
<1>9. ASSUME Lost PROVE StreamInv'
  BY <1>9 DEF Lost
<1>10. ASSUME NEW t \in Connectors, Begin(t) PROVE StreamInv'
  BY <1>10 DEF Begin
<1>11. ASSUME NEW t \in Connectors, Dial(t) PROVE StreamInv'
  BY <1>11 DEF Dial
<1>12. ASSUME NEW t \in Connectors, Check(t) PROVE StreamInv'
  BY <1>12 DEF Check
<1>13. ASSUME NEW t \in Sockets, Load(t) PROVE StreamInv'
  BY <1>13 DEF Load
<1>14. ASSUME NEW t \in Securers, Prepare(t) PROVE StreamInv'
  BY <1>14 DEF Prepare
<1>15. ASSUME NEW t \in Securers, Register(t) PROVE StreamInv'
  BY <1>15 DEF Register
<1>16. ASSUME NEW t \in Closers, CancelClient(t) PROVE StreamInv'
  BY <1>16 DEF CancelClient
<1>17. ASSUME NEW t \in Closers, AlreadyDone(t) PROVE StreamInv'
  BY <1>17 DEF AlreadyDone
<1>18. ASSUME NEW t \in Closers, MarkDisconnected(t) PROVE StreamInv'
  BY <1>18 DEF MarkDisconnected
<1>19. ASSUME NEW t \in Closers, ReadClients(t) PROVE StreamInv'
  BY <1>19 DEF ReadClients
<1>20. ASSUME NEW t \in Closers, StopDispatcher(t) PROVE StreamInv'
  BY <1>20 DEF StopDispatcher
<1>21. ASSUME NEW t \in Closers, JoinDispatcher(t) PROVE StreamInv'
  BY <1>21 DEF JoinDispatcher
<1>22. ASSUME NEW t \in Closers, HangUpE2EE(t) PROVE StreamInv'
  BY <1>22 DEF HangUpE2EE
<1>23. ASSUME NEW t \in Closers, HangUp(t) PROVE StreamInv'
  BY <1>23 DEF HangUp
<1>24. ASSUME NEW t \in Closers, AwaitStream(t) PROVE StreamInv'
  BY <1>24 DEF AwaitStream
<1>25. ASSUME NEW t \in Closers, CloseStream(t) PROVE StreamInv'
  BY <1>25 DEF CloseStream
<1>26. ASSUME UNCHANGED vars PROVE StreamInv'
  BY <1>26 DEF vars
<1> QED
  BY <1>1, <1>2, <1>3, <1>4, <1>5, <1>6, <1>7, <1>8, <1>9, <1>10, <1>11, <1>12, <1>13, <1>14, <1>15, <1>16, <1>17, <1>18, <1>19, <1>20, <1>21, <1>22, <1>23, <1>24, <1>25, <1>26
     DEF Next, EmitStep, ConnectStep, DisconnectStep, DispatchStep, Connectors

LEMMA StoreStep == StoreTypes /\ StreamTypes /\ [Next]_vars => StoreTypes'
<1> SUFFICES ASSUME StoreTypes, eventChan \in Seq(Snapshots), [Next]_vars PROVE StoreTypes'
  BY DEF StreamTypes
<1> USE GoroutinesAssumption, Numbers DEF StoreTypes, Enqueue, TakesPending, Emits, lifecycle, callers, links, stream,
    store, output, StreamFree
<1>1. ASSUME NEW t \in Emitters, LockStream(t) PROVE StoreTypes'
  BY <1>1 DEF LockStream
<1>2. ASSUME NEW t \in Emitters, Send(t) PROVE StoreTypes'
  BY <1>2 DEF Send
<1>3. ASSUME NEW t \in Emitters, Callback(t) PROVE StoreTypes'
  BY <1>3 DEF Callback
<1>4. ASSUME Woken PROVE StoreTypes'
  BY <1>4 DEF Woken
<1>5. ASSUME Look PROVE StoreTypes'
  BY <1>5 DEF Look
<1>6. ASSUME CalledBack PROVE StoreTypes'
  BY <1>6 DEF CalledBack
<1>7. ASSUME Mutate PROVE StoreTypes'
  BY <1>7 DEF Mutate
<1>8. ASSUME Pump PROVE StoreTypes'
  <2>1. eventChan # <<>> => Head(eventChan) \in Snapshots
    OBVIOUS
  <2> QED
    BY <1>8, <2>1 DEF Pump
<1>9. ASSUME Lost PROVE StoreTypes'
  BY <1>9 DEF Lost
<1>10. ASSUME NEW t \in Connectors, Begin(t) PROVE StoreTypes'
  BY <1>10 DEF Begin
<1>11. ASSUME NEW t \in Connectors, Dial(t) PROVE StoreTypes'
  BY <1>11 DEF Dial
<1>12. ASSUME NEW t \in Connectors, Check(t) PROVE StoreTypes'
  BY <1>12 DEF Check
<1>13. ASSUME NEW t \in Sockets, Load(t) PROVE StoreTypes'
  BY <1>13 DEF Load
<1>14. ASSUME NEW t \in Securers, Prepare(t) PROVE StoreTypes'
  BY <1>14 DEF Prepare
<1>15. ASSUME NEW t \in Securers, Register(t) PROVE StoreTypes'
  BY <1>15 DEF Register
<1>16. ASSUME NEW t \in Closers, CancelClient(t) PROVE StoreTypes'
  BY <1>16 DEF CancelClient
<1>17. ASSUME NEW t \in Closers, AlreadyDone(t) PROVE StoreTypes'
  BY <1>17 DEF AlreadyDone
<1>18. ASSUME NEW t \in Closers, MarkDisconnected(t) PROVE StoreTypes'
  BY <1>18 DEF MarkDisconnected
<1>19. ASSUME NEW t \in Closers, ReadClients(t) PROVE StoreTypes'
  BY <1>19 DEF ReadClients
<1>20. ASSUME NEW t \in Closers, StopDispatcher(t) PROVE StoreTypes'
  BY <1>20 DEF StopDispatcher
<1>21. ASSUME NEW t \in Closers, JoinDispatcher(t) PROVE StoreTypes'
  BY <1>21 DEF JoinDispatcher
<1>22. ASSUME NEW t \in Closers, HangUpE2EE(t) PROVE StoreTypes'
  BY <1>22 DEF HangUpE2EE
<1>23. ASSUME NEW t \in Closers, HangUp(t) PROVE StoreTypes'
  BY <1>23 DEF HangUp
<1>24. ASSUME NEW t \in Closers, AwaitStream(t) PROVE StoreTypes'
  BY <1>24 DEF AwaitStream
<1>25. ASSUME NEW t \in Closers, CloseStream(t) PROVE StoreTypes'
  BY <1>25 DEF CloseStream
<1>26. ASSUME UNCHANGED vars PROVE StoreTypes'
  BY <1>26 DEF vars
<1> QED
  BY <1>1, <1>2, <1>3, <1>4, <1>5, <1>6, <1>7, <1>8, <1>9, <1>10, <1>11, <1>12, <1>13, <1>14, <1>15, <1>16, <1>17, <1>18, <1>19, <1>20, <1>21, <1>22, <1>23, <1>24, <1>25, <1>26
     DEF Next, EmitStep, ConnectStep, DisconnectStep, DispatchStep, Connectors


LEMMA Values ==
  ASSUME StreamTypes, StoreTypes
  PROVE  /\ seen \in Nat /\ pending \in Nat /\ committed \in Nat /\ item[Dispatcher] \in Nat
         /\ Len(eventChan) \in Nat /\ \A i \in 1..Len(eventChan) : eventChan[i] \in Nat
         /\ Dispatcher \in Emitters
<1>1. seen \in Nat /\ pending \in Nat /\ committed \in Nat
  BY Numbers DEF StoreTypes
<1>2. Dispatcher \in Emitters
  BY DEF Emitters
<1>3. item[Dispatcher] \in Nat
  BY <1>2, Numbers DEF StreamTypes
<1>4. \A i \in 1..Len(eventChan) : eventChan[i] \in Snapshots
  BY DEF StreamTypes
<1>5. Len(eventChan) \in Nat
  BY DEF StreamTypes
<1> QED
  BY <1>1, <1>2, <1>3, <1>4, <1>5, Numbers

\* Most steps move no snapshot; one in the hand may be dropped
LEMMA NothingMoves ==
  ASSUME SnapshotInv, UNCHANGED <<eventChan, seen, pending, committed>>,
         item'[Dispatcher] = item[Dispatcher],
         \A t \in Emitters : t # Dispatcher => item'[t] = 0,
         epc'[Dispatcher] # "idle" => epc[Dispatcher] # "idle"
  PROVE  SnapshotInv'
BY DEF SnapshotInv, Order, Committed, Below

\* A snapshot is committed: it follows all others
LEMMA EnqueueStep ==
  ASSUME SnapshotInv, StreamTypes, StoreTypes, Enqueue, UNCHANGED <<eventChan, seen, item, epc>>
  PROVE  SnapshotInv'
<1>1. committed' = committed + 1 /\ pending' = committed + 1
  BY DEF Enqueue
<1> DEFINE c == committed'  p == pending'
<1>2. c = committed + 1 /\ p = committed + 1
  BY <1>1
<1> HIDE DEF c, p
<1>3. /\ seen < p /\ seen <= c /\ p <= c /\ item[Dispatcher] < p /\ item[Dispatcher] <= c
      /\ \A i \in 1..Len(eventChan) : eventChan[i] < p /\ eventChan[i] <= c
  BY <1>2, Values DEF SnapshotInv, Committed
<1> QED
  BY <1>3 DEF SnapshotInv, Order, Committed, Below, c, p

\* The dispatcher takes the pending snapshot, which follows all others
LEMMA TakeStep ==
  ASSUME SnapshotInv, StreamTypes, StoreTypes, pending # 0, pending' = 0, Emits(Dispatcher, pending),
         UNCHANGED <<eventChan, seen, committed>>
  PROVE  SnapshotInv'
<1>1. /\ item'[Dispatcher] = pending /\ \A t \in Emitters : t # Dispatcher => item'[t] = item[t]
      /\ epc[Dispatcher] = "idle"
  BY Values DEF Emits, StreamTypes
<1>2. Below(pending) /\ pending <= committed /\ 0 <= committed
  BY Values DEF SnapshotInv, Order, Committed
<1> QED
  BY <1>1, <1>2 DEF SnapshotInv, Order, Committed, Below

\* An event enters the stream: 0, or the snapshot in the dispatcher's hand
LEMMA SendStep ==
  ASSUME SnapshotInv, StreamTypes, StoreTypes, NEW t \in Emitters, epc[t] = "sending",
         eventChan' = Append(eventChan, item[t]), epc' = [epc EXCEPT ![t] = "idle"],
         UNCHANGED <<seen, pending, committed, item>>
  PROVE  SnapshotInv'
<1> DEFINE n == Len(eventChan)
<1>1. /\ n \in Nat /\ Len(eventChan') = n + 1 /\ eventChan'[n + 1] = item[t]
      /\ \A i \in 1..n : eventChan'[i] = eventChan[i]
  BY DEF StreamTypes
<1>2. \A i \in 1..(n + 1) : i \in 1..n \/ i = n + 1
  BY <1>1
<1>3. item[t] # 0 => t = Dispatcher /\ Below(item[t])
  BY DEF SnapshotInv, Order
<1>4. item[t] <= committed
  BY Values DEF SnapshotInv, Order, Committed
<1>5. pending # 0 => seen < pending /\ item[t] < pending
  BY Values DEF SnapshotInv, Order, Below
<1>6. epc'[Dispatcher] # "idle" => t # Dispatcher /\ epc[Dispatcher] # "idle" /\ item[t] = 0
  BY DEF SnapshotInv, Order, StreamTypes
<1>7. epc'[Dispatcher] # "idle" => seen < item[Dispatcher] /\ item[t] < item[Dispatcher]
  BY <1>6, Values DEF SnapshotInv, Order, Below
<1>8. Committed'
  BY <1>1, <1>2, <1>4 DEF SnapshotInv, Committed
<1>9. \A i \in 1..(n + 1) : eventChan'[i] # 0 => seen < eventChan'[i]
  BY <1>1, <1>2, <1>3 DEF SnapshotInv, Order, Below
<1>10. \A i, j \in 1..(n + 1) : i < j /\ eventChan'[j] # 0 => eventChan'[i] < eventChan'[j]
  <2>1. ASSUME NEW i \in 1..(n + 1), NEW j \in 1..(n + 1), i < j, eventChan'[j] # 0
        PROVE  eventChan'[i] < eventChan'[j]
    <3>1. i \in 1..n
      BY <1>1, <2>1
    <3>2. CASE j \in 1..n
      BY <1>1, <2>1, <3>1, <3>2 DEF SnapshotInv, Order
    <3>3. CASE j = n + 1
      BY <1>1, <1>3, <2>1, <3>1, <3>3 DEF Below
    <3> QED
      BY <1>2, <3>2, <3>3
  <2> QED
    BY <2>1
<1>11. \A i \in 1..(n + 1) :
         /\ pending # 0 => eventChan'[i] < pending
         /\ epc'[Dispatcher] # "idle" => eventChan'[i] < item[Dispatcher]
  BY <1>1, <1>2, <1>5, <1>6, <1>7 DEF SnapshotInv, Order, Below
<1>12. Order'
  BY <1>1, <1>5, <1>6, <1>7, <1>9, <1>10, <1>11 DEF SnapshotInv, Order, Below
<1> QED
  BY <1>8, <1>12 DEF SnapshotInv

\* pumpEvents writes the first event
LEMMA PumpStep ==
  ASSUME SnapshotInv, StreamTypes, StoreTypes, eventChan # <<>>, eventChan' = Tail(eventChan),
         seen' = IF Head(eventChan) = 0 THEN seen ELSE Head(eventChan),
         UNCHANGED <<pending, committed, item, epc>>
  PROVE  SnapshotInv'
<1> DEFINE n == Len(eventChan)
<1>1. /\ n \in Nat /\ 1 \in 1..n /\ Len(eventChan') = n - 1 /\ Head(eventChan) = eventChan[1]
      /\ \A i \in 1..(n - 1) : eventChan'[i] = eventChan[i + 1] /\ i + 1 \in 1..n
  BY DEF StreamTypes
<1> DEFINE s == seen'
<1>2. s = seen \/ (s = eventChan[1] /\ s # 0)
  BY <1>1
<1>3. Committed'
  <2>1. s <= committed
    BY <1>1, <1>2 DEF SnapshotInv, Committed
  <2> QED
    BY <1>1, <2>1 DEF SnapshotInv, Committed
<1> HIDE DEF s
<1>4. \A m \in Nat : Below(m) => s < m /\ \A i \in 1..(n - 1) : eventChan'[i] < m
  BY <1>1, <1>2 DEF Below
<1>5. \A i \in 1..(n - 1) : eventChan'[i] # 0 => s < eventChan'[i]
  <2>1. ASSUME NEW i \in 1..(n - 1), eventChan'[i] # 0 PROVE s < eventChan'[i]
    <3>1. eventChan'[i] = eventChan[i + 1] /\ i + 1 \in 1..n /\ 1 < i + 1
      BY <1>1
    <3>2. seen < eventChan[i + 1] /\ eventChan[1] < eventChan[i + 1]
      BY <1>1, <2>1, <3>1 DEF SnapshotInv, Order
    <3> QED
      BY <1>2, <3>1, <3>2
  <2> QED
    BY <2>1
<1>6. \A i, j \in 1..(n - 1) : i < j /\ eventChan'[j] # 0 => eventChan'[i] < eventChan'[j]
  <2>1. ASSUME NEW i \in 1..(n - 1), NEW j \in 1..(n - 1), i < j, eventChan'[j] # 0
        PROVE  eventChan'[i] < eventChan'[j]
    <3>1. i + 1 \in 1..n /\ j + 1 \in 1..n /\ i + 1 < j + 1
      BY <1>1, <2>1
    <3> QED
      BY <1>1, <2>1, <3>1 DEF SnapshotInv, Order
  <2> QED
    BY <2>1
<1>7. /\ epc'[Dispatcher] # "idle" => Below(item[Dispatcher])'
      /\ pending # 0 => Below(pending)'
  BY <1>1, <1>4, Values DEF SnapshotInv, Order, Below, s
<1> QED
  BY <1>1, <1>3, <1>5, <1>6, <1>7 DEF SnapshotInv, Order, s

LEMMA SnapshotStep == SnapshotInv /\ StreamTypes /\ StoreTypes /\ [Next]_vars => SnapshotInv'
<1> SUFFICES ASSUME SnapshotInv, StreamTypes, StoreTypes, [Next]_vars PROVE SnapshotInv'
  OBVIOUS
<1> USE DEF lifecycle, callers, links, stream, store, output
<1>0. \A t \in Emitters : t # Dispatcher => item[t] = 0
  BY DEF SnapshotInv, Order
<1>1. ASSUME UNCHANGED <<stream, store, output>> PROVE SnapshotInv'
  BY <1>0, <1>1, NothingMoves
<1>2. ASSUME NEW t \in Emitters, LockStream(t) PROVE SnapshotInv'
  <2>1. UNCHANGED <<eventChan, seen, pending, committed, item>>
    BY <1>2 DEF LockStream
  <2>2. epc'[Dispatcher] # "idle" => epc[Dispatcher] # "idle"
    <3>1. epc[t] = "locking" /\ epc \in [Emitters -> {"idle", "locking", "sending"}]
      BY <1>2 DEF LockStream, StreamTypes
    <3>2. \A u \in Emitters : u # t => epc'[u] = epc[u]
      BY <1>2, <3>1 DEF LockStream
    <3> QED
      BY <3>1, <3>2, Values
  <2> QED
    BY <1>0, <2>1, <2>2, NothingMoves
<1>3. ASSUME NEW t \in Emitters, Send(t) PROVE SnapshotInv'
  <2>1. /\ UNCHANGED <<seen, pending, committed, item>> /\ epc[t] = "sending"
        /\ epc' = [epc EXCEPT ![t] = "idle"]
        /\ eventChan' = Append(eventChan, item[t]) \/ eventChan' = eventChan
    BY <1>3 DEF Send
  <2>2. epc'[Dispatcher] # "idle" => epc[Dispatcher] # "idle"
    BY <2>1 DEF StreamTypes
  <2>3. CASE eventChan' = eventChan
    BY <1>0, <2>1, <2>2, <2>3, NothingMoves
  <2> QED
    BY <2>1, <2>3, SendStep
<1>4. ASSUME NEW t \in Emitters, Callback(t) PROVE SnapshotInv'
  <2>1. t # Dispatcher
    BY <1>4, GoroutinesAssumption DEF Callback
  <2>2. /\ UNCHANGED <<eventChan, seen, pending, committed>>
        /\ epc' = [epc EXCEPT ![t] = "locking"] /\ item' = [item EXCEPT ![t] = 0]
    BY <1>4 DEF Callback, Emits
  <2>3. /\ item'[Dispatcher] = item[Dispatcher] /\ epc'[Dispatcher] = epc[Dispatcher]
        /\ \A u \in Emitters : u # Dispatcher => item'[u] = 0
    BY <1>0, <2>1, <2>2 DEF StreamTypes, Emitters
  <2> QED
    BY <2>2, <2>3, NothingMoves
<1>5. ASSUME Woken \/ CalledBack PROVE SnapshotInv'
  BY <1>0, <1>5, NothingMoves DEF Woken, CalledBack
<1>6. ASSUME Look PROVE SnapshotInv'
  <2>1. UNCHANGED <<eventChan, seen, committed>>
    BY <1>6 DEF Look
  <2>2. CASE UNCHANGED <<pending, epc, item>>
    BY <1>0, <2>1, <2>2, NothingMoves
  <2>3. CASE pending # 0 /\ TakesPending /\ Emits(Dispatcher, pending)
    BY <2>1, <2>3, TakeStep DEF TakesPending
  <2> QED
    BY <1>6, <2>2, <2>3 DEF Look
<1>7. ASSUME Mutate PROVE SnapshotInv'
  BY <1>7, EnqueueStep DEF Mutate
<1>8. ASSUME Pump PROVE SnapshotInv'
  <2>1. UNCHANGED <<pending, committed, item, epc>>
    BY <1>8 DEF Pump
  <2>2. CASE UNCHANGED <<eventChan, seen>>
    BY <1>0, <2>1, <2>2, NothingMoves
  <2> QED
    BY <1>8, <2>1, <2>2, PumpStep DEF Pump
<1>9. ASSUME NEW t \in Connectors, Begin(t) \/ Dial(t) \/ Check(t) PROVE SnapshotInv'
  BY <1>1, <1>9 DEF Begin, Dial, Check
<1>10. ASSUME NEW t \in Connectors, Load(t) \/ Prepare(t) PROVE SnapshotInv'
  BY <1>1, <1>10 DEF Load, Prepare
<1>11. ASSUME NEW t \in Securers, Register(t) PROVE SnapshotInv'
  <2>1. UNCHANGED <<stream, output>> /\ (UNCHANGED store \/ Enqueue)
    BY <1>11 DEF Register
  <2> QED
    BY <1>1, <2>1, EnqueueStep
<1>12. ASSUME NEW t \in Closers, CancelClient(t) \/ AlreadyDone(t) \/ MarkDisconnected(t) \/ ReadClients(t)
       PROVE  SnapshotInv'
  BY <1>1, <1>12 DEF CancelClient, AlreadyDone, MarkDisconnected, ReadClients
<1>13. ASSUME NEW t \in Closers,
              StopDispatcher(t) \/ JoinDispatcher(t) \/ HangUpE2EE(t) \/ HangUp(t) \/ AwaitStream(t)
                \/ CloseStream(t)
       PROVE  SnapshotInv'
  BY <1>0, <1>13, NothingMoves
     DEF StopDispatcher, JoinDispatcher, HangUpE2EE, HangUp, AwaitStream, CloseStream
<1>14. ASSUME Lost PROVE SnapshotInv'
  BY <1>1, <1>14 DEF Lost
<1>15. ASSUME UNCHANGED vars PROVE SnapshotInv'
  BY <1>1, <1>15 DEF vars
<1> QED
  BY <1>2, <1>3, <1>4, <1>5, <1>6, <1>7, <1>8, <1>9, <1>10, <1>11, <1>12, <1>13, <1>14, <1>15
     DEF Next, EmitStep, ConnectStep, DisconnectStep, DispatchStep, Connectors

\* What the order of the stages says of the whole way
LEMMA OrderOnTheWay == SnapshotInv /\ StreamTypes /\ StoreTypes => SnapshotsAdvance
<1> SUFFICES ASSUME SnapshotInv, StreamTypes, StoreTypes PROVE SnapshotsAdvance
  OBVIOUS
<1> DEFINE inHand == IF epc[Dispatcher] = "idle" THEN <<>> ELSE <<item[Dispatcher]>>
           n == Len(eventChan)   h == Len(inHand)
           way == <<seen>> \o eventChan \o inHand \o <<pending>>
<1>1. /\ <<seen>> \in Seq(Nat) /\ eventChan \in Seq(Nat) /\ inHand \in Seq(Nat) /\ <<pending>> \in Seq(Nat)
      /\ n \in Nat /\ h \in {0, 1}
      /\ h = 1 => epc[Dispatcher] # "idle" /\ inHand[1] = item[Dispatcher]
  <2>1. eventChan \in Seq(Nat)
    BY Numbers DEF StreamTypes
  <2>2. inHand \in Seq(Nat) /\ h \in {0, 1}
        /\ (h = 1 => epc[Dispatcher] # "idle" /\ inHand[1] = item[Dispatcher])
    BY Values
  <2> QED
    BY <2>1, <2>2, Values
<1> HIDE DEF inHand
<1>2. /\ Len(way) = n + h + 2
      /\ way[1] = seen
      /\ \A i \in 2..(n + 1) : i - 1 \in 1..n /\ way[i] = eventChan[i - 1]
      /\ h = 1 => way[n + 2] = inHand[1]
      /\ way[n + h + 2] = pending
  BY <1>1
<1> HIDE DEF way, n, h
<1>3. ASSUME NEW i \in 1..(n + h + 2), NEW j \in 1..(n + h + 2), i < j, way[j] # 0 PROVE way[i] < way[j]
  <2>1. i = 1 \/ (i - 1 \in 1..n /\ way[i] = eventChan[i - 1]) \/ (h = 1 /\ i = n + 2)
    <3>1. i = 1 \/ i \in 2..(n + 1) \/ (h = 1 /\ i = n + 2)
      BY <1>1, <1>3
    <3> QED
      BY <1>2, <3>1
  <2>2. (j - 1 \in 1..n /\ way[j] = eventChan[j - 1]) \/ (h = 1 /\ j = n + 2) \/ j = n + h + 2
    <3>1. j \in 2..(n + 1) \/ (h = 1 /\ j = n + 2) \/ j = n + h + 2
      BY <1>1, <1>3
    <3> QED
      BY <1>2, <3>1
  <2>3. CASE j = n + h + 2
    <3>1. way[j] = pending /\ Below(pending)
      BY <1>2, <1>3, <2>3 DEF SnapshotInv, Order
    <3> QED
      <4>1. h = 1 /\ i = n + 2 => item[Dispatcher] < pending /\ way[i] = item[Dispatcher]
        BY <1>1, <1>2, <1>3, <3>1 DEF SnapshotInv, Order
      <4>2. i < n + h + 2
        BY <2>3, <1>3
      <4> QED
        BY <1>1, <1>2, <2>1, <3>1, <4>1, <4>2 DEF Below, n
  <2>4. CASE h = 1 /\ j = n + 2
    <3>1. way[j] = item[Dispatcher] /\ Below(item[Dispatcher])
      BY <1>1, <1>2, <1>3, <2>4 DEF SnapshotInv, Order
    <3> QED
      BY <1>1, <1>2, <1>3, <2>1, <2>4, <3>1 DEF Below, n
  <2>5. CASE j - 1 \in 1..n /\ way[j] = eventChan[j - 1]
    <3>1. i = 1 \/ (i - 1 \in 1..n /\ way[i] = eventChan[i - 1] /\ i - 1 < j - 1)
      BY <1>1, <1>3, <2>1, <2>5
    <3> QED
      BY <1>2, <1>3, <2>5, <3>1 DEF SnapshotInv, Order, n
  <2> QED
    BY <2>2, <2>3, <2>4, <2>5
<1> QED
  BY <1>2, <1>3 DEF SnapshotsAdvance, OnTheWay, way, inHand

----------------------------------------------------------------------------
LEMMA LifecycleInit == Init => LifecycleInv
<1> SUFFICES ASSUME Init PROVE LifecycleInv
  OBVIOUS
<1> QED
  BY GoroutinesAssumption
     DEF Init, LifecycleInv, CallTypes, ConnectLock, OneCloser, CurrentLink, Closing, NobodyConnects,
         NothingUpAfterDisconnect, Running, Locked, Secured, HungUp, Connectors, Emitters

LEMMA StreamInit == Init => StreamInv /\ StoreTypes /\ SnapshotInv
<1> SUFFICES ASSUME Init PROVE StreamInv /\ StoreTypes /\ SnapshotInv
  OBVIOUS
<1>1. StreamTypes /\ StoreTypes
  <2>1. Init /\ 0 \in Snapshots /\ 0 \in 0..MaxEvents /\ 0 <= Cap
    BY Numbers, ClientBoundsAssumption
  <2>2. eventChan \in Seq(Snapshots) /\ Len(eventChan) = 0
    BY DEF Init
  <2>3. StreamTypes
    BY <2>1, <2>2 DEF Init, StreamTypes
  <2> QED
    BY <2>1, <2>3 DEF Init, StoreTypes
<1>2. StreamLock /\ NoSendOnClosed
  BY DEF Init, StreamLock, NoSendOnClosed
<1>3. SnapshotInv
  <2>1. /\ Len(eventChan) = 0 /\ seen = 0 /\ pending = 0 /\ committed = 0
        /\ epc[Dispatcher] = "idle" /\ \A t \in Emitters : item[t] = 0 /\ Dispatcher \in Emitters
    BY DEF Init, Emitters
  <2> QED
    BY <1>1, <2>1, Values DEF SnapshotInv, Order, Committed
<1> QED
  BY <1>1, <1>2, <1>3 DEF StreamInv

\* The variables keep their types; connectMu has the connector between Lock and
\* Unlock, and eventMu the senders.
THEOREM ClientTypes == Spec => []TypeOK
<1>1. Init => LifecycleInv /\ StreamInv /\ StoreTypes
  BY LifecycleInit, StreamInit
<1>2. LifecycleInv /\ StreamInv /\ StoreTypes /\ [Next]_vars => (LifecycleInv /\ StreamInv /\ StoreTypes)'
  BY LifecycleStep, StreamStep, StoreStep DEF StreamInv
<1>3. LifecycleInv /\ StreamInv /\ StoreTypes => TypeOK
  BY DEF TypeOK, LifecycleInv, StreamInv
<1> QED
  BY <1>1, <1>2, <1>3, PTL DEF Spec

\* emitEvent never sends on eventChan after Disconnect closed it: senders hold
\* eventMu for reading and look at eventsClosed under it.
THEOREM NoPanic == Spec => []NoSendOnClosed
<1>1. Init => StreamInv /\ StoreTypes
  BY StreamInit
<1>2. StreamInv /\ StoreTypes /\ [Next]_vars => (StreamInv /\ StoreTypes)'
  BY StreamStep, StoreStep DEF StreamInv
<1>3. StreamInv => NoSendOnClosed
  BY DEF StreamInv
<1> QED
  BY <1>1, <1>2, <1>3, PTL DEF Spec

\* After Disconnect neither connection is up, whoever was in Connect or
\* ConnectE2EE when it began.
THEOREM DisconnectIsFinal == Spec => []NothingUpAfterDisconnect
<1>1. LifecycleInv => NothingUpAfterDisconnect
  BY DEF LifecycleInv
<1> QED
  BY <1>1, LifecycleInit, LifecycleStep, PTL DEF Spec

\* Device snapshots reach the consumer in the order in which they were committed,
\* none twice, though the dispatcher skips those it finds replaced.
THEOREM SnapshotsInOrder == Spec => []SnapshotsAdvance
<1> DEFINE Inv == SnapshotInv /\ StreamInv /\ StoreTypes
<1>1. Init => Inv
  BY StreamInit
<1>2. Inv /\ [Next]_vars => Inv'
  BY SnapshotStep, StreamStep, StoreStep DEF StreamInv
<1>3. Inv => SnapshotsAdvance
  BY OrderOnTheWay DEF StreamInv
<1> HIDE DEF Inv
<1> QED
  BY <1>1, <1>2, <1>3, PTL DEF Spec

=============================================================================
