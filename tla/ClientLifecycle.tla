--------------------------- MODULE ClientLifecycle ---------------------------
(***************************************************************************)
(* The life of one bridge Client and of its event stream: Client of        *)
(* bridge-e2ee/bridge/client.go and emitEvent of events.go, with a device  *)
(* store in deviceData mode and its dispatcher.                            *)
(*                                                                         *)
(* Goroutines: those that call Connect or ConnectE2EE, those that call     *)
(* Disconnect, the callbacks of the two libraries, the dispatcher and      *)
(* pumpEvents.  A step is what happens between two locks or blocking       *)
(* calls.  The libraries are external: a connection may fail at any time,  *)
(* may call back while it is being made, and ends when its context is      *)
(* cancelled.  An event is 0, or the number of the device snapshot in it.  *)
(***************************************************************************)
EXTENDS Integers, Sequences

CONSTANTS Sockets,     \* goroutines in Connect
          Securers,    \* goroutines in ConnectE2EE, each with the client it prepares
          Closers,     \* goroutines in Disconnect
          Callbacks,   \* goroutines of the libraries that emit events
          Dispatcher,  \* the goroutine of deviceDataDispatcher
          Nobody,
          Cap,         \* capacity of eventChan
          MaxEvents,   \* bound: library events
          MaxSnaps     \* bound: committed device snapshots

Connectors == Sockets \cup Securers
Emitters   == Connectors \cup Callbacks \cup {Dispatcher}

ASSUME GoroutinesAssumption ==
  /\ Sockets \cap Securers = {} /\ Callbacks \cap Connectors = {}
  /\ Dispatcher \notin Connectors \cup Callbacks
  /\ Nobody \notin Emitters \cup Closers
ASSUME ClientBoundsAssumption == Cap \in Nat \ {0} /\ MaxEvents \in Nat /\ MaxSnaps \in Nat

VARIABLES
  cancelled, disconnected, \* c.ctx is done; c.disconnected
  once,                    \* disconnectOnce: "new", "running" or "done"
  connectMu,               \* its holder
  cpc,                     \* where a connector is
  dpc, taken,              \* where a closer is; the E2EE client it read
  socket,                  \* external: the regular connection
  e2ee, link,              \* c.E2EE; external: the connection of each E2EE client
  eventChan, closed,       \* the events in it; eventsClosed
  readers, writer,         \* who holds eventMu for reading; who waits for writing
  epc, item,               \* where an emitter is and what it emits
  emitted,                 \* library events so far
  pending, wake, stopped,  \* of the dispatcher, pending is 0 without hasPending
  loop,                    \* where its goroutine is
  committed,               \* the last snapshot whose mutation succeeded
  pumped, seen             \* pumpEvents has returned; the last snapshot it wrote

lifecycle == <<cancelled, disconnected, once, connectMu>>
callers   == <<cpc, dpc, taken>>
links     == <<socket, e2ee, link>>
stream    == <<eventChan, closed, readers, writer, epc, item, emitted>>
store     == <<pending, wake, stopped, loop, committed>>
output    == <<pumped, seen>>
vars      == <<lifecycle, callers, links, stream, store, output>>

Snapshots == 0..MaxSnaps

CallTypes ==
  /\ cancelled \in BOOLEAN /\ disconnected \in BOOLEAN
  /\ once \in {"new", "running", "done"} /\ connectMu \in Connectors \cup {Nobody}
  /\ cpc \in [Connectors -> {"idle", "loading", "preparing", "registering", "dialling",
                             "checking", "back"}]
  /\ dpc \in [Closers -> {"idle", "cancelled", "marked", "read", "joining", "securing",
                          "hanging", "locking", "closing", "back"}]
  /\ taken \in [Closers -> Securers \cup {Nobody}]
  /\ socket \in {"down", "up"} /\ e2ee \in Securers \cup {Nobody}
  /\ link \in [Securers -> {"down", "up"}]

StreamTypes ==
  /\ eventChan \in Seq(Snapshots) /\ Len(eventChan) <= Cap /\ closed \in BOOLEAN
  /\ readers \subseteq Emitters /\ writer \in Closers \cup {Nobody}
  /\ epc \in [Emitters -> {"idle", "locking", "sending"}] /\ item \in [Emitters -> Snapshots]
  /\ emitted \in 0..MaxEvents

StoreTypes ==
  /\ pending \in Snapshots /\ wake \in BOOLEAN /\ stopped \in BOOLEAN
  /\ loop \in {"waiting", "looking", "calling", "done"}
  /\ committed \in Snapshots /\ pumped \in BOOLEAN /\ seen \in Snapshots

\* Who is inside which lock
ConnectLock == \A t \in Connectors : connectMu = t <=> cpc[t] \notin {"idle", "back"}
StreamLock  == readers = {t \in Emitters : epc[t] = "sending"}

TypeOK == CallTypes /\ StreamTypes /\ StoreTypes /\ ConnectLock /\ StreamLock

\* NewClient
Init ==
  /\ cancelled = FALSE /\ disconnected = FALSE /\ once = "new" /\ connectMu = Nobody
  /\ cpc = [t \in Connectors |-> "idle"]
  /\ dpc = [t \in Closers |-> "idle"] /\ taken = [t \in Closers |-> Nobody]
  /\ socket = "down" /\ e2ee = Nobody /\ link = [t \in Securers |-> "down"]
  /\ eventChan = <<>> /\ closed = FALSE /\ readers = {} /\ writer = Nobody
  /\ epc = [t \in Emitters |-> "idle"] /\ item = [t \in Emitters |-> 0] /\ emitted = 0
  /\ pending = 0 /\ wake = FALSE /\ stopped = FALSE /\ loop = "waiting" /\ committed = 0
  /\ pumped = FALSE /\ seen = 0

\* lifecycleError
Alive == ~disconnected /\ ~cancelled

----------------------------------------------------------------------------
(* emitEvent *)

\* Somebody calls emitEvent
Emits(t, what) ==
  /\ epc[t] = "idle"
  /\ epc' = [epc EXCEPT ![t] = "locking"] /\ item' = [item EXCEPT ![t] = what]

\* eventMu.RLock, which waits behind a waiting writer, and eventsClosed
LockStream(t) ==
  /\ epc[t] = "locking" /\ writer = Nobody
  /\ IF closed THEN epc' = [epc EXCEPT ![t] = "idle"] /\ readers' = readers
               ELSE epc' = [epc EXCEPT ![t] = "sending"] /\ readers' = readers \cup {t}
  /\ UNCHANGED <<lifecycle, callers, links, eventChan, closed, writer, item, emitted, store,
                 output>>

\* mutant: a full channel is waited for however long
NeverReleased == FALSE

\* The second case of the select
Released == cancelled

\* The select: a place in the channel or the end of the context
Send(t) ==
  /\ epc[t] = "sending"
  /\ \/ Len(eventChan) < Cap /\ eventChan' = Append(eventChan, item[t])
     \/ Released /\ eventChan' = eventChan
  /\ epc' = [epc EXCEPT ![t] = "idle"] /\ readers' = readers \ {t}
  /\ UNCHANGED <<lifecycle, callers, links, closed, writer, item, emitted, store, output>>

\* A library calls back, also in the goroutine that is connecting
Callback(t) ==
  /\ t \in Callbacks \/ (t \in Connectors /\ cpc[t] = "dialling")
  /\ emitted < MaxEvents /\ emitted' = emitted + 1
  /\ Emits(t, 0)
  /\ UNCHANGED <<lifecycle, callers, links, eventChan, closed, readers, writer, store, output>>

----------------------------------------------------------------------------
(* The device store in deviceData mode, and the dispatcher *)

\* mutant: nobody is told
EnqueueQuietly ==
  /\ ~stopped /\ committed < MaxSnaps
  /\ committed' = committed + 1 /\ pending' = committed + 1 /\ wake' = wake

\* enqueue, under saveMu and mu of the store: the last of a mutation that succeeds
Enqueue ==
  /\ ~stopped /\ committed < MaxSnaps
  /\ committed' = committed + 1 /\ pending' = committed + 1 /\ wake' = TRUE

\* mutateAndSave, called by the E2EE library.  Once stopped it fails and is rolled back.
Mutate ==
  /\ Enqueue
  /\ UNCHANGED <<lifecycle, callers, links, stream, stopped, loop, output>>

Woken ==
  /\ loop = "waiting"
  /\ \/ wake /\ wake' = FALSE /\ loop' = "looking"
     \/ stopped /\ wake' = wake /\ loop' = "done"
  /\ UNCHANGED <<lifecycle, callers, links, stream, pending, stopped, committed, output>>

\* mutant: the snapshot stays pending while it is delivered
KeepsPending == pending' = pending

TakesPending == pending' = 0

\* The inner loop of run: stop, wait again, or call back with the snapshot
Look ==
  /\ loop = "looking"
  /\ \/ stopped /\ loop' = "done" /\ UNCHANGED <<pending, epc, item>>
     \/ ~stopped /\ pending = 0 /\ loop' = "waiting" /\ UNCHANGED <<pending, epc, item>>
     \/ ~stopped /\ pending # 0 /\ loop' = "calling" /\ TakesPending /\ Emits(Dispatcher, pending)
  /\ UNCHANGED <<lifecycle, callers, links, eventChan, closed, readers, writer, emitted,
                 wake, stopped, committed, output>>

CalledBack ==
  /\ loop = "calling" /\ epc[Dispatcher] = "idle"
  /\ loop' = "looking"
  /\ UNCHANGED <<lifecycle, callers, links, stream, pending, wake, stopped, committed, output>>

\* pumpEvents: one event goes to stdout, or the closed stream is drained
Pump ==
  /\ ~pumped
  /\ \/ /\ eventChan # <<>>
        /\ eventChan' = Tail(eventChan) /\ pumped' = pumped
        /\ seen' = IF Head(eventChan) = 0 THEN seen ELSE Head(eventChan)
     \/ /\ eventChan = <<>> /\ closed
        /\ eventChan' = eventChan /\ pumped' = TRUE /\ seen' = seen
  /\ UNCHANGED <<lifecycle, callers, links, closed, readers, writer, epc, item, emitted, store>>

----------------------------------------------------------------------------
(* Connect and ConnectE2EE *)

Goto(t, place) == cpc' = [cpc EXCEPT ![t] = place]

\* The call returns and unlocks connectMu
Returns(t) == Goto(t, "back") /\ connectMu' = Nobody

\* connectMu.Lock and the checks behind it
Begin(t) ==
  /\ cpc[t] = "idle" /\ connectMu = Nobody
  /\ IF ~Alive \/ (t \in Securers /\ e2ee # Nobody /\ link[e2ee] = "up")
       THEN Goto(t, "back") /\ connectMu' = connectMu
       ELSE Goto(t, IF t \in Sockets THEN "loading" ELSE "preparing") /\ connectMu' = t
  /\ UNCHANGED <<cancelled, disconnected, once, dpc, taken, links, stream, store, output>>

\* LoadMessagesPage ends, and the life cycle is looked at again
Load(t) ==
  /\ cpc[t] = "loading"
  /\ \/ Returns(t)
     \/ Alive /\ Goto(t, "dialling") /\ connectMu' = connectMu
  /\ UNCHANGED <<cancelled, disconnected, once, dpc, taken, links, stream, store, output>>

\* PrepareE2EEClient; the new client becomes c.E2EE under lifecycleMu
Prepare(t) ==
  /\ cpc[t] = "preparing"
  /\ \/ Returns(t) /\ e2ee' = e2ee
     \/ Alive /\ Goto(t, "registering") /\ e2ee' = t /\ connectMu' = connectMu
  /\ UNCHANGED <<cancelled, disconnected, once, dpc, taken, socket, link, stream, store,
                 output>>

\* RegisterE2EE and Save, either of which may fail, then AddEventHandler
Register(t) ==
  /\ cpc[t] = "registering"
  /\ \/ Returns(t) /\ UNCHANGED store
     \/ /\ Enqueue /\ UNCHANGED <<stopped, loop>>
        /\ IF Alive THEN Goto(t, "dialling") /\ connectMu' = connectMu ELSE Returns(t)
  /\ UNCHANGED <<cancelled, disconnected, once, dpc, taken, links, stream, output>>

\* Messagix.Connect or ConnectContext ends, after its callbacks
Dial(t) ==
  /\ cpc[t] = "dialling" /\ epc[t] = "idle"
  /\ \/ Returns(t) /\ UNCHANGED links
     \/ /\ Goto(t, "checking") /\ connectMu' = connectMu /\ e2ee' = e2ee
        /\ IF t \in Sockets THEN socket' = "up" /\ link' = link
                            ELSE link' = [link EXCEPT ![t] = "up"] /\ socket' = socket
  /\ UNCHANGED <<cancelled, disconnected, once, dpc, taken, stream, store, output>>

\* The last look: an E2EE client that connected too late hangs up itself
Check(t) ==
  /\ cpc[t] = "checking" /\ Returns(t)
  /\ link' = IF t \in Securers /\ ~Alive THEN [link EXCEPT ![t] = "down"] ELSE link
  /\ UNCHANGED <<cancelled, disconnected, once, dpc, taken, socket, e2ee, stream, store, output>>

\* external: the network
Lost ==
  /\ \/ socket = "up" /\ socket' = "down" /\ link' = link
     \/ \E t \in Securers : /\ link[t] = "up" /\ link' = [link EXCEPT ![t] = "down"]
                            /\ socket' = socket
  /\ UNCHANGED <<lifecycle, callers, e2ee, stream, store, output>>

----------------------------------------------------------------------------
(* Disconnect *)

At(t, place) == dpc[t] = place
To(t, place) == dpc' = [dpc EXCEPT ![t] = place]

\* disconnectOnce.Do and cancel; another caller waits for the first
CancelClient(t) ==
  /\ At(t, "idle") /\ once = "new"
  /\ once' = "running" /\ cancelled' = TRUE /\ To(t, "cancelled")
  /\ UNCHANGED <<disconnected, connectMu, cpc, taken, links, stream, store, output>>

AlreadyDone(t) ==
  /\ At(t, "idle") /\ once = "done" /\ To(t, "back")
  /\ UNCHANGED <<lifecycle, cpc, taken, links, stream, store, output>>

MarkDisconnected(t) ==
  /\ At(t, "cancelled") /\ disconnected' = TRUE /\ To(t, "marked")
  /\ UNCHANGED <<cancelled, once, connectMu, cpc, taken, links, stream, store, output>>

\* mutant: a connection in progress is not waited for
NoWait == TRUE

\* connectMu.Lock succeeds
ConnectFree == connectMu = Nobody

ReadClients(t) ==
  /\ At(t, "marked") /\ ConnectFree
  /\ taken' = [taken EXCEPT ![t] = e2ee] /\ To(t, "read")
  /\ UNCHANGED <<lifecycle, cpc, links, stream, store, output>>

\* stopDataChangedDispatcher: stop the dispatcher ...
StopDispatcher(t) ==
  /\ At(t, "read") /\ stopped' = TRUE /\ To(t, "joining")
  /\ UNCHANGED <<lifecycle, cpc, taken, links, stream, pending, wake, loop, committed, output>>

\* ... and wait for it
JoinDispatcher(t) ==
  /\ At(t, "joining") /\ loop = "done" /\ To(t, "securing")
  /\ UNCHANGED <<lifecycle, cpc, taken, links, stream, store, output>>

\* Hanging up may have to wait for the callbacks of the library to return
Quiet == \A s \in Callbacks : epc[s] = "idle"

HangUpE2EE(t) ==
  /\ At(t, "securing") /\ To(t, "hanging")
  /\ IF taken[t] # Nobody /\ link[taken[t]] = "up"
       THEN Quiet /\ link' = [link EXCEPT ![taken[t]] = "down"]
       ELSE link' = link
  /\ UNCHANGED <<lifecycle, cpc, taken, socket, e2ee, stream, store, output>>

HangUp(t) ==
  /\ At(t, "hanging") /\ Quiet /\ socket' = "down" /\ To(t, "locking")
  /\ UNCHANGED <<lifecycle, cpc, taken, e2ee, link, stream, store, output>>

\* eventMu.Lock is called ...
AwaitStream(t) ==
  /\ At(t, "locking") /\ writer = Nobody /\ writer' = t /\ To(t, "closing")
  /\ UNCHANGED <<lifecycle, cpc, taken, links, eventChan, closed, readers, epc, item, emitted,
                 store, output>>

\* mutant: the stream is closed under those who send
AnyTime == TRUE

\* ... and obtained
StreamFree == readers = {}

CloseStream(t) ==
  /\ At(t, "closing") /\ StreamFree
  /\ closed' = TRUE /\ writer' = Nobody /\ once' = "done" /\ To(t, "back")
  /\ UNCHANGED <<cancelled, disconnected, connectMu, cpc, taken, links, eventChan, readers, epc,
                 item, emitted, store, output>>

----------------------------------------------------------------------------
EmitStep(t) == LockStream(t) \/ Send(t)
ConnectStep(t) ==
  \/ t \in Sockets /\ Load(t)
  \/ t \in Securers /\ (Prepare(t) \/ Register(t))
  \/ Dial(t) \/ Check(t)
DisconnectStep(t) ==
  \/ MarkDisconnected(t) \/ ReadClients(t) \/ StopDispatcher(t) \/ JoinDispatcher(t)
  \/ HangUpE2EE(t) \/ HangUp(t) \/ AwaitStream(t) \/ CloseStream(t)
DispatchStep == Woken \/ Look \/ CalledBack

Next ==
  \/ \E t \in Emitters : EmitStep(t) \/ Callback(t)
  \/ \E t \in Connectors : Begin(t) \/ ConnectStep(t)
  \/ \E t \in Closers : CancelClient(t) \/ AlreadyDone(t) \/ DisconnectStep(t)
  \/ DispatchStep \/ Mutate \/ Pump \/ Lost

Spec == Init /\ [][Next]_vars

----------------------------------------------------------------------------
(* Safety *)

\* Nobody sends on the closed channel, which would panic: a late callback that
\* found the stream open keeps it open until its send is over.
NoSendOnClosed == closed => \A t \in Emitters : epc[t] # "sending"

\* A client that was disconnected stays so: no connection that was under way,
\* or begun since, is left up behind Disconnect.
NothingUpAfterDisconnect ==
  once = "done" => socket = "down" /\ \A t \in Securers : link[t] = "down"

\* The device snapshots on their way, oldest first, among library events: written,
\* in the stream, in the hand of the dispatcher, pending
OnTheWay ==
  LET inHand == IF epc[Dispatcher] = "idle" THEN <<>> ELSE <<item[Dispatcher]>>
  IN  <<seen>> \o eventChan \o inHand \o <<pending>>

\* A consumer never replaces a device snapshot by an older one, or gets one twice.
SnapshotsAdvance ==
  LET way == OnTheWay
  IN  \A i, j \in 1..Len(way) : i < j /\ way[j] # 0 => way[i] < way[j]

----------------------------------------------------------------------------
(* Liveness *)

\* Goroutines run on, and the libraries return from calls whose context is
\* cancelled.  Stdout may stay blocked: Pump is fair only where a property
\* says so.
Fairness ==
  /\ \A t \in Emitters : WF_vars(EmitStep(t))
  /\ \A t \in Connectors : WF_vars(ConnectStep(t) /\ cancelled)
  /\ \A t \in Closers : WF_vars(DisconnectStep(t) \/ AlreadyDone(t))
  /\ WF_vars(DispatchStep)

FairSpec == Spec /\ Fairness

\* Disconnect returns, whoever is connecting, emitting into a full stream or
\* delivering a snapshot, and even if nobody reads the stream.
DisconnectEnds == \A t \in Closers : dpc[t] = "cancelled" ~> dpc[t] = "back"

\* While the consumer reads, every committed state, or a later one, reaches it.
LatestDelivered ==
  WF_vars(Pump) => \A n \in 1..MaxSnaps : committed >= n ~> seen >= n \/ cancelled

==============================================================================
