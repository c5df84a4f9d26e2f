---------------------------- MODULE E2EEListener ----------------------------
(***************************************************************************)
(* The life of one listener object: the class listeningE2EEEvent of        *)
(* src/_messaging/_listening_e2ee.py.                                      *)
(*                                                                         *)
(* Threads: the runs of connect_mqtt_blocking (the listener is single-use, *)
(* so only one of them gets far), application threads in stop(), and       *)
(* threads in wait_until_connected.  A step is one operation on a shared   *)
(* Event, one section under _lifecycle_lock, or one blocking call.  The    *)
(* bridge process is seen from outside: open or closed, and what it and    *)
(* its watchdog put in `events` (BridgeRpc models how they get there).     *)
(***************************************************************************)
EXTENDS Naturals, Sequences

CONSTANTS Runs,      \* threads that call connect_mqtt_blocking
          Stoppers,  \* application threads that call stop(), once each
          Waiters,   \* threads that call wait_until_connected
          Nobody,    \* None
          EnableE2EE,
          MaxEvents  \* bound: events the bridge puts

Threads == Runs \cup Stoppers

ASSUME ThreadsAssumption == Runs \cap Stoppers = {} /\ Nobody \notin Threads
ASSUME ParamsAssumption  == EnableE2EE \in BOOLEAN /\ MaxEvents \in Nat

VARIABLES
  runStarted, stop, startupDone, startupError,  \* _run_started, _stop, ...
  connected, e2ee,     \* _connected and _e2ee_connected
  ref,                 \* _bridge: the run whose bridge it is
  pc, raising,         \* where a run is; whether _poll_loop left by an exception
  spc, held,           \* where a thread is in stop(); the bridge it took there
  bridge,              \* the process of each run
  events, evt,         \* the bridge's queue; the event _poll_loop has in hand
  emitted,             \* how many events were put
  recovering,          \* the local of _poll_loop
  link, watchdog,      \* external: the transport as last announced; who recovers
  wpc, strict, late    \* a waiter, its require_e2ee, whether it began after a stop()

flags  == <<startupDone, startupError, connected, e2ee>>
calls  == <<pc, raising, spc, held>>
source == <<events, emitted, link, watchdog>>
waits  == <<wpc, strict, late>>
vars   == <<runStarted, stop, flags, ref, calls, bridge, source, evt, recovering, waits>>

Kinds == {"ready", "e2eeConnected", "e2eeLost", "closed", "down", "up", "fatal", "message"}

FlagTypes ==
  /\ runStarted \in BOOLEAN /\ stop \in BOOLEAN
  /\ startupDone \in BOOLEAN /\ startupError \in BOOLEAN
  /\ connected \in BOOLEAN /\ e2ee \in BOOLEAN /\ recovering \in BOOLEAN

RunTypes ==
  /\ ref \in Runs \cup {Nobody}
  /\ pc \in [Runs -> {"idle", "refused", "spawning", "attaching", "handshaking", "watching",
                      "publishing", "setConnected", "setE2EE", "setDone", "poll", "getting",
                      "applying", "calledBack", "leaving", "failing", "failed", "unwinding",
                      "closing", "ended"}]
  /\ raising \in [Runs -> BOOLEAN]
  /\ spc \in [Threads -> {"off", "marked", "halfClear", "cleared", "taken", "closing", "back"}]
  /\ held \in [Threads -> Runs \cup {Nobody}]
  /\ \A t \in Threads : spc[t] \in {"taken", "closing"} => held[t] \in Runs
  /\ bridge \in [Runs -> {"none", "open", "closing", "closed"}]

SourceTypes ==
  /\ events \in Seq(Kinds) /\ evt \in Kinds \cup {Nobody}
  /\ emitted \in 0..MaxEvents
  /\ link \in {"starting", "stillborn", "up", "down", "fatal"}
  /\ watchdog \in {"off", "watching", "recovering"}

WaitTypes ==
  /\ wpc \in [Waiters -> {"idle", "startup", "error", "regular", "secure",
                          "true", "false", "timeout", "raised"}]
  /\ strict \in [Waiters -> BOOLEAN] /\ late \in [Waiters -> BOOLEAN]

TypeOK == FlagTypes /\ RunTypes /\ SourceTypes /\ WaitTypes

Init ==
  /\ runStarted = FALSE /\ stop = FALSE
  /\ startupDone = FALSE /\ startupError = FALSE /\ connected = FALSE /\ e2ee = FALSE
  /\ ref = Nobody
  /\ pc = [r \in Runs |-> "idle"] /\ raising = [r \in Runs |-> FALSE]
  /\ spc = [t \in Threads |-> "off"] /\ held = [t \in Threads |-> Nobody]
  /\ bridge = [r \in Runs |-> "none"]
  /\ events = <<>> /\ evt = Nobody /\ emitted = 0 /\ recovering = FALSE
  /\ link = "starting" /\ watchdog = "off"
  /\ wpc = [w \in Waiters |-> "idle"]
  /\ strict \in [Waiters -> {EnableE2EE, FALSE}] /\ late = [w \in Waiters |-> FALSE]

\* Only the publication holds _lifecycle_lock for more than one step
LockFree == \A r \in Runs : pc[r] \notin {"setConnected", "setE2EE", "setDone"}

----------------------------------------------------------------------------
(* stop() and the bridge's close(), for any thread                          *)

stopEnv == <<runStarted, pc, raising, evt, recovering, source, waits>>
At(t, place) == spc' = [spc EXCEPT ![t] = place]

\* Who calls stop(): an application thread, the finally of _poll_loop, the
\* except of connect_mqtt_blocking, or the application's event handler
Stops(t) ==
  spc[t] = "off" /\ (t \in Runs => pc[t] \in {"leaving", "unwinding", "calledBack"})

\* The two Events of which no thread reads one without the other
StopMark(t) ==
  /\ Stops(t)
  /\ stop' = TRUE /\ startupDone' = TRUE
  /\ At(t, "marked")
  /\ UNCHANGED <<startupError, connected, e2ee, ref, held, bridge, stopEnv>>

StopClearConnected(t) ==
  /\ spc[t] = "marked"
  /\ connected' = FALSE
  /\ At(t, "halfClear")
  /\ UNCHANGED <<stop, startupDone, startupError, e2ee, ref, held, bridge, stopEnv>>

StopClearE2EE(t) ==
  /\ spc[t] = "halfClear"
  /\ e2ee' = FALSE
  /\ At(t, "cleared")
  /\ UNCHANGED <<stop, startupDone, startupError, connected, ref, held, bridge, stopEnv>>

TakeRef(t) == held' = [held EXCEPT ![t] = ref]

StopTake(t) ==
  /\ spc[t] = "cleared" /\ LockFree
  /\ TakeRef(t) /\ ref' = Nobody
  /\ At(t, IF ref = Nobody THEN "back" ELSE "taken")
  /\ UNCHANGED <<stop, flags, bridge, stopEnv>>

\* mutant: stop() forgets the process
CloseSkipped(t) ==
  /\ spc[t] = "taken"
  /\ At(t, "back")
  /\ UNCHANGED <<stop, flags, ref, held, bridge, stopEnv>>

\* close(): the first caller ends the process, any other returns at once
CloseBegin(t) ==
  /\ spc[t] = "taken"
  /\ IF bridge[held[t]] = "open"
     THEN bridge' = [bridge EXCEPT ![held[t]] = "closing"] /\ At(t, "closing")
     ELSE bridge' = bridge /\ At(t, "back")
  /\ UNCHANGED <<stop, flags, ref, held, stopEnv>>

CloseEnd(t) ==
  /\ spc[t] = "closing"
  /\ bridge' = [bridge EXCEPT ![held[t]] = "closed"]
  /\ At(t, "back")
  /\ UNCHANGED <<stop, flags, ref, held, stopEnv>>

----------------------------------------------------------------------------
(* connect_mqtt_blocking                                                    *)

runEnv == <<stop, spc, held, waits>>
Go(r, place) == pc' = [pc EXCEPT ![r] = place]

\* _claim_run lets the thread in
Claimable == ~runStarted /\ ~stop

Claim(r) ==
  /\ pc[r] = "idle" /\ LockFree
  /\ IF Claimable
     THEN /\ runStarted' = TRUE /\ Go(r, "spawning")
          /\ startupDone' = FALSE /\ startupError' = FALSE
          /\ connected' = FALSE /\ e2ee' = FALSE
     ELSE Go(r, "refused") /\ UNCHANGED <<runStarted, flags>>
  /\ UNCHANGED <<ref, raising, bridge, evt, recovering, source, runEnv>>

\* Resolving the binary and spawning it, or an exception
SpawnBridge(r) ==
  /\ pc[r] = "spawning"
  /\ \/ bridge' = [bridge EXCEPT ![r] = "open"] /\ Go(r, "attaching")
     \/ bridge' = bridge /\ Go(r, "failing")
  /\ UNCHANGED <<runStarted, flags, ref, raising, evt, recovering, source, runEnv>>

\* stop() can reach the bridge from here on
Attach(r) ==
  /\ pc[r] = "attaching" /\ LockFree
  /\ \/ stop /\ ref' = ref /\ Go(r, "failing")
     \/ ~stop /\ ref' = r /\ Go(r, "handshaking")
  /\ UNCHANGED <<runStarted, flags, raising, bridge, evt, recovering, source, runEnv>>

\* connect_client: it can succeed only with a process that is still there
Handshake(r) ==
  /\ pc[r] = "handshaking"
  /\ \/ bridge[r] = "open" /\ link = "starting" /\ link' = "up" /\ Go(r, "watching")
     \/ link' = link /\ Go(r, "failing")
  /\ UNCHANGED <<runStarted, flags, ref, raising, bridge, evt, recovering, events, emitted,
                 watchdog, runEnv>>

\* start_watchdog raises once the bridge is closed
StartWatchdog(r) ==
  /\ pc[r] = "watching"
  /\ IF bridge[r] = "open" THEN watchdog' = "watching" /\ Go(r, "publishing")
                           ELSE watchdog' = watchdog /\ Go(r, "failing")
  /\ UNCHANGED <<runStarted, flags, ref, raising, bridge, evt, recovering, events, emitted,
                 link, runEnv>>

\* The lock is taken and kept until the three Events are set
Publish(r) ==
  /\ pc[r] = "publishing" /\ LockFree
  /\ Go(r, IF ref # r \/ stop THEN "failing" ELSE "setConnected")
  /\ UNCHANGED <<runStarted, flags, ref, raising, bridge, evt, recovering, source, runEnv>>

SetConnected(r) ==
  /\ pc[r] = "setConnected"
  /\ connected' = TRUE /\ Go(r, "setE2EE")
  /\ UNCHANGED <<runStarted, startupDone, startupError, e2ee, ref, raising, bridge, evt,
                 recovering, source, runEnv>>

SetE2EE(r) ==
  /\ pc[r] = "setE2EE"
  /\ e2ee' = (e2ee \/ EnableE2EE) /\ Go(r, "setDone")
  /\ UNCHANGED <<runStarted, startupDone, startupError, connected, ref, raising, bridge, evt,
                 recovering, source, runEnv>>

SetDone(r) ==
  /\ pc[r] = "setDone"
  /\ startupDone' = TRUE /\ Go(r, "poll")
  /\ UNCHANGED <<runStarted, startupError, connected, e2ee, ref, raising, bridge, evt,
                 recovering, source, runEnv>>

\* mutant: waiters are woken before they can see the error
AnnounceFirst == startupDone' = TRUE /\ UNCHANGED startupError

\* The except clause: the error first ...
RecordError == startupError' = TRUE /\ UNCHANGED startupDone

Fail(r) ==
  /\ pc[r] = "failing"
  /\ RecordError /\ Go(r, "failed")
  /\ UNCHANGED <<runStarted, connected, e2ee, ref, raising, bridge, evt, recovering, source,
                 runEnv>>

\* ... then the flags and the waiters; stop() follows
FailAnnounce(r) ==
  /\ pc[r] = "failed"
  /\ startupError' = TRUE /\ startupDone' = TRUE /\ connected' = FALSE /\ e2ee' = FALSE
  /\ Go(r, "unwinding")
  /\ UNCHANGED <<runStarted, ref, raising, bridge, evt, recovering, source, runEnv>>

\* stop() came back: the bridge this run made is closed, whoever owns it now
CloseOwn(r) ==
  /\ pc[r] = "unwinding" /\ spc[r] = "back" /\ bridge[r] # "none"
  /\ spc' = [spc EXCEPT ![r] = "taken"] /\ held' = [held EXCEPT ![r] = r]
  /\ Go(r, "closing")
  /\ UNCHANGED <<runStarted, stop, flags, ref, raising, bridge, evt, recovering, source, waits>>

\* Where a run goes when its stop() or close() has returned
AfterStop(r) ==
  CASE pc[r] = "leaving"    -> IF raising[r] THEN "failing" ELSE "ended"
    [] pc[r] = "calledBack" -> "poll"
    [] OTHER                -> "ended"

RunContinues(r) ==
  /\ spc[r] = "back"
  /\ \/ pc[r] \in {"leaving", "calledBack", "closing"}
     \/ pc[r] = "unwinding" /\ bridge[r] = "none"
  /\ Go(r, AfterStop(r))
  /\ spc' = [spc EXCEPT ![r] = "off"] /\ held' = [held EXCEPT ![r] = Nobody]
  /\ UNCHANGED <<runStarted, stop, flags, ref, raising, bridge, evt, recovering, source, waits>>

----------------------------------------------------------------------------
(* _poll_loop                                                               *)

\* mutant: _stop is not looked at
PollForEver == "getting"

\* The loop goes on, or its finally calls stop()
PollGoesTo == IF stop THEN "leaving" ELSE "getting"

Poll(r) ==
  /\ pc[r] = "poll"
  /\ Go(r, PollGoesTo)
  /\ UNCHANGED <<runStarted, flags, ref, raising, bridge, evt, recovering, source, runEnv>>

PollEmpty(r) ==
  /\ pc[r] = "getting" /\ events = <<>>
  /\ Go(r, "poll")
  /\ UNCHANGED <<runStarted, flags, ref, raising, bridge, evt, recovering, source, runEnv>>

PollGet(r) ==
  /\ pc[r] = "getting" /\ events # <<>>
  /\ evt' = Head(events) /\ events' = Tail(events)
  /\ Go(r, "applying")
  /\ UNCHANGED <<runStarted, flags, ref, raising, bridge, recovering, emitted, link, watchdog,
                 runEnv>>

\* mutant: a ready of the process being replayed counts
RegularUpEagerly == connected \/ evt = "up" \/ evt = "ready"

\* What an event does to the flags; during a recovery only the watchdog's
\* "up" raises them
RegularUp == CASE evt = "up" -> TRUE
               [] evt \in {"down", "closed", "fatal"} -> FALSE
               [] evt = "ready" -> connected \/ ~recovering
               [] OTHER -> connected
SecureUp  == CASE evt = "up" -> EnableE2EE
               [] evt \in {"down", "closed", "fatal", "e2eeLost"} -> FALSE
               [] evt = "e2eeConnected" -> e2ee \/ ~recovering
               [] OTHER -> e2ee

\* bridge_fatal leaves the loop by an exception.  Every event but those of the
\* watchdog is handed to the application's handler, which may call stop().
Apply(r) ==
  /\ pc[r] = "applying"
  /\ connected' = RegularUp /\ e2ee' = SecureUp
  /\ recovering' = CASE evt \in {"down", "closed"} -> TRUE
                     [] evt = "up" -> FALSE
                     [] OTHER -> recovering
  /\ \/ evt = "fatal" /\ raising' = [raising EXCEPT ![r] = TRUE] /\ Go(r, "leaving")
     \/ evt # "fatal" /\ raising' = raising /\ Go(r, "poll")
     \/ evt \notin {"down", "up", "fatal"} /\ raising' = raising /\ Go(r, "calledBack")
  /\ evt' = Nobody
  /\ UNCHANGED <<runStarted, startupDone, startupError, ref, bridge, source, runEnv>>

----------------------------------------------------------------------------
(* External: the bridge and its watchdog put events while the bridge is open *)

Put(kind) ==
  /\ emitted < MaxEvents /\ emitted' = emitted + 1
  /\ \E r \in Runs : bridge[r] = "open"
  /\ events' = Append(events, kind)
  /\ UNCHANGED <<runStarted, stop, flags, ref, calls, bridge, evt, recovering, waits>>

\* Messages, and what the sockets report
SocketEvent(kind) ==
  /\ kind \in {"ready", "message"} \cup (IF EnableE2EE THEN {"e2eeConnected", "e2eeLost"} ELSE {})
  /\ Put(kind)
  /\ UNCHANGED <<link, watchdog>>

\* The reader of a process that exited
ProcessExits ==
  /\ link \in {"starting", "up"} \/ watchdog = "recovering"
  /\ link' = IF link = "starting" THEN "stillborn" ELSE "down"
  /\ Put("closed") /\ UNCHANGED watchdog

\* _recover_process begins, succeeds, or gives up
RecoveryBegins ==
  /\ watchdog = "watching" /\ watchdog' = "recovering" /\ link' = "down"
  /\ Put("down")

RecoveryEnds ==
  /\ watchdog = "recovering"
  /\ \/ Put("up") /\ link' = "up" /\ watchdog' = "watching"
     \/ Put("fatal") /\ link' = "fatal" /\ watchdog' = "off"

----------------------------------------------------------------------------
(* wait_until_connected                                                     *)

waitEnv == <<runStarted, stop, flags, ref, calls, bridge, source, evt, recovering, strict>>
Wait(w, place) == wpc' = [wpc EXCEPT ![w] = place]

WaitBegin(w) ==
  /\ wpc[w] = "idle"
  /\ Wait(w, "startup")
  /\ late' = [late EXCEPT ![w] = \E t \in Stoppers : spc[t] = "back"]
  /\ UNCHANGED waitEnv

WaitStartup(w) ==
  /\ wpc[w] = "startup"
  /\ Wait(w, IF startupDone THEN "error" ELSE "timeout")
  /\ UNCHANGED <<late, waitEnv>>

WaitError(w) ==
  /\ wpc[w] = "error"
  /\ Wait(w, IF startupError THEN "raised" ELSE "regular")
  /\ UNCHANGED <<late, waitEnv>>

WaitRegular(w) ==
  /\ wpc[w] = "regular"
  /\ Wait(w, IF ~connected THEN "false" ELSE IF strict[w] THEN "secure" ELSE "true")
  /\ UNCHANGED <<late, waitEnv>>

WaitSecure(w) ==
  /\ wpc[w] = "secure"
  /\ Wait(w, IF e2ee THEN "true" ELSE IF startupError THEN "raised" ELSE "timeout")
  /\ UNCHANGED <<late, waitEnv>>

----------------------------------------------------------------------------
StopStep(t) ==
  \/ StopMark(t) \/ StopClearConnected(t) \/ StopClearE2EE(t) \/ StopTake(t)
  \/ CloseBegin(t) \/ CloseEnd(t)

RunStep(r) ==
  \/ Claim(r) \/ SpawnBridge(r) \/ Attach(r) \/ Handshake(r) \/ StartWatchdog(r)
  \/ Publish(r) \/ SetConnected(r) \/ SetE2EE(r) \/ SetDone(r)
  \/ Fail(r) \/ FailAnnounce(r) \/ CloseOwn(r) \/ RunContinues(r)
  \/ Poll(r) \/ PollEmpty(r) \/ PollGet(r) \/ Apply(r)

BridgeStep ==
  \/ \E kind \in Kinds : SocketEvent(kind)
  \/ ProcessExits \/ RecoveryBegins \/ RecoveryEnds

WaitStep(w) ==
  WaitBegin(w) \/ WaitStartup(w) \/ WaitError(w) \/ WaitRegular(w) \/ WaitSecure(w)

Next ==
  \/ \E t \in Threads : StopStep(t)
  \/ \E r \in Runs : RunStep(r)
  \/ BridgeStep
  \/ \E w \in Waiters : WaitStep(w)

Spec == Init /\ [][Next]_vars

----------------------------------------------------------------------------
(* Safety *)

\* A run that has claimed the listener and has returned or raised
Over(r) == pc[r] = "ended"

\* A run leaves no bridge behind: when it ends, its bridge is closed or some
\* thread is in stop() with the bridge in its hands.
NoOrphan ==
  \A r \in Runs : Over(r) =>
    \/ bridge[r] \in {"none", "closed"}
    \/ \E t \in Threads : held[t] = r /\ spc[t] \in {"taken", "closing"}

HandshakeDone == link \notin {"starting", "stillborn"}

\* A failed startup is reported as such: a waiter woken by it does not take it
\* for "not connected", unless somebody called stop() or the startup had
\* succeeded before.
FailureReported ==
  \A w \in Waiters :
    wpc[w] = "false" /\ (\A t \in Stoppers : spc[t] = "off") => HandshakeDone

\* Once the queue is drained the flags say what was announced last, whatever
\* was queued while they were published: connected exactly when the transport
\* is up, and E2EE only on top of it.  However a run ended, they are down:
\* nothing that raced with its last stop() raised them again.
FlagsSettle ==
  \A r \in Runs :
    /\ pc[r] \in {"poll", "getting"} /\ events = <<>> /\ ~stop =>
         /\ connected <=> link = "up"
         /\ e2ee => connected
    /\ Over(r) => ~connected /\ ~e2ee

----------------------------------------------------------------------------
(* Liveness *)

\* Every thread runs on; bridge.close() and the blocking calls of the startup
\* return (they have deadlines).  The bridge owes no event.
Fairness ==
  /\ \A t \in Stoppers : WF_vars(StopStep(t) /\ spc[t] # "off")
  /\ \A r \in Runs : WF_vars(StopStep(r)) /\ WF_vars(RunStep(r) /\ pc[r] # "idle")

FairSpec == Spec /\ Fairness

\* stop() ends the listener: a run in progress returns and its process is gone.
StopEnds ==
  stop ~> \A r \in Runs : pc[r] \in {"idle", "refused", "ended"} /\ bridge[r] \in {"none", "closed"}

----------------------------------------------------------------------------
\* A stop() that has returned is final for readiness: whoever asks afterwards
\* is told no.
NoReadyAfterStop == \A w \in Waiters : late[w] => wpc[w] # "true"

==============================================================================
