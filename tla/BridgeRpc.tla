------------------------------ MODULE BridgeRpc ------------------------------
(***************************************************************************)
(* The JSON-RPC client that drives the E2EE bridge subprocess: the class   *)
(* _BridgeProcess of src/_messaging/_listening_e2ee.py.                    *)
(*                                                                         *)
(* Threads: the callers of call_blocking; one writer, one reader and one   *)
(* subprocess per generation; the controlling thread (start-up, then the   *)
(* watchdog); the thread that calls close().  A step is what happens       *)
(* between two lock acquisitions or two blocking waits.  Deadlines are     *)
(* not clocks: a wait that has a timeout may always end by it.             *)
(*                                                                         *)
(* A call is named once and for all: the code gives every call a fresh     *)
(* request id (itertools.count), so no two calls share one.                *)
(***************************************************************************)
EXTENDS Integers, Sequences, FiniteSets

CONSTANTS Ext,         \* calls made by application threads
          Ctl,         \* calls made by the start-up / watchdog thread
          Sentinel,    \* the None that ends a writer thread; also "no call"
          MaxGen,      \* bound: generations the model may spawn
          MaxRetries,  \* MAX_RETRIES
          MayClose     \* whether the application ever calls close()

Calls == Ext \cup Ctl
Gens  == 1..MaxGen

ASSUME CallsAssumption == Ext \cap Ctl = {} /\ Sentinel \notin Calls
ASSUME BoundsAssumption ==
  MaxGen \in Nat \ {0} /\ MaxRetries \in Nat /\ MayClose \in BOOLEAN

VARIABLES
  gen,        \* _generation
  timedOut,   \* _timed_out_generation, 0 for None
  stopped,    \* _closed and _stop_event, set together under _state_lock
  owner,      \* _recovery_owner: TRUE when the controlling thread holds it
  probe,      \* _health_probe_active
  active,     \* the calls counted by _active_rpc_calls
  pending,    \* keys of _pending; the entry's generation is cgen
  pc, cgen,   \* where a call is; the generation it took its snapshot of
  outcome,    \* what its caller got
  result,     \* its write_request.result
  slot,       \* its response queue (maxsize 1)
  cancelled,  \* calls whose write_request.cancelled is set
  proc,       \* the subprocess of a generation
  inbox, outbox, handled,  \* requests and responses in its pipes; executions
  queue, writer, wcall,    \* its writer's queue, the thread, the call in hand
  cut,        \* a write to its stdin was given up, maybe within a line
  reader, rcall,           \* its reader thread, the call whose response it holds
  ctl, cur, failures,      \* the controlling thread, its call, its retries
  news,       \* the last connection event put in `events`
  closer, closeGen         \* the closing thread and the process it took

gateVars   == <<gen, stopped, owner, probe>>
callVars   == <<pc, cgen, outcome>>
waitVars   == <<result, slot, cancelled>>
hostVars   == <<proc, inbox, outbox, handled>>
writerVars == <<queue, writer, wcall, cut>>
readerVars == <<reader, rcall>>
ctlVars    == <<ctl, cur, failures>>
closeVars  == <<closer, closeGen>>

vars == <<gateVars, timedOut, active, pending, callVars, waitVars, hostVars, writerVars,
          readerVars, ctlVars, news, closeVars>>

\* Places of a call between its snapshot and its return
InFlight == {"snapped", "registered", "writing", "cancelling", "waiting", "dropping"}

\* Every variable has its type; a thread that has a call in hand has one.
TypeOK ==
  /\ gen \in Gens /\ timedOut \in 0..MaxGen
  /\ stopped \in BOOLEAN /\ owner \in BOOLEAN /\ probe \in BOOLEAN
  /\ active \subseteq Calls /\ pending \subseteq Calls /\ cancelled \subseteq Calls
  /\ pc \in [Calls -> {"idle", "admitted", "done"} \cup InFlight]
  /\ cgen \in [Calls -> 0..MaxGen]
  /\ outcome \in [Calls -> {"none", "reply", "error", "timeout"}]
  /\ result \in [Calls -> {"none", "ok", "error"}]
  /\ slot \in [Calls -> {"none", "reply", "failed"}]
  /\ proc \in [Gens -> {"none", "alive", "dead"}]
  /\ inbox \in [Gens -> SUBSET Calls] /\ outbox \in [Gens -> SUBSET Calls]
  /\ handled \in [Calls -> Nat]
  /\ queue \in [Gens -> Seq(Calls \cup {Sentinel})]
  /\ writer \in [Gens -> {"none", "idle", "writing", "aborting", "exited"}]
  /\ wcall \in [Gens -> Calls \cup {Sentinel}]
  /\ cut \in [Gens -> BOOLEAN]
  /\ reader \in [Gens -> {"none", "reading", "popped", "tainted", "failed", "exited"}]
  /\ rcall \in [Gens -> Calls \cup {Sentinel}]
  /\ \A g \in Gens : /\ writer[g] \in {"writing", "aborting"} => wcall[g] \in Calls
                     /\ reader[g] = "popped" => rcall[g] \in Calls
  /\ ctl \in {"boot", "booting", "watch", "checked", "probing", "recover", "assess",
              "kill", "retry", "spawning", "spawned", "replaying", "gone"}
  /\ cur \in Ctl \cup {Sentinel} /\ failures \in 0..(MaxRetries + 1)
  /\ news \in {"none", "down", "up", "fatal"}
  /\ closer \in {"open", "marked", "signalled", "waiting", "joining", "closed"}
  /\ closeGen \in 0..MaxGen

\* __init__ has spawned generation 1; its reader and writer threads run.
Init ==
  /\ gen = 1 /\ timedOut = 0 /\ stopped = FALSE /\ owner = FALSE /\ probe = FALSE
  /\ active = {} /\ pending = {} /\ cancelled = {}
  /\ pc = [c \in Calls |-> "idle"] /\ cgen = [c \in Calls |-> 0]
  /\ outcome = [c \in Calls |-> "none"]
  /\ result = [c \in Calls |-> "none"] /\ slot = [c \in Calls |-> "none"]
  /\ proc = [g \in Gens |-> IF g = 1 THEN "alive" ELSE "none"]
  /\ inbox = [g \in Gens |-> {}] /\ outbox = [g \in Gens |-> {}]
  /\ handled = [c \in Calls |-> 0]
  /\ queue = [g \in Gens |-> <<>>] /\ wcall = [g \in Gens |-> Sentinel]
  /\ writer = [g \in Gens |-> IF g = 1 THEN "idle" ELSE "none"]
  /\ cut = [g \in Gens |-> FALSE]
  /\ reader = [g \in Gens |-> IF g = 1 THEN "reading" ELSE "none"]
  /\ rcall = [g \in Gens |-> Sentinel]
  /\ ctl = "boot" /\ cur = Sentinel /\ failures = 0 /\ news = "none"
  /\ closer = "open" /\ closeGen = 0

----------------------------------------------------------------------------
(* What several threads do.  A definition marked "mutant" is a plausible    *)
(* wrong version of the one that follows it and is used by no action.       *)

IsCurrent(g) == gen = g

\* mutant: the generation stays in use
TaintNothing(g) == timedOut' = timedOut

\* _taint_generation: new calls are refused until the generation is replaced
Taint(g) == timedOut' = IF IsCurrent(g) /\ ~stopped THEN g ELSE timedOut

\* mutant: the entry stays in _pending
KeepEntry(c) == pending' = pending

\* The caller takes its own entry out of _pending
PopEntry(c) == pending' = pending \ {c}

\* The requests _fail_pending_generation(g) takes
PendingOf(g) == {c \in pending : cgen[c] = g}

\* What another thread puts in a queue of a call that has returned is lost
Waiting(S) == {c \in S \cap Calls : pc[c] # "done"}

\* Take entries out of _pending and answer {"ok": False} to their callers
FailPending(S) ==
  /\ pending' = pending \ S
  /\ slot' = [c \in Calls |-> IF c \in Waiting(S) THEN "failed" ELSE slot[c]]
  /\ UNCHANGED <<result, cancelled>>

\* mutant: only the writer is stopped
TerminateWriterOnly(g) ==
  /\ queue' = [queue EXCEPT ![g] = Append(@, Sentinel)]
  /\ FailPending(PendingOf(g))
  /\ UNCHANGED <<hostVars, writer, wcall, cut>>

\* _terminate_process: the sentinel, terminate or kill, then the pending calls
Terminate(g) ==
  /\ queue' = [queue EXCEPT ![g] = Append(@, Sentinel)]
  /\ proc' = [proc EXCEPT ![g] = "dead"]
  /\ inbox' = [inbox EXCEPT ![g] = {}]
  /\ FailPending(PendingOf(g))
  /\ UNCHANGED <<outbox, handled, writer, wcall, cut>>

----------------------------------------------------------------------------
(* call_blocking and _call_blocking_impl *)

callEnv == <<hostVars, writerVars, readerVars, ctl, failures, news, closeVars>>

Goto(c, place) == pc' = [pc EXCEPT ![c] = place]

\* The controlling thread calls within a script, one call at a time
MayCall(c) ==
  c \in Ctl => ctl \in {"booting", "replaying"} /\ cur = Sentinel
Called(c) == cur' = IF c \in Ctl THEN c ELSE cur

\* mutant: the gate looks at the probe only
GateIgnoresOwner(c) == ~probe

\* call_blocking need not wait
GateOpen(c) == ~probe /\ (owner => c \in Ctl)

GateAdmit(c) ==
  /\ pc[c] = "idle" /\ MayCall(c) /\ GateOpen(c) /\ ~stopped /\ timedOut = 0
  /\ active' = active \cup {c}
  /\ Goto(c, "admitted") /\ Called(c)
  /\ UNCHANGED <<gateVars, timedOut, pending, cgen, outcome, waitVars, callEnv>>

\* The ways out of the gate: closing, a tainted generation, the deadline
GateRefuse(c) ==
  /\ pc[c] = "idle" /\ MayCall(c)
  /\ stopped \/ timedOut # 0 \/ ~GateOpen(c)
  /\ outcome' = [outcome EXCEPT ![c] = "error"]
  /\ Goto(c, "done") /\ Called(c)
  /\ UNCHANGED <<gateVars, timedOut, active, pending, cgen, waitVars, callEnv>>

\* mutant: the finally of call_blocking is lost
StayCounted(c) == active' = active

\* The finally of call_blocking; the call of a probe was never counted
Discount(c) == active' = active \ {c}

\* The call returns; its two queues are garbage from here on
Return(c) ==
  /\ Goto(c, "done") /\ Discount(c)
  /\ result' = [result EXCEPT ![c] = "none"]
  /\ slot' = [slot EXCEPT ![c] = "none"]
  /\ UNCHANGED cancelled

\* _snapshot_process succeeds: a running process of an object that is open
Running == ~stopped /\ proc[gen] = "alive"

Snapshot(c) ==
  /\ pc[c] = "admitted" /\ Running
  /\ cgen' = [cgen EXCEPT ![c] = gen]
  /\ Goto(c, "snapped")
  /\ UNCHANGED <<gateVars, timedOut, active, pending, outcome, waitVars, cur, callEnv>>

\* The snapshot fails, or the wait at the gate used up the deadline
NoSnapshot(c) ==
  /\ pc[c] = "admitted" /\ (~Running \/ c \in active)
  /\ outcome' = [outcome EXCEPT ![c] = "error"]
  /\ Return(c)
  /\ UNCHANGED <<gateVars, timedOut, pending, cgen, cur, callEnv>>

Register(c) ==
  /\ pc[c] = "snapped"
  /\ pending' = pending \cup {c}
  /\ Goto(c, "registered")
  /\ UNCHANGED <<gateVars, timedOut, active, cgen, outcome, waitVars, cur, callEnv>>

\* mutant: close() is not looked at
MayEnqueueWhileClosing(c) == IsCurrent(cgen[c])

\* Checked under _state_lock, together with the put
MayEnqueue(c) == ~stopped /\ IsCurrent(cgen[c])

Enqueue(c) ==
  /\ pc[c] = "registered" /\ MayEnqueue(c)
  /\ queue' = [queue EXCEPT ![gen] = Append(@, c)]
  /\ Goto(c, "writing")
  /\ UNCHANGED <<gateVars, timedOut, active, pending, cgen, outcome, waitVars, hostVars,
                 writer, wcall, cut, readerVars, ctlVars, news, closeVars>>

\* Not serializable, over 150 MiB, closing, or another generation by now
Reject(c) ==
  /\ pc[c] = "registered"
  /\ outcome' = [outcome EXCEPT ![c] = "error"]
  /\ PopEntry(c) /\ Return(c)
  /\ UNCHANGED <<gateVars, timedOut, cgen, cur, callEnv>>

Written(c) ==
  /\ pc[c] = "writing" /\ result[c] = "ok"
  /\ Goto(c, "waiting")
  /\ UNCHANGED <<gateVars, timedOut, active, pending, cgen, outcome, waitVars, cur, callEnv>>

NotWritten(c) ==
  /\ pc[c] = "writing" /\ result[c] = "error"
  /\ outcome' = [outcome EXCEPT ![c] = "error"]
  /\ Goto(c, "dropping")
  /\ UNCHANGED <<gateVars, timedOut, active, pending, cgen, waitVars, cur, callEnv>>

\* The deadline passes before the writer reports: taint first, then cancel
WriteTimeout(c) ==
  /\ pc[c] = "writing" /\ result[c] = "none"
  /\ Taint(cgen[c])
  /\ outcome' = [outcome EXCEPT ![c] = "timeout"]
  /\ Goto(c, "cancelling")
  /\ UNCHANGED <<gateVars, active, pending, cgen, waitVars, cur, callEnv>>

CancelWrite(c) ==
  /\ pc[c] = "cancelling"
  /\ cancelled' = cancelled \cup {c}
  /\ Goto(c, "dropping")
  /\ UNCHANGED <<gateVars, timedOut, active, pending, cgen, outcome, result, slot, cur,
                 callEnv>>

\* mutant: a response is waited for without a deadline
WaitForEver(c) == FALSE

ResponseTimeout(c) ==
  /\ pc[c] = "waiting" /\ slot[c] = "none"
  /\ Taint(cgen[c])
  /\ outcome' = [outcome EXCEPT ![c] = "timeout"]
  /\ Goto(c, "dropping")
  /\ UNCHANGED <<gateVars, active, pending, cgen, waitVars, cur, callEnv>>

Drop(c) ==
  /\ pc[c] = "dropping"
  /\ PopEntry(c) /\ Return(c)
  /\ UNCHANGED <<gateVars, timedOut, cgen, outcome, cur, callEnv>>

TakeResponse(c) ==
  /\ pc[c] = "waiting" /\ slot[c] # "none"
  /\ outcome' = [outcome EXCEPT ![c] = IF slot[c] = "reply" THEN "reply" ELSE "error"]
  /\ Return(c)
  /\ UNCHANGED <<gateVars, timedOut, pending, cgen, cur, callEnv>>

----------------------------------------------------------------------------
(* _write_loop: one writer thread per generation *)

writerEnv == <<gateVars, active, pending, callVars, slot, cancelled, proc, outbox, handled,
               readerVars, ctlVars, news, closeVars>>

Takes(g, isRequest) ==
  writer[g] = "idle" /\ queue[g] # <<>> /\ (isRequest <=> Head(queue[g]) # Sentinel)

\* mutant: the writer goes on after a failure
WriterGoesOn(g) == writer' = [writer EXCEPT ![g] = "idle"]

WriterEnds(g) == writer' = [writer EXCEPT ![g] = "exited"]

\* _fail_queued_writes: the writer ends; S and the requests queued behind get
\* the error, except those whose caller has cancelled
FailWrites(g, S) ==
  LET queued == {queue[g][i] : i \in 1..Len(queue[g])}
  IN  /\ result' = [c \in Calls |-> IF c \in Waiting(S \cup (queued \ cancelled))
                                    THEN "error" ELSE result[c]]
      /\ queue' = [queue EXCEPT ![g] = <<>>]
      /\ wcall' = [wcall EXCEPT ![g] = Sentinel]
      /\ WriterEnds(g)

WriterStop(g) ==
  /\ Takes(g, FALSE)
  /\ FailWrites(g, {})
  /\ UNCHANGED <<timedOut, inbox, cut, writerEnv>>

\* Closing, or another generation: the request fails, with no taint
WriterRefuse(g) ==
  /\ Takes(g, TRUE) /\ Head(queue[g]) \notin cancelled
  /\ stopped \/ ~IsCurrent(g)
  /\ FailWrites(g, {Head(queue[g])})
  /\ UNCHANGED <<timedOut, inbox, cut, writerEnv>>

\* The checks passed: the writer holds the write lock and writes the line
WriterTake(g) ==
  /\ Takes(g, TRUE) /\ Head(queue[g]) \notin cancelled
  /\ ~stopped /\ IsCurrent(g)
  /\ wcall' = [wcall EXCEPT ![g] = Head(queue[g])]
  /\ queue' = [queue EXCEPT ![g] = Tail(@)]
  /\ writer' = [writer EXCEPT ![g] = "writing"]
  /\ UNCHANGED <<timedOut, result, inbox, cut, writerEnv>>

\* The whole line is in the pipe: a cancellation after the last check does not
\* take it back
WriterFinish(g) ==
  /\ writer[g] = "writing" /\ proc[g] = "alive"
  /\ inbox' = [inbox EXCEPT ![g] = @ \cup {wcall[g]}]
  /\ result' = [result EXCEPT ![wcall[g]] = IF pc[wcall[g]] = "done" THEN @ ELSE "ok"]
  /\ writer' = [writer EXCEPT ![g] = "idle"]
  /\ wcall' = [wcall EXCEPT ![g] = Sentinel]
  /\ UNCHANGED <<timedOut, queue, cut, writerEnv>>

\* The request was cancelled while it was queued
WriterSkips(g) ==
  /\ Takes(g, TRUE) /\ Head(queue[g]) \in cancelled
  /\ Taint(g)
  /\ wcall' = [wcall EXCEPT ![g] = Head(queue[g])]
  /\ queue' = [queue EXCEPT ![g] = Tail(@)]
  /\ writer' = [writer EXCEPT ![g] = "aborting"]
  /\ UNCHANGED <<result, inbox, cut, writerEnv>>

\* Between two chunks the writer sees a cancellation, close() or another
\* generation; or the process is gone (BrokenPipeError).  Part of the line may
\* be in the pipe.
WriterFails(g) ==
  /\ writer[g] = "writing"
  /\ \/ wcall[g] \in cancelled \/ stopped \/ ~IsCurrent(g)
     \/ proc[g] = "dead"
  /\ Taint(g)
  /\ cut' = [cut EXCEPT ![g] = TRUE]
  /\ writer' = [writer EXCEPT ![g] = "aborting"]
  /\ UNCHANGED <<queue, wcall, result, inbox, writerEnv>>

\* After the taint: the request in hand and those behind it fail
WriterAbort(g) ==
  /\ writer[g] = "aborting"
  /\ FailWrites(g, {wcall[g]})
  /\ UNCHANGED <<timedOut, inbox, cut, writerEnv>>

----------------------------------------------------------------------------
(* The subprocess, as its client sees it: it may answer, hang or exit *)

hostEnv == <<gateVars, timedOut, active, pending, callVars, waitVars, writerVars,
             readerVars, ctlVars, news, closeVars>>

Handle(g, c) ==
  /\ proc[g] = "alive" /\ c \in inbox[g]
  /\ inbox' = [inbox EXCEPT ![g] = @ \ {c}]
  /\ outbox' = [outbox EXCEPT ![g] = @ \cup {c}]
  /\ handled' = [handled EXCEPT ![c] = @ + 1]
  /\ UNCHANGED <<proc, hostEnv>>

\* proc.poll() is not None from here on; what it wrote can still be read
Exit(g) ==
  /\ proc[g] = "alive"
  /\ proc' = [proc EXCEPT ![g] = "dead"]
  /\ inbox' = [inbox EXCEPT ![g] = {}]
  /\ UNCHANGED <<outbox, handled, hostEnv>>

----------------------------------------------------------------------------
(* _read_loop and _mark_generation_exited: one reader thread per generation *)

readerEnv == <<gateVars, active, callVars, result, cancelled, proc, inbox, handled,
               writer, wcall, cut, ctlVars, closeVars>>

\* A response whose entry is in _pending and of this generation takes it out
ReadResponse(g, c) ==
  /\ reader[g] = "reading" /\ c \in outbox[g] /\ c \in PendingOf(g)
  /\ outbox' = [outbox EXCEPT ![g] = @ \ {c}]
  /\ pending' = pending \ {c}
  /\ reader' = [reader EXCEPT ![g] = "popped"]
  /\ rcall' = [rcall EXCEPT ![g] = c]
  /\ UNCHANGED <<timedOut, slot, queue, news, readerEnv>>

\* Any other response is dropped
DropResponse(g, c) ==
  /\ reader[g] = "reading" /\ c \in outbox[g] /\ c \notin PendingOf(g)
  /\ outbox' = [outbox EXCEPT ![g] = @ \ {c}]
  /\ UNCHANGED <<timedOut, pending, slot, queue, news, readerVars, readerEnv>>

PutResponse(g) ==
  /\ reader[g] = "popped"
  /\ slot' = [slot EXCEPT ![rcall[g]] = IF pc[rcall[g]] = "done" THEN @ ELSE "reply"]
  /\ reader' = [reader EXCEPT ![g] = "reading"]
  /\ rcall' = [rcall EXCEPT ![g] = Sentinel]
  /\ UNCHANGED <<timedOut, pending, outbox, queue, news, readerEnv>>

\* stdout ends once the process is gone and its last line is read
ReadEof(g) ==
  /\ reader[g] = "reading" /\ proc[g] = "dead" /\ outbox[g] = {}
  /\ Taint(g)
  /\ reader' = [reader EXCEPT ![g] = "tainted"]
  /\ UNCHANGED <<pending, slot, outbox, queue, news, rcall, readerEnv>>

\* The sentinel goes to the queue of the reader's own generation; the calls
\* that wait for this generation fail
ReaderFail(g) ==
  /\ reader[g] = "tainted"
  /\ queue' = [queue EXCEPT ![g] = Append(@, Sentinel)]
  /\ FailPending(PendingOf(g))
  /\ reader' = [reader EXCEPT ![g] = "failed"]
  /\ UNCHANGED <<timedOut, outbox, news, rcall, gateVars, active, callVars, proc, inbox,
                 handled, writer, wcall, cut, ctlVars, closeVars>>

\* mutant: whatever runs by now
AnnouncesAlways(g) == ~stopped

\* Only a current generation puts the "closed" event
Announces(g) == IsCurrent(g) /\ ~stopped

ReaderEnds(g) ==
  /\ reader[g] = "failed"
  /\ news' = IF Announces(g) THEN "down" ELSE news
  /\ reader' = [reader EXCEPT ![g] = "exited"]
  /\ UNCHANGED <<timedOut, pending, slot, outbox, queue, rcall, readerEnv>>

----------------------------------------------------------------------------
(* The controlling thread: connect_client at start-up, then _watchdog_loop, *)
(* _probe_health and _recover_process.  A script (hello, newClient, connect,*)
(* isConnected ...) is one or more calls of Ctl in a row; a reply may also  *)
(* fail the script (error status, wrong version, never ready).              *)

ctlEnv == <<stopped, active, pending, callVars, waitVars, hostVars, writerVars,
            readerVars, closeVars>>

\* Bound: the script has a call left to make
Budget == \E c \in Ctl : pc[c] = "idle"

\* mutant: the calls in progress are not waited for
RecoveryFreeNoWait == ~owner /\ ~probe

\* _begin_recovery_transaction need not wait
RecoveryFree == ~owner /\ ~probe /\ active = {}

\* _begin_recovery_transaction, by connect_client or _recover_process: the
\* thread gets the transaction, or ends because the object is closing
Begin(from, to) ==
  /\ ctl = from
  /\ \/ stopped /\ ctl' = "gone" /\ owner' = owner
     \/ ~stopped /\ RecoveryFree /\ ctl' = to /\ owner' = TRUE
  /\ UNCHANGED <<gen, timedOut, probe, cur, failures, news, ctlEnv>>

BootBegin == Begin("boot", "booting")
RecoverBegin == Begin("recover", "assess")

CallEnded == cur # Sentinel /\ pc[cur] = "done"
CallReplied == CallEnded /\ outcome[cur] = "reply"

\* The script goes on with another call
ScriptMore ==
  /\ ctl \in {"booting", "probing", "replaying"} /\ CallReplied /\ Budget
  /\ cur' = Sentinel
  /\ UNCHANGED <<gen, timedOut, owner, probe, ctl, failures, news, ctlEnv>>

\* The start-up ends: the watchdog starts, or the listener gives up
BootEnd ==
  /\ ctl = "booting" /\ CallEnded
  /\ \/ CallReplied /\ ~stopped /\ ctl' = "watch"
     \/ ctl' = "gone"
  /\ owner' = FALSE /\ cur' = Sentinel
  /\ UNCHANGED <<gen, timedOut, probe, failures, news, ctlEnv>>

\* HEALTH_INTERVAL passes, or close() wakes the watchdog
WatchTick ==
  /\ ctl = "watch"
  /\ ctl' = IF stopped THEN "gone" ELSE IF Running THEN "checked" ELSE "recover"
  /\ UNCHANGED <<gen, timedOut, owner, probe, cur, failures, news, ctlEnv>>

\* _probe_health under _rpc_condition: a tainted generation is recovered, a
\* busy one is left alone
ProbeBegin ==
  /\ ctl = "checked"
  /\ \/ timedOut = gen /\ ctl' = "recover" /\ probe' = probe
     \/ timedOut # gen /\ (active # {} \/ owner) /\ ctl' = "watch" /\ probe' = probe
     \/ timedOut # gen /\ active = {} /\ ~owner /\ Budget /\ ctl' = "probing" /\ probe' = TRUE
  /\ UNCHANGED <<gen, timedOut, owner, cur, failures, news, ctlEnv>>

\* A probe calls _call_blocking_impl directly: it passes its own gate uncounted
ProbeCall(c) ==
  /\ ctl = "probing" /\ cur = Sentinel /\ c \in Ctl /\ pc[c] = "idle"
  /\ Goto(c, "admitted") /\ cur' = c
  /\ UNCHANGED <<gateVars, timedOut, active, pending, cgen, outcome, waitVars, callEnv>>

\* Healthy (the failures are forgotten only after STABLE_UPTIME), not unhealthy
\* for UNHEALTHY_CHECK_LIMIT probes yet, or to be recovered
ProbeEnd ==
  /\ ctl = "probing" /\ CallEnded
  /\ \/ CallReplied /\ ctl' = "watch" /\ failures' \in {failures, 0}
     \/ ctl' = "recover" /\ failures' = failures
  /\ probe' = FALSE /\ cur' = Sentinel
  /\ UNCHANGED <<gen, timedOut, owner, news, ctlEnv>>

\* A process still running is terminated; one that exited needs nothing
Assess ==
  /\ ctl = "assess"
  /\ \/ Running /\ ctl' = "kill" /\ news' = news
     \/ ~Running /\ ctl' = "retry" /\ news' = "down"
  /\ UNCHANGED <<gen, timedOut, owner, probe, cur, failures, ctlEnv>>

\* Then the "disconnected" event; after a failed attempt it is there already
Kill ==
  /\ ctl = "kill"
  /\ Terminate(gen)
  /\ news' = "down" /\ ctl' = "retry"
  /\ UNCHANGED <<gateVars, timedOut, active, callVars, readerVars, cur, failures, closeVars>>

\* close() ends the loop, bridge_fatal after MAX_RETRIES, or one more attempt
Retry ==
  /\ ctl = "retry"
  /\ \/ /\ stopped
        /\ ctl' = "gone" /\ owner' = FALSE /\ UNCHANGED <<failures, news>>
     \/ /\ ~stopped /\ failures >= MaxRetries
        /\ failures' = MaxRetries + 1
        /\ ctl' = "gone" /\ owner' = FALSE /\ news' = "fatal"
     \/ /\ ~stopped /\ failures < MaxRetries
        /\ failures' = failures + 1
        /\ ctl' = "spawning" /\ UNCHANGED <<owner, news>>
  /\ UNCHANGED <<gen, timedOut, probe, cur, ctlEnv>>

\* mutant: _closed is not looked at
SpawnAlways == gen < MaxGen

\* The backoff was not interrupted and _spawn finds the object open.  Bound: MaxGen
MaySpawn == ~stopped /\ gen < MaxGen

\* _spawn: a new process, an open gate, a queue and threads of its own.
\* broken: the writer thread did not start and the process is taken down again.
Spawn(broken) ==
  /\ ctl = "spawning" /\ MaySpawn
  /\ gen' = gen + 1 /\ timedOut' = 0
  /\ proc' = [proc EXCEPT ![gen + 1] = "alive"]
  /\ reader' = [reader EXCEPT ![gen + 1] = "reading"]
  /\ writer' = [writer EXCEPT ![gen + 1] = IF broken THEN "none" ELSE "idle"]
  /\ ctl' = IF broken THEN "kill" ELSE "spawned"
  /\ UNCHANGED <<stopped, owner, probe, active, pending, callVars, waitVars, inbox, outbox,
                 handled, queue, wcall, cut, rcall, cur, failures, news, closeVars>>

\* Popen fails, or close() came during the backoff
SpawnFails ==
  /\ ctl = "spawning"
  /\ ctl' = "retry"
  /\ UNCHANGED <<gen, timedOut, owner, probe, cur, failures, news, ctlEnv>>

\* The snapshot after the spawn finds the new process running, or not
CheckSpawned ==
  /\ ctl = "spawned"
  /\ ctl' = IF Running THEN "replaying" ELSE "retry"
  /\ UNCHANGED <<gen, timedOut, owner, probe, cur, failures, news, ctlEnv>>

\* The replayed script succeeded and the transaction ends, or the new process
\* is terminated and another attempt follows
ReplayEnd ==
  /\ ctl = "replaying"
  /\ \/ CallReplied /\ ctl' = "watch" /\ owner' = FALSE /\ news' = "up"
     \/ CallEnded /\ ctl' = "kill" /\ UNCHANGED <<owner, news>>
  /\ cur' = Sentinel
  /\ UNCHANGED <<gen, timedOut, probe, failures, ctlEnv>>

----------------------------------------------------------------------------
(* close() *)

closeEnv == <<gen, timedOut, owner, probe, active, callVars, readerVars, ctlVars, news>>

CloseMark ==
  /\ closer = "open" /\ MayClose
  /\ stopped' = TRUE /\ closeGen' = gen /\ closer' = "marked"
  /\ UNCHANGED <<pending, waitVars, hostVars, writerVars, closeEnv>>

CloseSignal ==
  /\ closer = "marked"
  /\ queue' = [queue EXCEPT ![gen] = Append(@, Sentinel)]
  /\ closer' = "signalled"
  /\ UNCHANGED <<stopped, pending, waitVars, hostVars, writer, wcall, cut, closeGen, closeEnv>>

\* stdin is closed if the writer lets go of its lock within
\* CLOSE_WRITE_LOCK_TIMEOUT; a process that has exited needs nothing
CloseStdin ==
  /\ closer = "signalled"
  /\ \/ proc[closeGen] = "alive" /\ writer[closeGen] # "writing" /\ closer' = "waiting"
     \/ proc[closeGen] = "dead" /\ closer' = "joining"
  /\ UNCHANGED <<stopped, pending, waitVars, hostVars, writerVars, closeGen, closeEnv>>

\* The process exits within CLOSE_GRACEFUL_TIMEOUT
CloseExited ==
  /\ closer = "waiting" /\ proc[closeGen] = "dead"
  /\ closer' = "joining"
  /\ UNCHANGED <<stopped, pending, waitVars, hostVars, writerVars, closeGen, closeEnv>>

\* The lock, or the exit, takes too long
CloseKill ==
  /\ \/ closer = "waiting"
     \/ closer = "signalled" /\ writer[closeGen] = "writing"
  /\ proc[closeGen] = "alive"
  /\ Terminate(closeGen)
  /\ closer' = "joining"
  /\ UNCHANGED <<stopped, closeGen, closeEnv>>

\* The watchdog ended or its join timed out; every entry left is failed
CloseEnd ==
  /\ closer = "joining"
  /\ FailPending(pending)
  /\ closer' = "closed"
  /\ UNCHANGED <<stopped, hostVars, writerVars, closeGen, closeEnv>>

----------------------------------------------------------------------------
CallStep(c) ==
  \/ GateAdmit(c) \/ GateRefuse(c) \/ Snapshot(c) \/ NoSnapshot(c) \/ Register(c)
  \/ Enqueue(c) \/ Reject(c) \/ Written(c) \/ NotWritten(c) \/ WriteTimeout(c)
  \/ CancelWrite(c) \/ ResponseTimeout(c) \/ Drop(c) \/ TakeResponse(c)

WriterStep(g) ==
  \/ WriterStop(g) \/ WriterRefuse(g) \/ WriterTake(g) \/ WriterFinish(g)
  \/ WriterSkips(g) \/ WriterFails(g) \/ WriterAbort(g)

ReaderStep(g) ==
  \/ \E c \in Calls : ReadResponse(g, c) \/ DropResponse(g, c)
  \/ PutResponse(g) \/ ReadEof(g) \/ ReaderFail(g) \/ ReaderEnds(g)

CtlStep ==
  \/ BootBegin \/ ScriptMore \/ BootEnd \/ WatchTick \/ ProbeBegin
  \/ \E c \in Ctl : ProbeCall(c)
  \/ ProbeEnd \/ RecoverBegin \/ Assess \/ Kill \/ Retry
  \/ \E broken \in BOOLEAN : Spawn(broken)
  \/ SpawnFails \/ CheckSpawned \/ ReplayEnd

CloseStep ==
  CloseMark \/ CloseSignal \/ CloseStdin \/ CloseExited \/ CloseKill \/ CloseEnd

Next ==
  \/ \E c \in Calls : CallStep(c)
  \/ \E g \in Gens : WriterStep(g) \/ ReaderStep(g)
  \/ \E g \in Gens : Exit(g) \/ \E c \in Calls : Handle(g, c)
  \/ CtlStep
  \/ CloseStep

Spec == Init /\ [][Next]_vars

----------------------------------------------------------------------------
(* Safety *)

\* No external call is counted while a recovery transaction is open, and a
\* health probe runs alone: the gate of call_blocking, _probe_health and
\* _begin_recovery_transaction exclude each other.
RecoveryExclusive ==
  /\ owner => active \cap Ext = {}
  /\ probe => active = {} /\ ~owner

\* The generation never changes under a call: from its snapshot to its return
\* the process it talks to is the current one.
CallKeepsGeneration ==
  \A c \in Calls : pc[c] \in InFlight => cgen[c] = gen

\* A taint is about the running generation.  One left by an old thread would
\* close the gate for good: the probe compares it with the current generation.
TaintIsCurrent == timedOut \in {0, gen}

\* Once a call on a generation has timed out, the gate refuses every other
\* until the generation is replaced: the framing of the pipe is in doubt.
TimedOutRefused ==
  \A c \in Calls :
    outcome[c] = "timeout" /\ cgen[c] = gen /\ ~stopped => timedOut = gen

\* A request queued behind the end of its writer has nobody to fail it and
\* waits for its own deadline; that happens only in a generation already
\* given up, or while closing.
StrandedOnlyWhenGivenUp ==
  \A c \in Calls :
    pc[c] = "writing" /\ result[c] = "none" /\ writer[cgen[c]] = "exited"
      => stopped \/ timedOut = cgen[c]

\* At most one bridge process is alive: a recovery ends the old one before it
\* spawns the next, and every failed attempt takes its process down.
OneBridge ==
  \A g, h \in Gens : proc[g] = "alive" /\ proc[h] = "alive" => g = h

\* close() leaves no orphan: once it goes on to join the watchdog no process
\* is alive, whatever the recovery was doing when it was called.
ClosedLeavesNoProcess ==
  closer \in {"joining", "closed"} => \A g \in Gens : proc[g] # "alive"

\* close() queues its sentinel after every accepted request: nothing is ever
\* accepted behind it.
SentinelLast ==
  closer \notin {"open", "marked"} =>
    queue[closeGen] = <<>> \/ queue[closeGen][Len(queue[closeGen])] = Sentinel

\* The last connection event does not say "down" while the watchdog watches a
\* generation whose reader has not announced its end: an old reader never
\* overrides the "connected" event of its successor.
NewsIsCurrent ==
  ctl \in {"watch", "checked", "probing", "recover"} /\ ~stopped
    /\ reader[gen] # "exited"
      => news # "down"

\* A call that has returned left nothing behind: no entry in _pending, no
\* count that would hold up every later recovery.
NothingLeftBehind ==
  \A c \in Calls : pc[c] = "done" => c \notin pending /\ c \notin active

\* Nothing is written to a pipe after a write that was given up: the request
\* would be glued to the rest of a line cut short.
FramingIntact ==
  [][\A g \in Gens : cut[g] => inbox'[g] \subseteq inbox[g]]_vars

\* A call as the contract sees it: its place, its generation, what its caller got
StatusOf(place, made, got) ==
  CASE place \in InFlight -> "open"
    [] place = "done" /\ made # 0 -> IF got = "reply" THEN "replied" ELSE "failed"
    [] OTHER -> "new"

\* The client implements the at-most-once contract
Contract == INSTANCE AtMostOnceRpc WITH
  epoch  <- gen,
  status <- [c \in Calls |-> StatusOf(pc[c], cgen[c], outcome[c])],
  made   <- cgen,
  execs  <- handled

\* At most once, in its own generation, and "reply" only if executed
AtMostOnce == Contract!ASpec

----------------------------------------------------------------------------
(* Liveness *)

\* Threads that are scheduled run on, and every wait with a deadline ends.
\* The subprocess owes nothing: it may hang for ever, with a write blocked on
\* it until it is killed, so neither Handle nor WriterFinish is fair.
Fairness ==
  /\ \A c \in Calls :
       /\ WF_vars(Snapshot(c) \/ NoSnapshot(c)) /\ WF_vars(Register(c))
       /\ WF_vars(Enqueue(c) \/ Reject(c))
       /\ WF_vars(Written(c) \/ NotWritten(c) \/ WriteTimeout(c))
       /\ WF_vars(CancelWrite(c)) /\ WF_vars(Drop(c))
       /\ WF_vars(TakeResponse(c) \/ ResponseTimeout(c))
  /\ WF_vars(\E c \in Ctl : GateAdmit(c) \/ GateRefuse(c))
  /\ WF_vars(CtlStep)

FairSpec == Spec /\ Fairness

\* A tainted generation is replaced, unless the object is closed or the
\* retries are used up: no call that timed out can hold the recovery up.
\* (At MaxGen, or with no call of Ctl left, the model has no respawn to make.)
TaintHeals ==
  timedOut # 0 ~> \/ timedOut = 0 \/ stopped \/ ctl = "gone"
                  \/ gen = MaxGen \/ ~Budget

\* Every admitted call returns to its caller, even from a bridge that hangs.
CallsReturn == \A c \in Calls : pc[c] = "admitted" ~> pc[c] = "done"

==============================================================================
