# Formal models of fbchat-v2

TLA+ modules, TLC configurations and TLAPS proofs kept beside fbchat-v2, a Python
library for Messenger with a Go subprocess (the *bridge*) for end-to-end encrypted
chats. Every definition is translated from the source; `PROJECT.json` names, for
each one, the file and lines it stands for.

## 1. The system

Paths are those of the repository. "State" is what a component keeps between two
calls; components without any are listed in 1.9.

### 1.1 Bridge RPC client — `_BridgeProcess`, `src/_messaging/_listening_e2ee.py` 445–1232

State: the current subprocess and its *generation* number; `_pending`, the calls that
wait for an answer; `_active_rpc_calls`, `_health_probe_active`, `_recovery_owner` and
`_timed_out_generation`, the gate every call passes; a writer queue per generation;
`_stop_event`.

Operations: `call_blocking` (any thread), one writer and one reader thread per
generation, `connect_client`, the watchdog (`_watchdog_loop`, `_probe_health`,
`_recover_process`), `close`.

Hard: three kinds of traffic share one pipe and exclude each other through one
condition; every wait may end by a deadline while its answer is on the way; the process
is killed and replaced while readers and writers of the old one still run; `close()`
comes at any moment. Correct when: no call ever meets a process it was not checked
against; a call that timed out closes the gate until the process is replaced; nothing
is written after a line cut short; at most one bridge lives, and none after `close()`;
nobody waits for ever.

### 1.2 E2EE listener — `listeningE2EEEvent`, same file, 1246–1660

State: `_run_started`, `_stop`, `_startup_done`, `_startup_error`, `_connected`,
`_e2ee_connected`, `_bridge`. Operations: `connect_mqtt_blocking` (start-up, then
`_poll_loop`), `stop`, `wait_until_connected`, the `on_message` handlers, which run on
the polling thread and may call `stop` themselves.

Hard: `stop()` at every point of the start-up, partly outside the lock; readiness flags
written by three threads; events queued before a recovery and read after it. Correct
when: a listener starts one bridge and leaves none; a failed start is reported as such;
the flags are down at the end and otherwise agree with what was announced last.

### 1.3 E2EE device store — `bridge-e2ee/bridge/client.go` 397–1166, `store.go`

State: identities, sessions, pre-keys, uploaded marks, sender keys, `nextPreKeyID`, the
device, and its file. Operations: the mutators (`mutateAndSave`), `Save`, load,
`deletePersistedDevice`; a dispatcher that reports snapshots in `deviceData` mode.

Hard: a write fails half way, the bridge is killed by its own watchdog, power is lost
between a rename and the sync of its directory. Correct when: a pre-key id never names
two keys, what was acknowledged survives, a consumed one-time key does not come back.

### 1.4 Bridge client life cycle — `client.go` 51–395, `events.go` 955–973, `main.go`

State: `disconnected`, `ctx`, `regularConnected`, the E2EE client, `eventChan` (100)
with `eventsClosed`, the dispatcher's one-slot `pending`. Operations: `Connect`,
`ConnectE2EE`, `Disconnect`, `emitEvent` (library callbacks), `pumpEvents`, the stdin
loop. Hard: `Disconnect` waits for locks held by those it cancels; closing the channel
against late emitters; a full channel behind a slow stdout. Correct when: nobody emits on a
closed channel, `Disconnect` ends and leaves no connection up, device snapshots arrive in
order and, while somebody reads, the last one does.

### 1.5 Message de-duplication — `events.go` 29–34, 271–343, 451–521

State: `recentMessages` with time and source, the sweep time, the live cutoff. Hard: one
message comes as an upsert and as an insert, around the edge of a moving window, and its
entry is swept by time. Correct when: an upsert never repeats a message, and is never
history; an insert may upgrade an upsert, and comes again only after the entry's lifetime.

### 1.6 Sample bot — `SimpleBot`, `src/main.py`

State: a bounded event queue, the table of the 4096 last ids, `_last_bot_message`.
Operations: hand-over from the listener's thread to the loop, `_queue_event`,
`_dispatch`, commands, `_shutdown_listener`. Hard: overflow, duplicates and failures
decide together whether a command runs zero, one or two times; answers of the bridge are
lost; the bot is cancelled, or its listener ends, at any await. Correct when: a command
runs once, unsend recalls the last message, the bot ends with its listener.

### 1.7 MQTT listener — `listeningEvent`, `src/_messaging/_listening.py`

State: `syncToken`, `lastSeqID`, `retry_count`, the message queue, the stop and
reconnect flags. Operations: the paho callbacks, the reconnect loop,
`disconnect_blocking`. Hard: sequence ids against overflow retries and links that break; a
stop between two loops, or while paho makes a connection by itself; a full queue with a
concurrent consumer. Correct when: deltas are published in order without a gap, every lost
message is counted, a stop ends the run, an overflow is overcome.

### 1.8 Operations on the account

`_publish_ls_requests` (`_editMessage.py` 145–242, used by `_changeTheme.py`): callbacks
of one MQTT client in a thread of their own against two waits of the caller.
`_createNotes.py`: requests that are sent again when they time out, in a blocking and an
async variant. `loginFacebook` (`_facebookLogin.py`): up to four requests with a code the
server takes once. Hard in all three: the answer is lost after the server has acted.
Correct when: what is reported as done is done, and done once; a session the server has
answered with is not thrown away.

### 1.9 Local state without a lock

`FileSessionStorage`, `load_config` and `create_private_json_file`: owners and a user read,
change and replace one file. The bridge program (`_listening_e2ee.py` 95–433): processes
verify, remove, download and start one file. The standalone sender (`_send_e2ee.py`):
arguments, answer and bridge are attributes that threads share, and nobody watches the
bridge. Correct when: what the user wrote into the file stays there; nothing unverified is
started; a call sends what it was given, and no bridge is lost.

Stateless parts: `_session.py` (but for its place in the start), `_http.py`, `_utils.py`,
the other HTTP functions, `_features/*`, `bridge/messages.go`, `bridge/media.go`,
`scripts/*`. Each call builds a request, makes it and reads the answer.

### 1.10 How they interact

```
SimpleBot --on_message--> E2EEListener --owns--> BridgeRpc ==stdin/stdout==> main.go
    |  queue (loop thread)     | polls `events`      | respawns               | handle()
    '--send/unsend via call()--'                     '--close(), kill         v
                                                              Client --> DeviceStore
                                                              eventChan --> pumpEvents
```

The listener creates a `_BridgeProcess`, runs `connect_client`, starts the watchdog and
then polls the `events` queue that reader and watchdog fill. Calls go from any thread
through the gate to the writer; answers come back through the reader. The subprocess
handles one request at a time and writes events between answers.

## 2. Plan

| order | module | content | state |
|---|---|---|---|
| 1 | `BridgeRpc`, `AtMostOnceRpc`, `BridgeRpc_proofs` | 1.1, its contract, its proofs | done |
| 2 | `E2EEListener` | 1.2 | done |
| 3 | `DeviceStore` | 1.3 in file mode | done |
| 4 | `ClientLifecycle` | 1.4 with the dispatcher of 1.3 | done |
| 5 | `EventDedup` | 1.5 | done |
| 6 | `BotPipeline` | 1.6 behind a listener that repeats events | done |
| 7 | `MqttListener` | 1.7 | done |
| 8 | `LsPublish`, `NoteOps`, `FacebookLogin` | 1.8 | done |
| 9 | `ConfigFile`, `BridgeCache`, `E2EESender` | 1.9 | done |
| 10 | `*_proofs` | the safety of 2–9, the refinement of 1 | done |

Composition: `E2EEListener` sees the bridge only through `events` and `close()`;
`BridgeRpc` shows (`NewsIsCurrent`, `ClosedLeavesNoProcess`, `CallsReturn`) what that
view takes for granted. `ClientLifecycle` is inside the subprocess that `BridgeRpc` leaves
to its environment, and takes from `DeviceStore` only that a mutation in `deviceData`
mode ends by handing a snapshot to the dispatcher. `BotPipeline` sees of the listener that
it starts, repeats events and ends. `MCSmallParts` puts the seven modules of rows 5, 8 and 9,
which share nothing, side by side, one of them at a time, so that one run checks them all.

Every safety property of a run is proved (section 5). Still worth having: abstract
specifications beside the other components, as `AtMostOnceRpc` is beside `BridgeRpc` (a
store that loses nothing it acknowledged, a stream that loses only what it counts), with
the refinements proved.

## 3. Modules

### 3.1 `BridgeRpc`

One step is what happens between two lock acquisitions or two blocking waits.

| part | actions | code |
|---|---|---|
| gate | `GateAdmit`, `GateRefuse` | `call_blocking` |
| call | `Snapshot`, `NoSnapshot`, `Register`, `Enqueue`, `Reject`, `Written`, `NotWritten`, `WriteTimeout`, `CancelWrite`, `TakeResponse`, `ResponseTimeout`, `Drop` | `_call_blocking_impl` |
| writer | `WriterTake`, `WriterFinish`, `WriterSkips`, `WriterFails`, `WriterAbort`, `WriterRefuse`, `WriterStop` | `_write_loop` |
| reader | `ReadResponse`, `PutResponse`, `DropResponse`, `ReadEof`, `ReaderFail`, `ReaderEnds` | `_read_loop`, `_mark_generation_exited` |
| subprocess | `Handle`, `Exit` | outside: answers in any order and late, hangs, exits |
| control | `BootBegin` … `BootEnd`, `WatchTick`, `ProbeBegin` … `ProbeEnd`, `RecoverBegin`, `Assess`, `Kill`, `Retry`, `Spawn`, `SpawnFails`, `CheckSpawned`, `ReplayEnd` | `connect_client`, `_watchdog_loop`, `_probe_health`, `_recover_process`, `_spawn` |
| close | `CloseMark` … `CloseEnd` | `close` |

`gen` is `_generation`, `timedOut` is `_timed_out_generation`, `active` and `pending`
are sets of calls for the counter and the map, `owner` and `probe` the two flags of the
gate. A call is named by itself: `itertools.count` never repeats a request id.

Abstractions: deadlines have no clock, so any wait that has one may end by it at any
time; the three strikes of the probe and `STABLE_UPTIME` are nondeterministic choices;
the replay of `newClient`, `connect`, `connectE2EE` and the polling of `isConnected` is a
script of one or more calls that may fail at each; a killed process is dead when
`wait()` returns (the code waits five seconds and then goes on); the queue of a call
that has returned is garbage and forgotten. Kill, sentinel and the failing of
pending calls in `_terminate_process` are one step.

`AtMostOnceRpc` is the contract, in fifty lines: a call is executed at most once, only
in the epoch it was made in; "replied" implies executed; an epoch ends only when no
call is open. `BridgeRpc` implements it (`AtMostOnce`) with `epoch <- gen`.

### 3.2 `E2EEListener`

`runs`, `stoppers` and `waiters` are threads; a step is one operation on an `Event` or
one section under `_lifecycle_lock`. `Go` through `SetDone` follow
`connect_mqtt_blocking`, `Poll`, `PollGet` and `Apply` follow `_poll_loop`, `StopMark`,
`StopClearConnected`, `StopClearE2EE` and `StopTake` are the four steps of `stop()`,
which every caller (application, failing run, handler) goes through. The bridge is
external: `SocketEvent`, `ProcessExits`, `RecoveryBegins` and `RecoveryEnds` put events,
with nothing assumed about their order but what the lines of the code give.

### 3.3 `DeviceStore`

`ram` is the maps, `prev` the captured state of the mutation in hand, `visible` what a
process reads from the device file, `images` every content the file may have after a loss
of power: those renamed into place since the directory was last synced, and the one of
that sync. A write is three steps, `WriteTemporary`, `Rename` and `Sync`, each of which
may fail; `Failed` rolls memory back as `restoreMutableStateLocked` does and `Done`
acknowledges. `Crash` and `PowerLoss` may come between any two. Key material is the
number of the operation that made it; identities and sender keys behave as sessions do.
Only file mode is modelled; `saveMu` serialises the operations, so there is one at a
time.

### 3.4 `ClientLifecycle`

| part | actions | code |
|---|---|---|
| event stream | `LockStream`, `Send`, `Callback`, `Pump` | `emitEvent`, the libraries' callbacks, `pumpEvents` |
| dispatcher | `Mutate` (through `Enqueue`), `Woken`, `Look`, `CalledBack` | `deviceDataDispatcher` |
| connecting | `Begin`, `Load`, `Prepare`, `Register`, `Dial`, `Check` | `Connect`, `ConnectE2EE` |
| network | `Lost` | outside |
| `Disconnect` | `CancelClient`, `AlreadyDone`, `MarkDisconnected`, `ReadClients`, `StopDispatcher`, `JoinDispatcher`, `HangUpE2EE`, `HangUp`, `AwaitStream`, `CloseStream` | `Disconnect`, `shutdown` |

`cpc`, `dpc`, `epc` and `loop` say where each goroutine is. `eventMu` is `readers` and
`writer`: a waiting writer keeps new readers out, as Go's `RWMutex` does. An event is 0,
or the number of the device snapshot it carries; `pending` is 0 without `hasPending`.
Goroutines call into one `Client` concurrently, which is what its locks and
`store_test.go` 526–601 are for; `main.go` itself handles one request at a time, so the
program shows a part of these behaviours. The libraries are external: a connection fails
or succeeds, may call back while it is made, ends by itself, and ends soon after its
context is cancelled; they do not reconnect a client that was hung up. One callback
emits one event at a time, and nothing stops it from emitting another after the client was
hung up. `Disconnect` of a library may wait for the callbacks in progress (`Quiet`).

### 3.5 `EventDedup`

`Insert` and `Upsert` are a message's way through `handleTable`: the claim under
`recentMessagesMu`, with its sweep, and the event. `Connected` and `Reconnected` open the
window. `Oldest` is the moving cutoff. A table that holds a message in both forms is an
`Insert`; an upsert with a range of its thread, of an unsent message or without its fields
is not claimed and therefore no step. An assumption states what the code's constants give
(2 + 5 ≤ 10 minutes): an accepted upsert is too old to be accepted again before its entry
is swept. Time does not run backwards here; `time.Now().UnixMilli()` may when the clock is
set.

### 3.6 `BotPipeline`

| part | actions | code |
|---|---|---|
| listener task | `ListenerUp`, `ListenerEnds`, `Forward` | `connect_mqtt`, `_forward_listener_event` |
| loop callbacks | `QueueEvent` | `_queue_event` |
| `run` | `Ready`, `NotReady`, `Poll`, `GetTimeout`, `Dispatch` | `run`, `_get_event`, `_dispatch` |
| handlers | `Reply`, `NoBridge`, `Unsend` | `_reply`, `_cmd_*`, `_cmd_unsend` |
| leaving | `Cancel`, `Stop`, `Joined`, `JoinTimeout`, `Abandon`, `CancelCleanup` | the `finally` of `run`, `_shutdown_listener` |

A message is an id, a chat and what the filters of `_dispatch` make of it. `chat` and
`sent` are the E2EE chats outside; a reply or an unsend may be carried out although its
answer is lost. `doubt` marks chats where that happened: there the table may name an older
message, and unsend recalls that one although the help text speaks of the last. Which
exception leaves `run` in the end is not modelled (section 6), only that it ends.

### 3.7 `MqttListener`

`run` is the place in `connect_mqtt_blocking`, `cb` and `payload` the one in `_on_message`;
`top`, `floor` and `pos` are the server's queue. `Deltas` sends a range after `pos`, so
deltas come again, or are skipped, only as the code asks for them. Python facts the model
relies on: `get_last_seq_id_blocking` calls a coroutine function, gets an object
without the keys it needs and restores the previous number (`Refreshed`); `messageQueue` is
taken from other threads between its failed put and the removal of the oldest
(`RemoveOldest` counts even when nothing was removed, so `dropped` may be more than what was
lost).

`link` is paho's connection, outside `src/`: `loop_forever` dials again by itself after a
lost link (`Dial`), which may fail and be tried again (`DialFails`), and the CONNACK
(`LinkUp`) sets paho's state to connected, whatever it was. `quit` is a `disconnect()` that
paho remembers: one made while it dials is heard or forgotten, one made before `connect()`
is forgotten, and `loop_forever` does not look at `_stop_event`. `told` says where a
disconnect found the run: `StopHeard` is about those that find it at the head of the loop,
in the wait between two clients, or in `loop_forever` with a link that is up or down but not
being made; that the rest ends the run too is what the documentation says and
`mqtt_stop` refutes (4.2). A stop before `connect_mqtt_blocking` clears the flag (line 336)
is lost as well.

### 3.8 `LsPublish`, `NoteOps`, `FacebookLogin`

`LsPublish`: `main` is the caller, `OnConnect`, `OnPublish` and `OnDisconnect` the callbacks,
`Apply` the broker, which acts also after the caller has returned. Acknowledgements are
only counted; a restored link publishes all contexts once more, but `on_disconnect` has set
the error by then. `NoteOps`: `Ask` and one action per kind of answer; `NoAnswer` is the retry,
of a request that may have been carried out. The async functions do not look at the
status, which is why `NotesAgree` is about the blocking ones where success is concerned.
`FacebookLogin`: `Success`, `Refusal`, `Unanswered` and `OddAnswer` of the request in `step`;
an answer that is lost looks like a refusal and leads to the next request with a code that
may be used up. An HTTP 200 answer without `error` and without a session (`{}`, or with an
`error_code` at its top, which line 152 looks at only from status 400 on) is returned as a
success with no cookies in it: the login ends "empty". So success does not imply a session,
and `LoginAgrees` does not say so; it says that no session the server has *answered with* is
thrown away or followed by another, so what a login that reports no session leaves behind
was never heard of.

### 3.9 `ConfigFile`, `BridgeCache`, `E2EESender`

`ConfigFile`: an owner reads (`Look`) and replaces (`WriteData`) in separate steps, and the user
edits, removes or half writes the file in between. `kept` is what the user has last written
into it, `readAt` how many edits an owner had seen when it read, and `crossed` says that a
save or clear replaced the file after an edit it had not read. Nothing prevents that, and
the edit is then undone: it is the one exception in `EditSurvives`. The template is no
exception: it is made by a link that fails when the file exists. `BridgeCache`: `Examine`, `Verify`, `Unlink`,
`ExamineAgain`, `Download`, `Install` and `Run` follow `_resolve_binary`; a process may remove
the good file another has just installed (it verified the bad one before), and the other
then fails to start it. `E2EESender`: one action per assignment that another thread can see;
`shared` says that two calls overlapped, after which target, text, reply and answer may be
mixed: the class has no lock. `failed` are the bridges a connect gave up on, which a sender
forgets without closing when it connects again. `BridgeDies` is the end of the process:
this sender starts no watchdog, `_connected` stays and `connect()` answers "already", so
`SenderSound` says whose bridge it is connected on, not that the bridge runs (`died`). The
bridge's own end and recovery are in `BridgeRpc`.

## 4. Runs

| run | bounds | shows |
|---|---|---|
| `rpc_recovery` | 1 external call, 2 control calls, 2 generations, 1 retry, no close | one bridge; news of the current generation; gate, probe and recovery exclude each other; the contract; taints heal and calls return |
| `rpc_close` | 2 external calls, 1 control call, 2 generations, 1 retry, `close()` | generations do not change under calls; no orphan; sentinel last; nothing stranded or left behind; framing |
| `e2ee_listener` | 2 runs, 1 stopper, 1 waiter, 2 events | no orphan, failure reported, flags, `StopEnds` |
| `device_store` | 2 addresses, ids 1–3, 5 operations | ids, acknowledged state, consumed and uploaded keys |
| `client_lifecycle` | 1 `Connect`, 1 `ConnectE2EE`, 2 `Disconnect`, 1 callback goroutine, channel of 1, 1 event, 3 snapshots | nobody sends on the closed stream, nothing stays connected, snapshots in order, `DisconnectEnds`, `LatestDelivered` |
| `bot_pipeline` | 4 events of 5 messages, queue and table of 2 | commands once, none lost uncounted; unsend; the bot ends |
| `mqtt_listener` | 5 deltas, 1 of them no message, queue of 2, 1 retry, 2 faults | order without gaps; losses counted; a stop is heard, but for 4.2 |
| `small_parts` | 3 contexts, 3 links; 2 retries; 3 TOTP steps; 2 messages, 6 instants; 3 owners, 3 operations, 2 edits; 3 processes; 2 threads, 3 calls | what is reported as done is done, once; sessions are not thrown away; a message is reported once; edits of the configuration stay; the program is verified; the sender is sound |
| `listener_ready_after_stop` | 1 stopper, 1 waiter | a disagreement, see 4.2 |
| `device_store_trace` | 1 address, 2 operations | a disagreement, see 4.2 |
| `mqtt_overflow` | 2 deltas, 3 retries, 1 fault | a disagreement, see 4.2 |
| `mqtt_stop` | 2 deltas, 1 retry, 1 fault | a disagreement, see 4.2 |

### 4.1 Bounds

Two generations are the least in which an old reader or writer meets a new process, and
properties are about one generation against its successor. Two external calls reach two
calls in one writer queue, one that times out ahead of another; two control calls let a
start-up, a probe and a replay each fail in the middle, and are the least with which a probe
is made at all, the start-up taking one: `RecoveryExclusive` is therefore checked in
`rpc_recovery`, while `rpc_close` has one, for the recovery that meets `close()`. Control calls are a budget: a recovery
that has none left stops at its replay, which the liveness properties count as the end. One
retry reaches both a second attempt and `bridge_fatal`. For the listener, two runs are needed
for a second start, and two events for a recovery. For the store, five operations
are: create, generate, mark, remove, and one more that fails or overwrites; three ids
leave a gap between two keys. For the client, a channel of one place is full as soon as one
event is in it, so an emitter waits in it, one waits for the lock and the dispatcher
coalesces a third snapshot. For the bot, a queue and a table of two overflow with the third
event, and the fourth repeats one that was forgotten. For MQTT, five deltas over a queue of
two leave one lost, one published and one discarded by the server with a fault between
them. For messages, a lifetime of 3 with a window of 1 and a skew of 2 is the tightest the
assumption allows, and six instants let an entry expire and its message come again. Two
retries, three contexts, three links and three TOTP steps reach every branch with one to
spare; so do three owners and three processes. For the sender, a connect that fails, one that
succeeds, and a call on it are three.
Every property has a mutation of the model, listed
in `PROJECT.json`, which makes the same run fail: the bounds are large enough for the
case to happen.

Deadlock is not checked: a listener that has ended, a closed bridge and a spent budget
of operations are proper ends. That nobody waits for ever is stated as `CallsReturn`,
`TaintHeals`, `StopEnds`, `DisconnectEnds`, `LatestDelivered`, `BotEnds` and `StopHeard`.
The modules of `small_parts` have no liveness of their own: each wait in them has
a deadline.

### 4.2 Where code and documentation part

* **Readiness after `stop()`** (`NoReadyAfterStop`). `stop()` clears `_connected` and
  `_e2ee_connected` outside `_lifecycle_lock`; a run that is already past its check
  under that lock sets them again. Until the polling loop notices, a
  `wait_until_connected` begun after `stop()` returned answers `True`. The test
  `test_e2ee_bridge_lifecycle.py` 1239–1285 states the opposite.
* **A failed mutation that stays** (`FailureLeavesNoTrace`). If the directory cannot be
  synced after the rename, memory is rolled back and the caller told of a failure, but
  the file already holds the mutation. `CHANGELOG.md:44` and the test
  `store_test.go:473` promise a rollback.
* **An overflow is not overcome** (`OverflowHeals`). After `ERROR_QUEUE_OVERFLOW` the
  refresh calls a coroutine function without awaiting it (`_listening.py:190`), the error is
  caught and the old number restored; every retry and every reconnection asks for deltas the
  server has discarded. `.github/RELEASE_NOTES_v2.3.0.md:24` says the refresh no longer calls
  a coroutine as a function; the test of it replaces the refresh by a mock.
* **A disconnect that is forgotten** (`StopEndsRun`). `disconnect_blocking` tells paho once.
  If it comes between `_build_client()` and the end of `connect()`, or while `loop_forever`
  restores a lost link by itself, the CONNACK makes the client connected again; nothing
  else in `loop_forever` looks at `_stop_event`, so the listener goes on after `disconnect()` has
  returned. `DOCS.md:459` and `src/_messaging/README.md:406` say that it stops the client and
  its loop.

Met while modelling, contradicting no line of the repository, so without a run: a login
answered with HTTP 200 and neither error nor session is a success with empty cookies
(3.8); a save or clear undoes an edit of the file it had not read (3.9); a standalone sender
stays connected to a dead bridge (3.9); a failed connect of it leaves its process running
when the next one succeeds (3.9).

### 4.3 Fairness

`BridgeRpc`: threads that can run do (`WF` on each call's own steps and on
the controlling thread), and waits that have a deadline end. The subprocess is not fair: it
may neither answer nor read, for ever, so a write may block until the process is killed.
`E2EEListener`: the threads run on, and the calls they block in return, which is what the
deadlines of the start-up and of `close()` give; the bridge owes no event. Nothing makes
an application start a run or call `stop()`. `ClientLifecycle`: goroutines run on, and a
connector returns once the client is cancelled, because it hands `c.ctx` to every call it
blocks in; before that a connection may take for ever. Nobody need read the stream:
`DisconnectEnds` holds with stdout blocked, `LatestDelivered` assumes that `Pump` is fair. Start of a thread is never fair.
`BotPipeline`: the loop of the bot goes on and the calls it makes are answered or fail;
nothing is assumed of the listener. `MqttListener`: the thread goes on, paho dials while it
was not told to stop, its dialling ends in a CONNACK or fails, which it does `MaxFaults` times
at most, and the server answers. `StopHeard` needs only the first of these;
`OverflowHeals` and `StopEndsRun` get them all, so that their counterexamples are not a network
that is down.

## 5. Proofs

Every safety property of section 4, the action property `FramingIntact` and the refinement
`AtMostOnce` are proved, each for every value of the constants: any set of callers,
threads, messages or processes, any size of a queue or table, any number of retries,
generations or operations. The bounds that the models name (`MaxGen`, `MaxOps`,
`MaxFaults` ...) are constants too, so they limit a run of TLC and not a theorem.

| module | theorem | states |
|---|---|---|
| `BridgeRpc_proofs` | `TypeCorrect` | `TypeOK` |
| | `Exclusion` | `RecoveryExclusive` |
| | `KeepsGeneration` | `CallKeepsGeneration` |
| | `TaintCurrent` | `TaintIsCurrent` |
| | `NoCallAfterTimeout` | `TimedOutRefused` |
| | `SingleBridge` | `OneBridge` |
| | `CleanReturn` | `NothingLeftBehind` |
| | `NoOrphan` | `ClosedLeavesNoProcess` |
| | `NobodyStranded` | `StrandedOnlyWhenGivenUp` |
| | `NothingAfterSentinel` | `SentinelLast` |
| | `NewsNeverStale` | `NewsIsCurrent` |
| | `NothingAfterACut` | `FramingIntact` |
| | `AtMostOnceHolds` | `AtMostOnce`: `BridgeRpc` implements `AtMostOnceRpc` |
| `E2EEListener_proofs` | `ListenerTypes` | `TypeOK` |
| | `NoBridgeLeftBehind` | `NoOrphan` |
| | `FailureIsReported` | `FailureReported` |
| | `FlagsTellTheTruth` | `FlagsSettle` |
| `DeviceStore_proofs` | `IdsAreNeverReused` | `IdNamesOneKey` |
| | `SuccessIsDurable` | `AckedSurvives` |
| | `ConsumedForGood` | `ConsumedStaysGone` |
| | `NoKeyOfferedTwice` | `UploadedNotOffered` |
| `ClientLifecycle_proofs` | `ClientTypes` | `TypeOK` |
| | `NoPanic` | `NoSendOnClosed` |
| | `DisconnectIsFinal` | `NothingUpAfterDisconnect` |
| | `SnapshotsInOrder` | `SnapshotsAdvance` |
| `BotPipeline_proofs` | `CommandsRunOnce` | `EachCommandOnce` |
| | `RecallsTheLast` | `UnsendTakesLast` |
| `MqttListener_proofs` | `NothingSkippedOrRepeated` | `DeltasInOrder` |
| | `LossIsCounted` | `LossCounted` |
| `RemoteOps_proofs` | `PublishedIsApplied` | `PublishedMeansApplied` of `LsPublish` |
| | `NotesAreTold` | `NotesAgree` of `NoteOps` |
| | `LoginIsTold` | `LoginAgrees` of `FacebookLogin` |
| | `MessagesOnce` | `MessageOnce` of `EventDedup` |
| `LocalTools_proofs` | `EditIsKept` | `EditSurvives` of `ConfigFile` |
| | `VerifiedBridge` | `RunsVerifiedBridge` of `BridgeCache` |
| | `SenderIsSound` | `SenderSound` of `E2EESender` |

Assumptions. Only those that the modules name, next to their constants, and TLC evaluates
in the runs: the sets of threads and calls that the code keeps apart are disjoint, a
sentinel or "nobody" is not a member of them, sizes and bounds are natural numbers, a
queue holds at least one element.

### 5.1 `BridgeRpc`

None of the properties is inductive alone. A generation does not change under a call
because a respawn happens only under the recovery transaction, which the
controlling thread opens when no call is counted; so one has to know which calls are
counted. The first invariant, `IInv`, therefore places everybody: `CallPlaces` (an
application's call is counted from the gate to its return, a control call in progress is
the one in hand), `CtlPlaces` (transaction and probe follow the place of the controlling
thread), `LiveIsCurrent` (only the current process can be alive, and it is dead when the
next is spawned), `EntryPlaces` (an entry of `_pending` belongs to a call in flight, and is
gone before the call is answered, which is what a reader relies on between taking an entry
and putting its response), `CloserPlaces` (nothing is spawned once close has taken the
process), `TimeoutPlaces` (what a call remembers of its generation).

`Ends`, on top of it, says how a generation ends. A writer that has ended, or the sentinel
in its queue, is a sign that the generation is given up (`EndPlaces`: it is tainted, the
object is closing, or the watchdog terminated it with no call in flight, and none will
get a snapshot of it any more). So a request that is stranded is in one of the first two.
A generation to come has no thread and no request (`NotYet`), so a late
sentinel of an old reader never lands in a new queue; a cut line has no writer any more
(`CutPlaces`); the news is not "down" while the reader of the current generation has not
ended, from start-up to the next recovery (`NewsPlaces`).

`Requests` says where a request is: in one place of one generation, once, until it is
executed (`OnePlace`), and that an answer on its way is of an executed request
(`Answered`). With it every step maps to a step of `AtMostOnceRpc` or to a stutter:
`Snapshot` opens, `Handle` executes, `TakeResponse` replies or fails, `Reject` and `Drop`
fail, `Spawn` is the next epoch, for which the transaction guarantees that no call is open;
the steps of writers, readers, the rest of the controlling thread and `close()` are not
seen.

### 5.2 The other modules

- `E2EEListener`: four invariants. `OwnerInv`: one run at a time, and an open bridge is
  referred to by the listener, by its run, or by a thread in `stop()`, never by nobody.
  `FlagInv`: what the flags are at each place of the loop while nobody stops it.
  `QueueInv`: the *last* announcement, queued, in hand or applied, is true of the
  transport (earlier ones may be stale); a fatal error is still ahead of a run in
  the loop. `WaitInv`: a failed startup has set its error before the event a waiter sees.
- `DeviceStore`: `StoreInv` says what any image of the file may contain (`Fits`): each
  pre-key is below the next id, none that was consumed is there, a marked one is known as
  uploaded, and one that was handed out has its id to itself. Memory, the state to which a failed
  save goes back, and every image a crash may leave satisfy it, which is why the properties survive
  a crash between any two steps of a save. The predicate is stated over constant
  parameters, so that each operation is one lemma about a record.
- `ClientLifecycle`: `LifecycleInv` (one closer; once it has had `connectMu` nobody connects
  any more; only the current E2EE client is ever up), `StreamInv` (nobody inside a closed
  stream), `SnapshotInv` (each stage of a snapshot's way is older than the next;
  `OnTheWay`, the concatenation, follows).
- `BotPipeline`: the table holds exactly the last ids that were run (`Latest`), so an id
  in it is refused and one outside it is `Window` commands old.
- `MqttListener`: `Level`, up to where the deltas were handled, is `lastSeq` outside a
  payload and what is left of the payload inside; the server goes on from there
  (`Continues`). Published, taken and queued messages are ordered below it (`Buffers`).
- `RemoteOps_proofs`, `LocalTools_proofs`: an invariant for each module, of what server or file
  holds at each place of the operation. That a counted acknowledgement per context means
  every context was taken (`LsPublish`) rests on the cardinality theorems of the library.
  `EditIsKept` needs what an owner has in hand: data read after the last edit holds that edit.
  `SenderIsSound` needs, at each place of a call, whose arguments are in the fields and
  that the bridge in hand is alive, has died, or was failed on.

Frame lemmas (`Untouched`, `EndsQuiet`, `NewsQuiet`, `OnePlaceFrame`, `AnsweredFrame` ...) say
once which steps leave a part of an invariant alone; the step lemmas go through the actions
of one thread. The inductive invariants of `BridgeRpc`, `DeviceStore` and `MqttListener`
were also checked by TLC on the instances of section 4.

### 5.3 Model-checked only

Liveness: `TaintHeals`, `CallsReturn`, `StopEnds`, `DisconnectEnds`, `LatestDelivered`,
`BotEnds`, `StopHeard`. They rest on fairness and so on `ENABLED`, which the prover does not
support. The findings of 4.2 are counterexamples. Induction over data is out of reach as
well, since the library's induction theorems take an operator as parameter, which the
installed back ends cannot instantiate; no theorem needed it, and there is no `RECURSIVE`
operator.

## 6. Not modelled

The stateless parts of 1.9: the HTTP functions without retries (`_send.py`,
`_attachments.py`, `_reactions.py`, `_unsend.py`, `_message_requests.py`), `_features/*`,
`_bridge_actions.py`, which forwards to `call_blocking`, `messages.go` and `media.go`, and
the scripts: what they compute is parsing and wording, which the abstraction leaves
nothing of. `EnvSessionStorage` is one assignment in its own process. The de-duplication of
reactions taken back (`recentUnreactions`) reads and writes its table under two separate
locks and depends on half a second of real time. Of permissions and file modes nothing. Of
the modelled parts: wording, logging and JSON layout; sizes (the 150 MiB limit is a
rejection like a request that cannot be serialised); the memory-only
mode of the store; `regularConnected`, which follows the order of library events, and the
caches of the bridge client; the snapshot still pending when a client is disconnected, which is
dropped (`LatestDelivered` ends with the client); which exception leaves the bot's `run`
(`main.py:190` says that a clean-up does not replace the original error; a listener that raises
just as the wait of five seconds for it ends does, at 178–180); a `disconnected` event without `isE2EE`
(`_listening_e2ee.py` 1513–1515), which `events.go` never emits; an MQTT creation answer that
names a number ahead of the deltas sent (`_listening.py:259` prefers `lastIssuedSeqId`: that
nothing is skipped then is left to the server); the moments of a publication that fails for
some of its contexts (`_editMessage.py` 172–180), which are one step; of `BridgeCache`, an error
while a good file is verified and a directory sync that fails after the replacement, both of
which end a start with no file run; the window in `FlagsSettle` that `_BRIDGE_STATE_EVENT` leaves open when
E2EE is lost during a replay, which the next unhealthy probe closes.

## 7. Running

```
tlc -config MCBridgeRpc.cfg MCBridgeRpc
tlc -config MCBridgeRpcClose.cfg MCBridgeRpc
tlc -config MCE2EEListener.cfg MCE2EEListener
tlc -config MCDeviceStore.cfg MCDeviceStore
tlc -config MCClientLifecycle.cfg MCClientLifecycle
tlc -config MCBotPipeline.cfg MCBotPipeline
tlc -config MCMqttListener.cfg MCMqttListener
tlc -config MCSmallParts.cfg MCSmallParts
for m in *_proofs.tla; do tlapm $m; done
```

The four runs of 4.2 are `MCE2EEListenerLate.cfg`, `MCDeviceStoreTrace.cfg`,
`MCMqttListenerOverflow.cfg` and `MCMqttListenerStop.cfg`, with the module of the same prefix.
Each run takes between seconds and two minutes; the proofs together about six minutes, half
of them for `BridgeRpc_proofs`.
