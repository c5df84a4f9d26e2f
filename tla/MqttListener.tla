---------------------------- MODULE MqttListener ----------------------------
(***************************************************************************)
(* The MQTT listener: listeningEvent of src/_messaging/_listening.py.      *)
(*                                                                         *)
(* One thread runs connect_mqtt_blocking, and in it the callbacks of paho; *)
(* others take messages from the queue and call disconnect_blocking.  The  *)
(* server numbers its deltas and keeps the latest; the client asks for     *)
(* those after the last it has, over a link that paho restores by itself,  *)
(* and starts again from a fresh number when the server no longer has them.*)
(*                                                                         *)
(* A delta is its number, a payload the deltas it carries, the number it   *)
(* names, whether it answers the creation of a queue, and its error.       *)
(***************************************************************************)
EXTENDS Integers, Sequences, FiniteSets, SequencesExt

CONSTANTS Others,     \* deltas that are not messages: _body_from_delta
          Cap,        \* messageQueueMaxSize
          MaxRetries, \* max_retries
          MaxTop,     \* bound: deltas
          MaxFaults   \* bound: broken links, and errors other than an overflow

ASSUME MqttAssumption == Cap \in Nat \ {0} /\ MaxRetries \in Nat /\ {MaxTop, MaxFaults} \subseteq Nat

None == -1

VARIABLES
  run,     \* where connect_mqtt_blocking is
  link,    \* the connection of the client: "down", "dialing" (from the start of
           \* connect or of paho's reconnect to its CONNACK), or "up"
  quit,    \* client.disconnect() was called, and is not forgotten by the client
  stop,    \* _stop_event
  again,   \* _reconnect_requested
  told,    \* disconnect_blocking: "no", or where the run was when it was called
  lastSeq, token, retry,  \* lastSeqID, syncToken, retry_count
  asked,   \* the number last asked for, if it is not answered yet
  cb,      \* _on_message: "idle", or its place in publishing a payload
  payload, \* what is left of it
  queue, dropped,         \* messageQueue, droppedMessages
  top, floor, pos, faults,\* the server: its last delta, the last it discarded,
                          \* the last it sent to this client
  published, got, lost    \* history: published, taken, and removed messages

thread  == <<run, quit, again>>
ids     == <<lastSeq, token, retry>>
buffer  == <<queue, dropped, published, got, lost>>
control == <<stop, told>>
server  == <<top, floor, pos, faults>>
vars    == <<thread, link, control, ids, asked, cb, payload, buffer, server>>

NoPayload == [deltas |-> <<>>, created |-> FALSE, id |-> None, error |-> "none"]

\* __init__
Init ==
  /\ run = "new" /\ quit = FALSE /\ again = FALSE /\ link = "down"
  /\ stop = FALSE /\ told = "no"
  /\ lastSeq = None /\ token = FALSE /\ retry = 0
  /\ asked = None /\ cb = "idle" /\ payload = NoPayload
  /\ queue = <<>> /\ dropped = 0 /\ published = <<>> /\ got = <<>> /\ lost = {}
  /\ top = 0 /\ floor = 0 /\ pos = None /\ faults = 0

----------------------------------------------------------------------------
(* Sequence ids                                                             *)

\* get_last_seq_id, which the application awaits before it listens
GetLastSeqId ==
  /\ run = "new" /\ lastSeq = None /\ lastSeq' = top
  /\ UNCHANGED <<thread, link, control, token, retry, asked, cb, payload, buffer, server>>

\* get_last_seq_id_blocking calls the coroutine function without awaiting it:
\* what it gets has no last_seq_id, and the previous number is restored
Refreshed == lastSeq

\* mutant: the number is taken only with the answer to a creation
SetOnCreation(id) == IF payload.created /\ id >= lastSeq THEN id ELSE lastSeq

\* _set_last_seq_id without allow_reset: never back
SetLastSeq(id) == IF id >= lastSeq THEN id ELSE lastSeq

\* _publish_pending_queue: a new queue without a token, else the diffs; without
\* a number the client disconnects
PublishPending(seq, before) ==
  /\ asked' = seq
  /\ quit' = (before \/ seq = None)

----------------------------------------------------------------------------
(* connect_mqtt_blocking                                                    *)

Start ==
  /\ run = "new" /\ run' = "going" /\ stop' = FALSE
  /\ UNCHANGED <<quit, again, link, told, ids, asked, cb, payload, buffer, server>>

\* The head of the loop: a new client
Build ==
  /\ run = "going"
  /\ \/ stop /\ run' = "ended" /\ UNCHANGED <<quit, again>>
     \/ ~stop /\ run' = "built" /\ quit' = FALSE /\ again' = FALSE
  /\ UNCHANGED <<link, control, ids, asked, cb, payload, buffer, server>>

\* client.connect: the client dials, or the exception ends the run
Connect ==
  /\ run = "built"
  /\ \/ run' = "looping" /\ link' = "dialing"
     \/ run' = "ended" /\ link' = link
  /\ UNCHANGED <<quit, again, control, ids, asked, cb, payload, buffer, server>>

\* loop_forever makes the connection again, unless it was told to disconnect
Dial ==
  /\ run = "looping" /\ link = "down" /\ ~quit /\ link' = "dialing"
  /\ UNCHANGED <<thread, control, ids, asked, cb, payload, buffer, server>>

\* No connection, or one that is refused; paho waits and dials again
DialFails ==
  /\ run = "looping" /\ link = "dialing" /\ faults < MaxFaults
  /\ link' = "down" /\ faults' = faults + 1
  /\ UNCHANGED <<thread, control, ids, asked, cb, payload, buffer, top, floor, pos>>

\* _on_connect, for the first connection and for those paho makes again: with the
\* CONNACK the client is connected, and forgets a disconnect() made meanwhile
LinkUp ==
  /\ run = "looping" /\ link = "dialing"
  /\ link' = "up" /\ pos' = None
  /\ PublishPending(IF token THEN lastSeq ELSE Refreshed, FALSE)
  /\ UNCHANGED <<run, again, control, ids, cb, payload, buffer, top, floor, faults>>

LinkLost ==
  /\ run = "looping" /\ link = "up" /\ cb = "idle" /\ faults < MaxFaults
  /\ link' = "down" /\ asked' = None /\ pos' = None /\ faults' = faults + 1
  /\ UNCHANGED <<thread, control, ids, cb, payload, buffer, top, floor>>

\* loop_forever returns after a disconnect it has not forgotten, and the loop
\* ends or goes on
LoopEnds ==
  /\ run = "looping" /\ quit /\ cb = "idle"
  /\ run' = IF again /\ ~stop THEN "waiting" ELSE "ended"
  /\ link' = "down" /\ asked' = None /\ pos' = None
  /\ UNCHANGED <<quit, again, control, ids, cb, payload, buffer, top, floor, faults>>

\* _RECONNECT_DELAY_SECONDS pass, or the stop event ends the wait
Waited ==
  /\ run = "waiting" /\ run' = "going"
  /\ UNCHANGED <<quit, again, link, control, ids, asked, cb, payload, buffer, server>>

\* mutant: the flag alone
FlagOnly == quit' = quit

\* self.mqtt.disconnect(): a client that is yet to connect loses it, and one that
\* dials may hear it or not
DisconnectClient == quit' = (quit \/ run = "looping")

\* disconnect_blocking, from another thread; Start clears the flag
Disconnect ==
  /\ told = "no" /\ stop' = TRUE /\ DisconnectClient
  /\ told' = IF link = "dialing" THEN "dialing" ELSE run
  /\ UNCHANGED <<run, again, link, ids, asked, cb, payload, buffer, server>>

----------------------------------------------------------------------------
(* The server                                                               *)

Issue ==
  /\ top < MaxTop /\ top' = top + 1
  /\ UNCHANGED <<thread, link, control, ids, asked, cb, payload, buffer, floor, pos, faults>>

\* The server forgets what a client that is away has not fetched
Expire ==
  /\ link # "up" /\ floor < top /\ floor' = top
  /\ UNCHANGED <<thread, link, control, ids, asked, cb, payload, buffer, top, pos, faults>>

Reachable == run = "looping" /\ link = "up" /\ cb = "idle" /\ ~quit

\* The answer to a request: an overflow, a new queue, or the diffs to come
Answer ==
  /\ Reachable /\ asked # None /\ asked' = None
  /\ payload' = [NoPayload EXCEPT !.created = ~token /\ asked >= floor, !.id = asked,
                                  !.error = IF asked < floor THEN "overflow" ELSE "none"]
  /\ cb' = "put" /\ pos' = IF asked < floor THEN None ELSE asked
  /\ UNCHANGED <<thread, link, control, ids, buffer, top, floor, faults>>

Deltas ==
  /\ Reachable /\ asked = None /\ pos # None
  /\ \E last \in (pos + 1)..top :
       /\ payload' = [NoPayload EXCEPT !.deltas = [i \in 1..(last - pos) |-> pos + i], !.id = last]
       /\ pos' = last
  /\ cb' = "put"
  /\ UNCHANGED <<thread, link, control, ids, asked, buffer, top, floor, faults>>

OtherError ==
  /\ Reachable /\ faults < MaxFaults /\ faults' = faults + 1
  /\ payload' = [NoPayload EXCEPT !.error = "other"] /\ cb' = "put"
  /\ UNCHANGED <<thread, link, control, ids, asked, buffer, top, floor, pos>>

----------------------------------------------------------------------------
(* _on_message: the deltas, then the number, then the error                 *)

NextDelta == payload' = [payload EXCEPT !.deltas = Tail(@)] /\ cb' = "put"

Publish(m) == queue' = Append(queue, m) /\ published' = Append(published, m)

\* _publish_body_results: put_nowait, or Full
Put ==
  /\ cb = "put" /\ payload.deltas # <<>>
  /\ LET m == Head(payload.deltas)
     IN  \/ m \in Others /\ NextDelta /\ UNCHANGED <<queue, published>>
         \/ m \notin Others /\ Len(queue) < Cap /\ NextDelta /\ Publish(m)
         \/ m \notin Others /\ Len(queue) = Cap /\ cb' = "full"
            /\ UNCHANGED <<payload, queue, published>>
  /\ UNCHANGED <<thread, link, control, ids, asked, dropped, got, lost, server>>

\* mutant: what is removed is counted only if it was still full
CountIfFull == dropped' = IF Len(queue) = Cap THEN dropped + 1 ELSE dropped

CountDropped == dropped' = dropped + 1

\* The oldest is removed, if a consumer did not take them all; it is counted
RemoveOldest ==
  /\ cb = "full" /\ cb' = "again" /\ CountDropped
  /\ IF queue = <<>> THEN UNCHANGED <<queue, lost>>
     ELSE queue' = Tail(queue) /\ lost' = lost \cup {Head(queue)}
  /\ UNCHANGED <<thread, link, control, ids, asked, payload, published, got, server>>

PutAgain ==
  /\ cb = "again" /\ NextDelta /\ Publish(Head(payload.deltas))
  /\ UNCHANGED <<thread, link, control, ids, asked, dropped, got, lost, server>>

\* The number the payload names; an answer to a creation carries the token
Numbers ==
  /\ lastSeq' = IF payload.id # None /\ payload.error = "none" THEN SetLastSeq(payload.id) ELSE lastSeq
  /\ IF payload.created THEN token' = TRUE /\ retry' = 0 ELSE UNCHANGED <<token, retry>>

Finish ==
  /\ cb = "put" /\ payload.deltas = <<>> /\ cb' = "idle" /\ payload' = NoPayload
  /\ \/ payload.error = "none" /\ Numbers /\ UNCHANGED <<quit, again, asked>>
     \/ /\ payload.error = "overflow" /\ retry < MaxRetries
        /\ retry' = retry + 1 /\ token' = FALSE /\ lastSeq' = Refreshed
        /\ PublishPending(Refreshed, quit) /\ again' = again
     \/ /\ payload.error = "other" \/ (payload.error = "overflow" /\ retry >= MaxRetries)
        /\ retry' = 0 /\ again' = TRUE /\ quit' = TRUE
        /\ UNCHANGED <<lastSeq, token, asked>>
  /\ UNCHANGED <<run, link, control, buffer, server>>

\* get_message
Take ==
  /\ queue # <<>> /\ queue' = Tail(queue) /\ got' = Append(got, Head(queue))
  /\ UNCHANGED <<thread, link, control, ids, asked, cb, payload, dropped, published, lost, server>>

Next ==
  \/ GetLastSeqId \/ Start \/ Build \/ Connect \/ Dial \/ DialFails \/ LinkUp \/ LinkLost \/ LoopEnds \/ Waited
  \/ Disconnect \/ Issue \/ Expire \/ Answer \/ Deltas \/ OtherError
  \/ Put \/ RemoveOldest \/ PutAgain \/ Finish \/ Take

Spec == Init /\ [][Next]_vars

\* The thread goes on, the link comes back and the server answers
Fairness ==
  /\ WF_vars(Build) /\ WF_vars(Connect) /\ WF_vars(LoopEnds) /\ WF_vars(Waited)
  /\ WF_vars(Put \/ RemoveOldest \/ PutAgain \/ Finish)
  /\ WF_vars(Dial) /\ WF_vars(LinkUp) /\ WF_vars(Answer)

FairSpec == Spec /\ Fairness

----------------------------------------------------------------------------
(* Properties *)

\* Over every reconnection the messages are published in order, none twice and
\* none left out between the first and the last.
DeltasInOrder ==
  \A i \in 1..(Len(published) - 1) :
    /\ published[i] < published[i + 1]
    /\ (published[i] + 1)..(published[i + 1] - 1) \subseteq Others

\* What a consumer misses is counted, although it takes from the queue while the
\* listener makes room; what it gets is in order, and nothing gets lost that is
\* not the oldest.
LossCounted ==
  /\ Cardinality(lost) <= dropped
  /\ \A i, j \in 1..Len(got) : i < j => got[i] < got[j]
  /\ \A m \in Range(published) : m \in Range(got) \cup lost \cup Range(queue)

\* A disconnect() ends the run when it finds it at the head of its loop, in the
\* wait between two clients, or in loop_forever with a link that is up or waits
\* to be restored, even if the link breaks, or an answer comes, before the client
\* has noticed.
StopHeard == told \in {"going", "waiting", "looping"} ~> run = "ended"

\* "disconnect() stops the client and the worker loop", wherever it finds the run.
StopEndsRun == told \in {"going", "built", "dialing", "waiting", "looping"} ~> run = "ended"

\* "The listener refreshes its sequence id on an overflow": once the server has
\* discarded what the listener lacks, it starts again from what there is.
OverflowHeals == (run = "looping" /\ lastSeq # None /\ lastSeq < floor) ~>
                 (lastSeq >= floor \/ run = "ended")

==============================================================================
