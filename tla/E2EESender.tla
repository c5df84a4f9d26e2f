------------------------------ MODULE E2EESender ------------------------------
(***************************************************************************)
(* The E2EE sender with a bridge of its own: api of                        *)
(* src/_messaging/_send_e2ee.py.                                           *)
(*                                                                         *)
(* The sender is blocking and is called from threads (asyncio.to_thread).  *)
(* A call keeps its arguments in the sender, reads them back to make the   *)
(* request, and keeps its answer there too; connect stores the bridge      *)
(* first and connects it afterwards.  The bridge itself is BridgeRpc.      *)
(***************************************************************************)
EXTENDS Integers

CONSTANTS Threads,
          MaxCalls  \* bound: calls of connect, send and close

ASSUME SenderAssumption == MaxCalls \in Nat

VARIABLES
  tpc, call,            \* where a thread is, in which call
  chat, content, reply, \* chat_jid, content and replyTo...: whose they are, 0 for none
  results,              \* whose answer is kept
  bridge, isConnected,  \* _bridge (0 for None) and _connected
  calls, spawned, live, \* calls made, bridges started and still alive
  replies,              \* the calls that reply to a message
  delivered, answered,  \* what reached a chat for a call, whose answer it returned
  failed, died,         \* bridges a connect failed on, and that ended by themselves
  shared                \* a call was made while another was under way

fields == <<chat, content, reply>>
process == <<bridge, isConnected, spawned, live>>
senderVars == <<tpc, call, fields, results, process, calls, replies, delivered, answered, failed, died, shared>>

Calls == 1..MaxCalls

SenderInit ==
  /\ tpc = [t \in Threads |-> "free"] /\ call = [t \in Threads |-> 0]
  /\ chat = 0 /\ content = 0 /\ reply = 0 /\ results = 0
  /\ bridge = 0 /\ isConnected = FALSE /\ calls = 0 /\ spawned = 0 /\ live = {}
  /\ replies = {} /\ delivered = [n \in Calls |-> <<>>] /\ answered = [n \in Calls |-> 0]
  /\ failed = {} /\ died = {} /\ shared = FALSE

Goes(t, pc) == tpc' = [tpc EXCEPT ![t] = pc]

Begins(t) ==
  /\ tpc[t] = "free" /\ calls < MaxCalls /\ calls' = calls + 1
  /\ \E op \in {"connect", "keep", "close"} : Goes(t, op)
  /\ \E r \in {replies, replies \cup {calls + 1}} : replies' = r
  /\ call' = [call EXCEPT ![t] = calls + 1]
  /\ shared' = (shared \/ \E u \in Threads : tpc[u] # "free")
  /\ UNCHANGED <<fields, results, process, delivered, answered, failed, died>>

----------------------------------------------------------------------------
(* connect                                                                  *)

\* Nothing to do if it is connected; no bridge program to be found; or a
\* process is started and kept, over one a failed connect may have left
Spawn(t) ==
  /\ tpc[t] = "connect"
  /\ \/ isConnected /\ Goes(t, "free") /\ UNCHANGED process
     \/ ~isConnected /\ Goes(t, "free") /\ UNCHANGED process
     \/ /\ ~isConnected /\ Goes(t, "handshake")
        /\ spawned' = spawned + 1 /\ bridge' = spawned + 1 /\ live' = live \cup {spawned + 1}
        /\ UNCHANGED isConnected
  /\ UNCHANGED <<call, fields, results, calls, replies, delivered, answered, failed, died, shared>>

\* A cookie is missing: the bridge is closed again
Misses(t) ==
  /\ tpc[t] = "handshake" /\ Goes(t, "free")
  /\ live' = live \ {bridge} /\ bridge' = 0
  /\ UNCHANGED <<call, fields, results, isConnected, spawned, calls, replies, delivered, answered, failed, died, shared>>

\* newClient, connect and connectE2EE, each on the bridge kept at the time
Handshake(t) ==
  /\ tpc[t] \in {"handshake", "joining"}
  /\ \/ /\ bridge \in live /\ isConnected' = (isConnected \/ tpc[t] = "joining")
        /\ Goes(t, IF tpc[t] = "joining" THEN "free" ELSE "joining")
        /\ UNCHANGED failed
     \/ Goes(t, "free") /\ failed' = failed \cup {bridge} /\ UNCHANGED isConnected
  /\ UNCHANGED <<call, fields, results, bridge, spawned, live, calls, replies, delivered, answered, died, shared>>

----------------------------------------------------------------------------
(* send, send_to_user and reply                                             *)

\* A chat that is not a JID is refused; else the arguments are kept
Keep(t) ==
  /\ tpc[t] = "keep"
  /\ \/ chat' = call[t] /\ content' = call[t] /\ Goes(t, "keepReply") /\ UNCHANGED results
     \/ results' = call[t] /\ Goes(t, "return") /\ UNCHANGED <<chat, content>>
  /\ UNCHANGED <<call, reply, process, calls, replies, delivered, answered, failed, died, shared>>

\* mutant: only a reply sets the message replied to
ReplyStays(t) == IF call[t] \in replies THEN call[t] ELSE reply

\* The message replied to: none when the call names none
ReplyOf(t) == IF call[t] \in replies THEN call[t] ELSE 0

KeepReply(t) ==
  /\ tpc[t] = "keepReply" /\ reply' = ReplyOf(t) /\ Goes(t, "request")
  /\ UNCHANGED <<call, chat, content, results, process, calls, replies, delivered, answered, failed, died, shared>>

\* The request is made of what is kept now; a bridge that is gone, or an error,
\* may come after the message was sent
Request(t) ==
  /\ tpc[t] = "request" /\ Goes(t, "answer")
  /\ \/ bridge \in live /\ delivered' = [delivered EXCEPT ![call[t]] = <<chat, content, reply>>]
     \/ UNCHANGED delivered
  /\ UNCHANGED <<call, fields, results, process, calls, replies, answered, failed, died, shared>>

Answer(t) ==
  /\ tpc[t] = "answer" /\ results' = call[t] /\ Goes(t, "return")
  /\ UNCHANGED <<call, fields, process, calls, replies, delivered, answered, failed, died, shared>>

\* return self.results
Returns(t) ==
  /\ tpc[t] = "return" /\ answered' = [answered EXCEPT ![call[t]] = results] /\ Goes(t, "free")
  /\ UNCHANGED <<call, fields, results, process, calls, replies, delivered, failed, died, shared>>

----------------------------------------------------------------------------

\* close, and the end of a with block
Close(t) ==
  /\ tpc[t] = "close"
  /\ live' = live \ {bridge} /\ Goes(t, IF bridge = 0 THEN "free" ELSE "forget")
  /\ UNCHANGED <<call, fields, results, bridge, isConnected, spawned, calls, replies, delivered, answered, failed, died, shared>>

Forget(t) ==
  /\ tpc[t] = "forget" /\ bridge' = 0 /\ isConnected' = FALSE /\ Goes(t, "free")
  /\ UNCHANGED <<call, fields, results, spawned, live, calls, replies, delivered, answered, failed, died, shared>>

\* The bridge process ends by itself.  A sender of its own starts no watchdog:
\* nobody is told, _connected stays, and the next connect has nothing to do
BridgeDies ==
  \E b \in live :
    /\ live' = live \ {b} /\ died' = died \cup {b}
    /\ UNCHANGED <<tpc, call, fields, results, bridge, isConnected, spawned, calls, replies, delivered, answered, failed, shared>>

SenderNext ==
  \/ BridgeDies
  \/ \E t \in Threads :
    \/ Begins(t) \/ Spawn(t) \/ Misses(t) \/ Handshake(t)
    \/ Keep(t) \/ KeepReply(t) \/ Request(t) \/ Answer(t) \/ Returns(t)
    \/ Close(t) \/ Forget(t)

SenderSpec == SenderInit /\ [][SenderNext]_senderVars

\* A sender used by one thread at a time sends each message to its own chat
\* with its own text and reply, and returns its own answer, whatever the calls
\* before left in it; it loses only a bridge that a connect had failed on, and
\* between calls it takes itself for connected only on the bridge of its last
\* connect, which succeeded, and which it has not closed (it may have died since).
\* (Two calls at a time may mix all of these: no lock keeps them apart.)
SenderSound ==
  ~shared =>
    /\ \A n \in Calls :
         /\ delivered[n] # <<>> => delivered[n] = <<n, n, IF n \in replies THEN n ELSE 0>>
         /\ answered[n] \in {0, n}
    /\ live \subseteq failed \cup {bridge}
    /\ isConnected /\ (\A t \in Threads : tpc[t] = "free") => bridge \in (live \cup died) \ failed

==============================================================================
