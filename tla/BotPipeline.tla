----------------------------- MODULE BotPipeline -----------------------------
(***************************************************************************)
(* The sample bot: SimpleBot of src/main.py.                               *)
(*                                                                         *)
(* The listener runs in a task of its own and hands each event over to the *)
(* event loop of the bot, which keeps the newest ones in a bounded queue,  *)
(* runs each command once by a bounded table of the ids it has seen, and   *)
(* remembers its last message of every E2EE chat so that it can recall it. *)
(* What is hard is an event that comes again, an answer that is lost, and  *)
(* what ends the bot: the listener may end, and the bot be cancelled, at   *)
(* every await.                                                            *)
(*                                                                         *)
(* A message is its id, its chat, and what dispatch makes of it: a command *)
(* that replies (or unsend, when its sender is not an admin), the command  *)
(* unsend, or nothing (no text yet, no prefix, unknown, the bot's own).    *)
(***************************************************************************)
EXTENDS Integers, Sequences, SequencesExt

CONSTANTS Messages,   \* [id, chat, does]: the messages of the chats
          Chats,      \* the E2EE chats; a message of a plain thread has another
          Cap,        \* EVENT_QUEUE_MAXSIZE
          Window,     \* RECENT_MESSAGE_IDS_MAXSIZE
          MaxEvents   \* bound: events, repeats included

ASSUME BotAssumption ==
  /\ Cap \in Nat \ {0} /\ Window \in Nat \ {0} /\ MaxEvents \in Nat
  /\ \A m \in Messages : m.does \in {"reply", "unsend", "nothing"}

VARIABLES
  task,      \* listener_task: "starting", "up", "returned", "raised", "cancelled"
  bot,       \* where run() is
  inbox,     \* callbacks of call_soon_threadsafe the loop has yet to run
  queue,     \* _event_queue
  recent,    \* _recent_message_ids
  dropped,   \* _dropped_message_events
  cur,       \* the message in hand
  lastBot,   \* _last_bot_message: a number of a message, 0 for none
  chat,      \* the bot's messages that are in each chat
  sent,      \* the number of messages it made
  \* history: events put and taken, the ids of the commands among them, the ids
  \* run, chats where an answer was lost
  arrived, taken, wanted, ran, doubt

pipe    == <<inbox, queue, dropped, arrived>>
talk    == <<lastBot, chat, sent, doubt>>
seen    == <<recent, ran, taken, wanted, cur>>
vars    == <<task, bot, pipe, talk, seen>>

Ended == task \in {"returned", "raised", "cancelled"}

\* An event: a message, and its number in the order of the queue, from 1
NoMessage == [id |-> "none", chat |-> "none", does |-> "nothing"]

\* __init__ and the start of run()
Init ==
  /\ task = "starting" /\ bot = "waiting" /\ inbox = <<>> /\ queue = <<>>
  /\ recent = <<>> /\ dropped = 0 /\ cur = NoMessage
  /\ lastBot = [c \in Chats |-> 0] /\ chat = [c \in Chats |-> {}] /\ sent = 0
  /\ arrived = 0 /\ taken = 0 /\ wanted = {} /\ ran = <<>> /\ doubt = {}

----------------------------------------------------------------------------
(* The listener task, and events on their way to the queue                  *)

ListenerUp == task = "starting" /\ task' = "up" /\ UNCHANGED <<bot, pipe, talk, seen>>

ListenerEnds ==
  /\ ~Ended /\ task' \in {"returned", "raised"}
  /\ UNCHANGED <<bot, pipe, talk, seen>>

\* _forward_listener_event, in the thread of the listener; after stop() it may
\* still be going, and a closed loop takes no callback
Forward ==
  /\ task # "starting" /\ bot # "ended" /\ arrived + Len(inbox) < MaxEvents
  /\ \E m \in Messages : inbox' = Append(inbox, m)
  /\ UNCHANGED <<task, bot, queue, dropped, arrived, talk, seen>>

\* put_nowait; on a full queue the oldest event makes room
Put(e) ==
  IF Len(queue) < Cap THEN queue' = Append(queue, e) /\ dropped' = dropped
                      ELSE queue' = Append(Tail(queue), e) /\ dropped' = dropped + 1

QueueEvent ==
  /\ inbox # <<>> /\ bot # "ended"
  /\ arrived' = arrived + 1 /\ inbox' = Tail(inbox)
  /\ Put([n |-> arrived + 1, m |-> Head(inbox)])
  /\ UNCHANGED <<task, bot, talk, seen>>

----------------------------------------------------------------------------
(* run                                                                      *)

\* The try block ends with an exception, and the finally block begins (which
\* exception leaves run() is not modelled)
Raise == bot' = "stopping"

\* wait_until_connected: up before the timeout, or an error; what it saw may
\* be over when the bot goes on
Ready ==
  /\ bot = "waiting" /\ task = "up" /\ bot' = "polling"
  /\ UNCHANGED <<task, pipe, talk, seen>>

NotReady ==
  /\ bot = "waiting" /\ Raise
  /\ UNCHANGED <<task, pipe, talk, seen>>

\* mutant: the bot goes on without a listener
NeverNotices == bot = "polling" /\ bot' = "getting"

\* The head of the loop: listener_task.done(), then _get_event
Polls ==
  /\ bot = "polling"
  /\ IF Ended THEN Raise ELSE bot' = "getting"

Poll == Polls /\ UNCHANGED <<task, pipe, talk, seen>>

GetTimeout ==
  /\ bot = "getting" /\ queue = <<>> /\ bot' = "polling"
  /\ UNCHANGED <<task, pipe, talk, seen>>

\* _remember_message_id: a full table forgets its oldest id
Remember(m) ==
  recent' = Append(IF Len(recent) < Window THEN recent ELSE Tail(recent), m.id)

Fresh(m) == ~Contains(recent, m.id)

\* _dispatch up to the table: a sender, a text, not its own, a prefix, a command
Wanted(m) == m.does # "nothing"

\* mutant: the id is remembered before the message is known to be a command
RemembersAll(m) == Fresh(m)

Remembers(m) == Wanted(m) /\ Fresh(m)

\* An event is taken; a command not seen yet is remembered, and then run
Dispatch ==
  /\ bot = "getting" /\ queue # <<>>
  /\ queue' = Tail(queue) /\ taken' = taken + 1
  /\ LET m == Head(queue).m
     IN  /\ wanted' = wanted \cup {i \in {m.id} : Wanted(m)}
         /\ IF Remembers(m) THEN Remember(m) ELSE recent' = recent
         /\ IF Wanted(m) /\ Fresh(m)
            THEN /\ ran' = Append(ran, m.id) /\ cur' = m
                 /\ bot' = IF m.does = "unsend" /\ m.chat \in Chats /\ lastBot[m.chat] # 0
                           THEN "unsending" ELSE "replying"
            ELSE bot' = "polling" /\ UNCHANGED <<ran, cur>>
  /\ UNCHANGED <<task, inbox, dropped, arrived, talk>>

Handled == bot' = "polling" /\ cur' = NoMessage /\ UNCHANGED <<recent, ran, taken, wanted>>

\* _reply of every handler: the send is made or not, and its answer comes with
\* the id of the message, without one, or is lost (an exception, swallowed)
Reply ==
  /\ bot = "replying"
  /\ \E made, answered \in BOOLEAN :
       /\ answered => made
       /\ LET c == cur.chat
          IN  IF made /\ c \in Chats
              THEN /\ sent' = sent + 1 /\ chat' = [chat EXCEPT ![c] = @ \cup {sent + 1}]
                   /\ lastBot' = [lastBot EXCEPT ![c] = IF answered THEN sent + 1 ELSE @]
                   /\ doubt' = IF answered THEN doubt \ {c} ELSE doubt \cup {c}
              ELSE UNCHANGED talk
  /\ Handled
  /\ UNCHANGED <<task, pipe>>

\* mutant: the entry stays when the recall is done
KeepTarget(c) == lastBot' = lastBot

PopTarget(c) == lastBot' = [lastBot EXCEPT ![c] = 0]

\* _cmd_unsend with a target: without a bridge it replies (in the chat it came
\* from), otherwise the target is recalled, and forgotten once that is answered
NoBridge ==
  /\ bot = "unsending" /\ bot' = "replying"
  /\ UNCHANGED <<task, pipe, talk, seen>>

Unsend ==
  /\ bot = "unsending"
  /\ LET c == cur.chat
     IN  \E made, answered \in BOOLEAN :
           /\ answered => made
           /\ chat' = [chat EXCEPT ![c] = IF made THEN @ \ {lastBot[c]} ELSE @]
           /\ IF answered THEN PopTarget(c) ELSE lastBot' = lastBot
           /\ doubt' = IF made /\ ~answered THEN doubt \cup {c} ELSE doubt
  /\ sent' = sent /\ Handled
  /\ UNCHANGED <<task, pipe>>

\* The task of run() is cancelled at an await of the try block
Cancel ==
  /\ bot \in {"waiting", "getting", "replying", "unsending"} /\ Raise
  /\ UNCHANGED <<task, pipe, talk, seen>>

----------------------------------------------------------------------------
(* _shutdown_listener                                                       *)

Stop ==
  /\ bot = "stopping" /\ bot' = "joining"
  /\ UNCHANGED <<task, pipe, talk, seen>>

Joined ==
  /\ bot = "joining" /\ Ended /\ bot' = "ended"
  /\ UNCHANGED <<task, pipe, talk, seen>>

JoinTimeout ==
  /\ bot = "joining" /\ ~Ended /\ bot' = "late"
  /\ UNCHANGED <<task, pipe, talk, seen>>

\* The wait is over: the task is cancelled
Abandon ==
  /\ bot = "late" /\ bot' = "ended"
  /\ task' = IF Ended THEN task ELSE "cancelled"
  /\ UNCHANGED <<pipe, talk, seen>>

\* A second cancellation, of the cleanup: in stop() it leaves the task alone,
\* in the wait the task is cancelled with it
CancelCleanup ==
  /\ bot \in {"stopping", "joining"} /\ bot' = "ended"
  /\ task' = IF bot = "stopping" \/ Ended THEN task ELSE "cancelled"
  /\ UNCHANGED <<pipe, talk, seen>>

Next ==
  \/ ListenerUp \/ ListenerEnds \/ Forward \/ QueueEvent
  \/ Ready \/ NotReady \/ Poll \/ GetTimeout \/ Dispatch
  \/ Reply \/ NoBridge \/ Unsend \/ Cancel
  \/ Stop \/ Joined \/ JoinTimeout \/ Abandon \/ CancelCleanup

Spec == Init /\ [][Next]_vars

\* The loop of the bot goes on; its calls are answered or fail.  Nothing is
\* assumed of the listener.
Fairness ==
  /\ WF_vars(Ready \/ NotReady) /\ WF_vars(Poll) /\ WF_vars(GetTimeout \/ Dispatch) /\ WF_vars(Reply)
  /\ WF_vars(NoBridge \/ Unsend) /\ WF_vars(Stop) /\ WF_vars(Joined \/ JoinTimeout)
  /\ WF_vars(Abandon)

FairSpec == Spec /\ Fairness

----------------------------------------------------------------------------
(* Properties *)

\* A command is run once however often its event comes again, as long as fewer
\* than Window other commands were run since; an event that was not yet a
\* command (its text still missing) does not take the place of the one that is;
\* and an event that is not run was taken, is queued, or is counted as dropped
\* for newer ones.
EachCommandOnce ==
  /\ \A i, j \in 1..Len(ran) : i < j /\ ran[i] = ran[j] => j - i > Window
  /\ wanted \subseteq Range(ran)
  /\ \A i \in 1..Len(queue) : queue[i].n = arrived - Len(queue) + i
  /\ taken + dropped + Len(queue) = arrived

\* What unsend recalls is the bot's last E2EE message of the chat, unless an
\* answer was lost there since the last one that was not.
UnsendTakesLast ==
  \A c \in Chats \ doubt :
    lastBot[c] # 0 => lastBot[c] \in chat[c] /\ \A n \in chat[c] : n <= lastBot[c]

\* The bot does not outlive its listener, whatever it was doing and however its
\* cleanup goes.
BotEnds == Ended ~> bot = "ended"

==============================================================================
