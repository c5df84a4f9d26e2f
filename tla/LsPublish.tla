------------------------------ MODULE LsPublish ------------------------------
(***************************************************************************)
(* Editing a message and changing a theme: _publish_ls_requests of         *)
(* src/_messaging/_editMessage.py, and the look-up that precedes it in     *)
(* src/_messaging/_changeTheme.py.                                         *)
(*                                                                         *)
(* The caller waits twice, for the connection and for the acknowledgements *)
(* of all contexts; the callbacks of paho run in a thread of its own, which*)
(* restores a broken link by itself: it sends again what was not           *)
(* acknowledged, and on_connect publishes everything once more.            *)
(***************************************************************************)
EXTENDS Integers, FiniteSets

CONSTANTS Contexts,     \* the contexts of a theme; an edit has one
          QueryRetries, \* GRAPHQL_RETRIES
          MaxLinks      \* bound: connections made

ASSUME LsAssumption == Contexts # {} /\ IsFiniteSet(Contexts) /\ QueryRetries \in Nat /\ MaxLinks \in Nat

VARIABLES
  main,      \* where the caller is
  tries,     \* requests made to find the theme
  todo,      \* contexts
  connected, published, count, errors, \* the events and state of _publish_ls_requests
  links, up, \* connections made, the last one is up
  unacked,   \* <<link, context>> published and not acknowledged
  applied,   \* contexts the broker has taken
  answer     \* what the caller returned

state  == <<connected, published, count, errors>>
wire   == <<links, up, unacked, applied>>
lsVars == <<main, tries, todo, state, wire, answer>>

LsInit ==
  /\ main = "idle" /\ tries = 0 /\ todo = {}
  /\ connected = FALSE /\ published = FALSE /\ count = 0 /\ errors = FALSE
  /\ links = 0 /\ up = FALSE /\ unacked = {} /\ applied = {}
  /\ answer = "none"

Return(a) == main' = "done" /\ answer' = a

\* editMessage and changeTheme: a missing argument is refused
Edit ==
  /\ main = "idle"
  /\ \/ main' = "connecting" /\ (\E c \in Contexts : todo' = {c}) /\ UNCHANGED answer
     \/ Return("error") /\ todo' = todo
  /\ UNCHANGED <<tries, state, wire>>

ChangeTheme ==
  /\ main = "idle"
  /\ main' = "looking" /\ todo' = Contexts
  /\ UNCHANGED <<tries, state, wire, answer>>

\* _post_graphql: an answer, with the theme in it or not
Found ==
  /\ main = "looking"
  /\ \/ main' = "connecting" /\ UNCHANGED answer
     \/ Return("error")
  /\ UNCHANGED <<tries, todo, state, wire>>

\* A timeout or an HTTP error: the query is repeated
QueryFails ==
  /\ main = "looking" /\ tries' = tries + 1
  /\ IF tries < QueryRetries THEN UNCHANGED <<main, answer>> ELSE Return("error")
  /\ UNCHANGED <<todo, state, wire>>

\* client.connect, which may raise, and loop_start
Connects ==
  /\ main = "connecting"
  /\ \/ main' = "awaitConnect" /\ UNCHANGED answer
     \/ Return("error")
  /\ UNCHANGED <<tries, todo, state, wire>>

\* The wait for the connection: the event, or the timeout
AwaitConnect ==
  /\ main = "awaitConnect"
  /\ \/ connected /\ ~errors /\ main' = "awaitPublish" /\ UNCHANGED answer
     \/ connected /\ errors /\ Return("error")
     \/ ~connected /\ Return("error")
  /\ UNCHANGED <<tries, todo, state, wire>>

\* The wait for the acknowledgements
AwaitPublish ==
  /\ main = "awaitPublish"
  /\ Return(IF published /\ ~errors THEN "success" ELSE "error")
  /\ UNCHANGED <<tries, todo, state, wire>>

----------------------------------------------------------------------------
(* The callbacks, until disconnect and loop_stop                            *)

Looping == main \in {"awaitConnect", "awaitPublish"}

\* on_connect: refused, or every context is published; publish may fail
OnConnect ==
  /\ Looping /\ ~up /\ links < MaxLinks /\ links' = links + 1
  /\ connected' = TRUE /\ count' = count
  /\ \/ up' = TRUE /\ unacked' = unacked \cup ({links + 1} \X todo)
        /\ UNCHANGED <<published, errors>>
     \/ errors' = TRUE /\ published' = TRUE /\ UNCHANGED <<up, unacked>>
  /\ UNCHANGED <<main, tries, todo, applied, answer>>

AllAcked == count + 1 >= Cardinality(todo)

\* on_publish
OnPublish ==
  /\ Looping /\ up
  /\ \E m \in unacked :
       /\ m[2] \in applied /\ unacked' = unacked \ {m}
  /\ count' = count + 1 /\ published' = (published \/ AllAcked)
  /\ UNCHANGED <<main, tries, todo, connected, errors, links, up, applied, answer>>

\* mutant: a broken link is left to paho
IgnoreLoss == UNCHANGED <<connected, published, errors>>

\* on_disconnect: an error unless everything was published
ReportLoss ==
  IF published THEN UNCHANGED <<connected, published, errors>>
               ELSE connected' = TRUE /\ published' = TRUE /\ errors' = TRUE

OnDisconnect ==
  /\ Looping /\ up /\ up' = FALSE
  /\ ReportLoss
  /\ UNCHANGED <<main, tries, todo, count, links, unacked, applied, answer>>

\* The broker takes a context, also after the caller has returned
Apply ==
  /\ \E m \in unacked : m[2] \notin applied /\ applied' = applied \cup {m[2]}
  /\ UNCHANGED <<main, tries, todo, state, links, up, unacked, answer>>

LsNext ==
  \/ Edit \/ ChangeTheme \/ Found \/ QueryFails \/ Connects \/ AwaitConnect \/ AwaitPublish
  \/ OnConnect \/ OnPublish \/ OnDisconnect \/ Apply

LsSpec == LsInit /\ [][LsNext]_lsVars

\* Success is reported only if the broker has taken every context, although
\* acknowledgements are only counted and a restored link repeats them.  (The
\* opposite does not hold: after an error some, or all, may be applied.)
PublishedMeansApplied == answer = "success" => todo \subseteq applied

==============================================================================
