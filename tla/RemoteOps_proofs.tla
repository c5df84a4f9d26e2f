---------------------------- MODULE RemoteOps_proofs ----------------------------
(***************************************************************************)
(* Theorems about what passes between the program and the server and may   *)
(* be lost or come twice: a publication (LsPublish), the note operations   *)
(* (NoteOps), the login (FacebookLogin) and the messages that arrive at    *)
(* the bridge (EventDedup), for any number of retries, of connections and  *)
(* of repetitions.                                                         *)
(***************************************************************************)
EXTENDS LsPublish, NoteOps, FacebookLogin, EventDedup, FiniteSetTheorems, TLAPS

----------------------------------------------------------------------------
(* Notes *)

NoteTypes ==
  /\ variant \in {"blocking", "async"} /\ wish \in {"create", "delete", "recreate", "check"}
  /\ request \in {"none", "create", "delete", "check", "over"}
  /\ attempt \in 0..Retries /\ note \in BOOLEAN /\ made \in Nat /\ unheard \in Nat
  /\ noted \in {"none", "success", "error"}

\* The request being made serves the wish, and nobody is told before the end
RequestServes ==
  /\ noted # "none" => request = "over"
  /\ request = "create" => wish \in {"create", "recreate"}
  /\ request = "delete" => wish \in {"delete", "recreate"}
  /\ request = "check" => wish = "check"
  /\ request \in {"none", "delete", "check"} => made = 0

\* Until the answer arrives every note made is one whose answer was lost, and
\* the blocking recreate has seen the old note go
CountedUnheard ==
  /\ request # "over" => made <= unheard
  /\ variant = "blocking" /\ wish = "recreate" /\ request = "create" => ~note

NoteInv == NoteTypes /\ RequestServes /\ CountedUnheard /\ NotesAgree

LEMMA NoteGoes ==
  ASSUME NoteTypes, CarriedOut
  PROVE  /\ note' \in BOOLEAN /\ made' \in Nat
         /\ (~note => ~note') /\ (request = "delete" => ~note')
         /\ made' = IF request = "create" THEN made + 1 ELSE made
<1>1. note' \in BOOLEAN /\ (~note => ~note') /\ (request = "delete" => ~note')
  BY DEF NoteTypes, CarriedOut
<1>2. made \in Nat /\ made' = IF request = "create" THEN made + 1 ELSE made
  BY DEF NoteTypes, CarriedOut
<1> QED
  BY <1>1, <1>2

LEMMA NoteStep == NoteInv /\ [NoteNext]_noteVars => NoteInv'
<1> SUFFICES ASSUME NoteInv, [NoteNext]_noteVars PROVE NoteInv'
  OBVIOUS
<1> USE NoteAssumption DEF NoteInv, NoteTypes, RequestServes, CountedUnheard, Tell, Succeeded
<1>1. CASE UNCHANGED noteVars
  BY <1>1 DEF noteVars, NotesAgree
<1>2. CASE Ask
  BY <1>2 DEF Ask, NotesAgree
<1>3. CASE Answered
  <2>1. /\ note' \in BOOLEAN /\ made' \in Nat
        /\ (~note => ~note') /\ (request = "delete" => ~note')
        /\ made' = IF request = "create" THEN made + 1 ELSE made
    BY <1>3, NoteGoes DEF Answered
  <2>2. UNCHANGED <<variant, wish, unheard>> /\ Succeeded /\ request \in {"create", "delete", "check"}
    BY <1>3 DEF Answered
  <2>3. NoteTypes' /\ RequestServes'
    BY <2>1, <2>2
  <2>4. CountedUnheard'
    BY <2>1, <2>2
  <2>5. NotesAgree'
    BY <2>1, <2>2 DEF NotesAgree
  <2> QED
    BY <2>3, <2>4, <2>5
<1>4. CASE WithoutStatus
  BY <1>4 DEF WithoutStatus, AcceptsNoStatus, NotesAgree
<1>5. CASE RefusedByServer
  BY <1>5 DEF RefusedByServer, NotesAgree
<1>6. ASSUME Garbled \/ NoAnswer PROVE NoteInv'
  <2>1. \/ UNCHANGED <<made, unheard>>
        \/ request = "create" /\ made' = made + 1 /\ unheard' = unheard + 1
        \/ request = "create" /\ made' = made + 1 /\ unheard' = unheard /\ request' = "over"
    <3>1. CASE Garbled
      BY <3>1 DEF Garbled, GarbledAnswer, CarriedOut
    <3>2. CASE NoAnswer
      BY <3>2 DEF NoAnswer, CarriedOut
    <3> QED
      BY <1>6, <3>1, <3>2
  <2>2. note' \in BOOLEAN /\ (~note => ~note')
    BY <1>6, NoteGoes DEF Garbled, NoAnswer
  <2>3. \/ Tell("error")
        \/ UNCHANGED <<request, noted>> /\ attempt' \in 0..Retries
    <3>1. attempt < Retries => attempt + 1 \in 0..Retries
      OBVIOUS
    <3> QED
      BY <1>6, <3>1 DEF Garbled, GarbledAnswer, NoAnswer, Again
  <2>4. UNCHANGED <<variant, wish>> /\ request \in {"create", "delete", "check"}
    BY <1>6 DEF Garbled, NoAnswer
  <2>5. NoteTypes'
    <3>1. made' \in Nat /\ unheard' \in Nat
      BY <2>1
    <3> QED
      BY <2>2, <2>3, <2>4, <3>1
  <2>6. RequestServes'
    BY <2>1, <2>3, <2>4
  <2>7. CountedUnheard'
    BY <2>1, <2>2, <2>3, <2>4
  <2>8. made' <= 1 + unheard' /\ noted' # "success"
    <3>1. made' <= 1 + unheard'
      BY <2>1, <2>4
    <3> QED
      BY <2>3, <2>4, <3>1
  <2>9. variant' = "blocking" /\ wish' = "recreate" /\ made' > 0 => ~note'
    BY <2>1, <2>2, <2>4 DEF NotesAgree
  <2> QED
    BY <2>5, <2>6, <2>7, <2>8, <2>9 DEF NotesAgree
<1> QED
  BY <1>1, <1>2, <1>3, <1>4, <1>5, <1>6 DEF NoteNext

\* However often _post_graphql repeats a request, a note is made a second time
\* only when an answer was lost, and what the blocking functions call a success
\* has happened.
THEOREM NotesAreTold == NoteSpec => []NotesAgree
<1>1. NoteInit => NoteInv
  BY NoteAssumption DEF NoteInit, NoteInv, NoteTypes, RequestServes, CountedUnheard, NotesAgree
<1>2. NoteInv => NotesAgree
  BY DEF NoteInv
<1> QED
  BY <1>1, <1>2, NoteStep, PTL DEF NoteSpec

----------------------------------------------------------------------------
(* The login *)

LoginTypes ==
  /\ factor \in {"secret", "code", "none", "invalid"} /\ step \in Requests \cup {"start", "end"}
  /\ clock \in 0..MaxClock /\ code \in 0..MaxClock /\ used \subseteq 0..MaxClock
  /\ sessions \subseteq Requests /\ unheardOf \subseteq sessions
  /\ login \in Requests \cup {"none", "error", "empty"}

\* The requests made before one
Before(r) ==
  CASE r = "password"         -> {}
    [] r = "code"             -> {"password"}
    [] r = "codeWithPassword" -> {"password", "code"}
    [] OTHER                  -> {"password", "code", "codeWithPassword"}

\* While requests are made, every session is one whose answer was lost, and it
\* was made by an earlier request
LostBefore ==
  /\ step # "end" => login = "none" /\ sessions \subseteq unheardOf
  /\ step = "start" => sessions = {}
  /\ step \in Requests => sessions \subseteq Before(step)

LoginInv == LoginTypes /\ LostBefore /\ LoginAgrees

LEMMA LoginStep == LoginInv /\ [LoginNext]_loginVars => LoginInv'
<1> SUFFICES ASSUME LoginInv, [LoginNext]_loginVars PROVE LoginInv'
  OBVIOUS
<1> USE LoginAssumption
    DEF LoginInv, LoginTypes, LostBefore, LoginAgrees, Requests, Before, Result
<1>1. CASE UNCHANGED loginVars
  BY <1>1 DEF loginVars
<1>2. CASE Tick
  BY <1>2 DEF Tick
<1>3. CASE LoginBegins
  BY <1>3 DEF LoginBegins
<1>4. CASE TwoFactorAsked
  BY <1>4 DEF TwoFactorAsked, CurrentCode
<1>5. CASE Success
  BY <1>5 DEF Success, Completed, Accepts
<1>6. CASE Refusal
  BY <1>6 DEF Refusal, Fails, NextStep, CurrentCode
<1>7. CASE Unanswered
  BY <1>7 DEF Unanswered, Unheard, Fails, NextStep, CurrentCode, Accepts
<1>8. CASE OddAnswer
  BY <1>8 DEF OddAnswer, Unheard, Accepts
<1> QED
  BY <1>1, <1>2, <1>3, <1>4, <1>5, <1>6, <1>7, <1>8 DEF LoginNext

\* main_blocking returns the session the server has just made and answered with; when
\* it returns an error, or a success whose cookies are empty, every session the server
\* made is one it did not answer with.
THEOREM LoginIsTold == LoginSpec => []LoginAgrees
<1>1. LoginInit => LoginInv
  BY LoginAssumption DEF LoginInit, LoginInv, LoginTypes, LostBefore, LoginAgrees, Requests
<1>2. LoginInv => LoginAgrees
  BY DEF LoginInv
<1> QED
  BY <1>1, <1>2, LoginStep, PTL DEF LoginSpec

----------------------------------------------------------------------------
(* The publication *)

LsTypes ==
  /\ main \in {"idle", "looking", "connecting", "awaitConnect", "awaitPublish", "done"}
  /\ todo \subseteq Contexts /\ applied \subseteq Contexts
  /\ links \in Nat /\ unacked \subseteq Nat \X Contexts
  /\ count \in Nat /\ answer \in {"none", "success", "error"}
  /\ up \in BOOLEAN /\ connected \in BOOLEAN /\ published \in BOOLEAN /\ errors \in BOOLEAN

\* Contexts published over the first link and not acknowledged
Awaited == {c \in todo : <<1, c>> \in unacked}

\* Without an error everything unacknowledged is of the first link, which is
\* up, and what was acknowledged there was counted once
FirstLinkCounts ==
  ~errors /\ ~published =>
    \/ links = 0 /\ count = 0 /\ unacked = {} /\ ~up
    \/ /\ up /\ unacked \subseteq {1} \X todo
       /\ \A c \in todo : c \in applied \/ c \in Awaited
       /\ count + Cardinality(Awaited) = Cardinality(todo)

LsPlaces ==
  /\ main \in {"idle", "looking", "connecting"} =>
       links = 0 /\ count = 0 /\ unacked = {} /\ ~up /\ ~errors /\ ~published
  /\ main = "idle" => todo = {}
  /\ answer = "success" => main = "done"
  /\ published /\ ~errors => todo \subseteq applied

LsInv == LsTypes /\ FirstLinkCounts /\ LsPlaces /\ PublishedMeansApplied

LEMMA TodoFinite ==
  ASSUME LsTypes
  PROVE  /\ IsFiniteSet(todo) /\ IsFiniteSet(Awaited)
         /\ Cardinality(todo) \in Nat /\ Cardinality(Awaited) \in Nat
<1>1. IsFiniteSet(Contexts) /\ todo \in SUBSET Contexts
  BY LsAssumption DEF LsTypes
<1>2. IsFiniteSet(todo)
  BY <1>1, FS_Subset
<1>3. Awaited \in SUBSET todo
  BY DEF Awaited
<1>4. IsFiniteSet(Awaited)
  BY <1>2, <1>3, FS_Subset
<1> QED
  BY <1>2, <1>4, FS_CardinalityType

LEMMA LsTypesStep == LsTypes /\ [LsNext]_lsVars => LsTypes'
<1> SUFFICES ASSUME LsTypes, [LsNext]_lsVars PROVE LsTypes'
  OBVIOUS
<1> USE DEF LsTypes, state, wire, Return
<1>1. CASE UNCHANGED lsVars
  BY <1>1 DEF lsVars
<1>2. CASE Edit
  BY <1>2 DEF Edit
<1>3. CASE ChangeTheme
  BY <1>3 DEF ChangeTheme
<1>4. CASE Found \/ QueryFails \/ Connects \/ AwaitConnect \/ AwaitPublish
  BY <1>4 DEF Found, QueryFails, Connects, AwaitConnect, AwaitPublish
<1>5. CASE OnConnect
  <2>1. {links + 1} \X todo \subseteq Nat \X Contexts
    OBVIOUS
  <2>2. unacked' \subseteq Nat \X Contexts /\ links' \in Nat
    BY <1>5, <2>1 DEF OnConnect
  <2> QED
    BY <1>5, <2>2 DEF OnConnect
<1>6. CASE OnPublish
  BY <1>6 DEF OnPublish
<1>7. CASE OnDisconnect
  BY <1>7 DEF OnDisconnect, ReportLoss
<1>8. CASE Apply
  BY <1>8 DEF Apply
<1> QED
  BY <1>1, <1>2, <1>3, <1>4, <1>5, <1>6, <1>7, <1>8 DEF LsNext


\* Until an error is reported, acknowledgements come only for the first link
LEMMA CountStep ==
  ASSUME LsTypes, FirstLinkCounts, LsPlaces, [LsNext]_lsVars
  PROVE  FirstLinkCounts'
<1> SUFFICES ASSUME ~errors', ~published'
             PROVE  \/ links' = 0 /\ count' = 0 /\ unacked' = {} /\ ~up'
                    \/ /\ up' /\ unacked' \subseteq {1} \X todo'
                       /\ \A c \in todo' : c \in applied' \/ c \in Awaited'
                       /\ count' + Cardinality(Awaited') = Cardinality(todo')
  BY DEF FirstLinkCounts
<1> USE DEF LsTypes, FirstLinkCounts, LsPlaces, Awaited, state, wire, Return
<1>1. CASE UNCHANGED lsVars
  BY <1>1 DEF lsVars
<1>2. CASE Edit \/ ChangeTheme
  BY <1>2 DEF Edit, ChangeTheme
<1>3. CASE Found \/ QueryFails \/ Connects \/ AwaitConnect \/ AwaitPublish
  BY <1>3 DEF Found, QueryFails, Connects, AwaitConnect, AwaitPublish
<1>4. CASE OnConnect
  <2>1. /\ ~up /\ links' = links + 1 /\ count' = count /\ up' /\ todo' = todo
        /\ unacked' = unacked \cup ({links + 1} \X todo) /\ ~errors /\ ~published
    BY <1>4 DEF OnConnect
  <2>2. links = 0 /\ count = 0 /\ unacked = {}
    BY <2>1
  <2>3. unacked' = {1} \X todo /\ Awaited' = todo
    BY <2>1, <2>2
  <2>4. count' + Cardinality(Awaited') = Cardinality(todo')
    <3> HIDE DEF Awaited
    <3> QED
      BY <2>1, <2>2, <2>3, TodoFinite
  <2> QED
    BY <2>1, <2>3, <2>4
<1>5. CASE OnPublish
  <2>1. /\ up /\ ~errors /\ ~published /\ ~AllAcked /\ count' = count + 1
        /\ UNCHANGED <<todo, up, applied>>
    BY <1>5 DEF OnPublish
  <2>2. PICK m \in unacked : m[2] \in applied /\ unacked' = unacked \ {m}
    BY <1>5 DEF OnPublish
  <2>3. /\ unacked \subseteq {1} \X todo
        /\ \A c \in todo : c \in applied \/ c \in Awaited
        /\ count + Cardinality(Awaited) = Cardinality(todo)
    BY <2>1
  <2>4. m = <<1, m[2]>> /\ m[2] \in todo
    BY <2>2, <2>3
  <2>5. Awaited' = Awaited \ {m[2]} /\ m[2] \in Awaited
    BY <2>1, <2>2, <2>4
  <2>6. Cardinality(Awaited') = Cardinality(Awaited) - 1
    <3>1. IsFiniteSet(Awaited)
      BY TodoFinite
    <3> HIDE DEF Awaited, LsTypes, FirstLinkCounts, LsPlaces
    <3>2. Cardinality(Awaited \ {m[2]}) = Cardinality(Awaited) - 1
      BY <2>5, <3>1, FS_RemoveElement
    <3> QED
      BY <2>5, <3>2
  <2>7. count' + Cardinality(Awaited') = Cardinality(todo')
    BY <2>1, <2>3, <2>6, TodoFinite
  <2> QED
    BY <2>1, <2>2, <2>3, <2>5, <2>7
<1>6. CASE OnDisconnect
  BY <1>6 DEF OnDisconnect, ReportLoss
<1>7. CASE Apply
  BY <1>7 DEF Apply
<1> QED
  BY <1>1, <1>2, <1>3, <1>4, <1>5, <1>6, <1>7 DEF LsNext

LEMMA LsPlacesStep ==
  ASSUME LsTypes, FirstLinkCounts, LsPlaces, PublishedMeansApplied, [LsNext]_lsVars
  PROVE  (LsPlaces /\ PublishedMeansApplied)'
<1> USE DEF LsTypes, LsPlaces, PublishedMeansApplied, state, wire, Return, Looping
<1>1. CASE UNCHANGED lsVars
  BY <1>1 DEF lsVars
<1>2. CASE Edit \/ ChangeTheme
  BY <1>2 DEF Edit, ChangeTheme
<1>3. CASE Found \/ QueryFails \/ Connects \/ AwaitConnect \/ AwaitPublish
  BY <1>3 DEF Found, QueryFails, Connects, AwaitConnect, AwaitPublish
<1>4. CASE OnConnect
  BY <1>4 DEF OnConnect
<1>5. CASE OnPublish
  <2>1. UNCHANGED <<main, todo, errors, links, applied, answer>> /\ Looping
        /\ published' = (published \/ AllAcked)
    BY <1>5 DEF OnPublish
  <2>2. ASSUME ~published, ~errors, AllAcked PROVE todo \subseteq applied
    <3>1. PICK m \in unacked : m[2] \in applied /\ up
      BY <1>5 DEF OnPublish
    <3>2. /\ unacked \subseteq {1} \X todo
          /\ \A c \in todo : c \in applied \/ c \in Awaited
          /\ count + Cardinality(Awaited) = Cardinality(todo)
      BY <2>2, <3>1 DEF FirstLinkCounts
    <3>3. Cardinality(Awaited) <= 1
      BY <2>2, <3>2, TodoFinite DEF AllAcked
    <3>4. m = <<1, m[2]>> /\ m[2] \in Awaited
      BY <3>1, <3>2 DEF Awaited
    <3>5. Cardinality(Awaited \ {m[2]}) = Cardinality(Awaited) - 1
          /\ IsFiniteSet(Awaited \ {m[2]})
      BY <3>4, TodoFinite, FS_RemoveElement
    <3>6. Cardinality(Awaited \ {m[2]}) = 0
      BY <3>3, <3>5, TodoFinite, FS_CardinalityType
    <3>7. Awaited \ {m[2]} = {}
      BY <3>5, <3>6, FS_EmptySet
    <3> QED
      BY <3>1, <3>2, <3>7
  <2> QED
    BY <2>1, <2>2
<1>6. CASE OnDisconnect
  BY <1>6 DEF OnDisconnect, ReportLoss
<1>7. CASE Apply
  BY <1>7 DEF Apply
<1> QED
  BY <1>1, <1>2, <1>3, <1>4, <1>5, <1>6, <1>7 DEF LsNext

\* _publish_ls_requests reports success only when the broker has taken every
\* context, although it only counts acknowledgements and paho repeats what a
\* broken link may have lost.
THEOREM PublishedIsApplied == LsSpec => []PublishedMeansApplied
<1>1. LsInit => LsInv
  <2> SUFFICES ASSUME LsInit PROVE LsInv
    OBVIOUS
  <2>1. LsTypes
    BY DEF LsInit, LsTypes
  <2>2. FirstLinkCounts /\ LsPlaces /\ PublishedMeansApplied
    BY DEF LsInit, FirstLinkCounts, LsPlaces, PublishedMeansApplied
  <2> QED
    BY <2>1, <2>2 DEF LsInv
<1>2. LsInv /\ [LsNext]_lsVars => LsInv'
  BY LsTypesStep, CountStep, LsPlacesStep DEF LsInv
<1>3. LsInv => PublishedMeansApplied
  BY DEF LsInv
<1> QED
  BY <1>1, <1>2, <1>3, PTL DEF LsSpec

----------------------------------------------------------------------------
(* The messages that arrive *)

Entries == [source : {"none", "insert", "upsert"}, at : Nat]
Events  == [source : {"insert", "upsert"}, at : Nat]

DedupTypes ==
  /\ now \in Nat /\ cutoff \in Nat /\ since \in Nat /\ sweep \in Nat
  /\ stamp \in [Messages -> Nat] /\ recent \in [Messages -> Entries]
  /\ emitted \in [Messages -> Seq(Events)]

Window == 0 < now /\ (cutoff # 0 => since <= cutoff)

\* A message's events are in the order of time; an upsert was of the present,
\* and came Ttl after whatever was reported before
History ==
  \A m \in Messages : \A j \in 1..Len(emitted[m]) :
    /\ emitted[m][j].at <= now
    /\ emitted[m][j].source = "upsert" =>
         cutoff # 0 /\ since <= stamp[m] /\ stamp[m] <= emitted[m][j].at + Skew
    /\ \A i \in 1..(j - 1) :
         /\ emitted[m][i].at <= emitted[m][j].at
         /\ emitted[m][j].source = "upsert" => emitted[m][i].at + Ttl < emitted[m][j].at

\* The table holds the last event of a message, unless that is older than Ttl
TableHolds ==
  \A m \in Messages :
    /\ emitted[m] = <<>> => recent[m].source = "none"
    /\ emitted[m] # <<>> =>
         \/ recent[m] = emitted[m][Len(emitted[m])]
         \/ recent[m].source = "none" /\ emitted[m][Len(emitted[m])].at + Ttl < now

DedupInv == DedupTypes /\ Window /\ History /\ TableHolds /\ MessageOnce

LEMMA Bounds == /\ Grace \in Nat /\ Skew \in Nat /\ Ttl \in Nat /\ SweepEvery \in Nat
                /\ MaxNow \in Nat /\ Grace + Skew <= Ttl
  BY DedupAssumption DEF DedupAssumption

LEMMA SweptIs ==
  ASSUME DedupTypes
  PROVE  /\ Swept \in [Messages -> Entries]
         /\ \A m \in Messages :
              \/ Swept[m] = recent[m]
              \/ Swept[m].source = "none" /\ recent[m].at + Ttl < now
<1>1. Absent \in Entries
  BY DEF Absent, Entries
<1>2. Swept \in [Messages -> Entries]
  BY <1>1 DEF Swept, DedupTypes
<1>3. ASSUME NEW m \in Messages
      PROVE  \/ Swept[m] = recent[m]
             \/ Swept[m].source = "none" /\ recent[m].at + Ttl < now
  <2>1. recent[m].at \in Nat /\ now \in Nat
    BY DEF DedupTypes, Entries
  <2>2. CASE now - recent[m].at > Ttl
    BY <2>1, <2>2, Bounds DEF Swept, Absent
  <2>3. CASE ~(now - recent[m].at > Ttl)
    BY <2>3 DEF Swept
  <2> QED
    BY <2>2, <2>3
<1> QED
  BY <1>2, <1>3

\* A message is claimed when nothing was reported of it, or nothing within Ttl,
\* or an upsert alone before its insert
LEMMA ClaimedWhen ==
  ASSUME DedupTypes, TableHolds, NEW m \in Messages, NEW source, Claimed(m, source)
  PROVE  \/ emitted[m] = <<>>
         \/ emitted[m][Len(emitted[m])].at + Ttl < now
         \/ source = "insert" /\ emitted[m][Len(emitted[m])].source = "upsert"
<1> SUFFICES ASSUME emitted[m] # <<>>
             PROVE  \/ emitted[m][Len(emitted[m])].at + Ttl < now
                    \/ source = "insert" /\ emitted[m][Len(emitted[m])].source = "upsert"
  OBVIOUS
<1> DEFINE e == emitted[m][Len(emitted[m])]
<1>1. e \in Events
  BY DEF DedupTypes
<1>2. \/ recent[m] = e
      \/ recent[m].source = "none" /\ e.at + Ttl < now
  BY DEF TableHolds
<1>3. \/ Swept[m] = recent[m]
      \/ Swept[m].source = "none" /\ recent[m].at + Ttl < now
  BY SweptIs
<1> HIDE DEF e
<1>4. e.source # "none"
  BY <1>1 DEF Events
<1>5. e.at + Ttl < now \/ (source = "insert" /\ e.source = "upsert")
  BY <1>2, <1>3, <1>4 DEF Claimed
<1> QED
  BY <1>5 DEF e

\* What the events before say of the one that is added
LEMMA BeforeAppended ==
  ASSUME DedupInv, NEW m \in Messages, NEW source \in {"insert", "upsert"}, Claimed(m, source),
         source = "upsert" => now - Grace <= stamp[m],
         NEW i \in 1..Len(emitted[m])
  PROVE  /\ emitted[m][i].at <= now
         /\ source = "upsert" => /\ emitted[m][i].at + Ttl < now
                                 /\ emitted[m][i].source = "insert"
                                 /\ emitted[m][i].at + Skew < stamp[m]
         /\ source = "insert" /\ emitted[m][i].source = "insert" => emitted[m][i].at + Ttl < now
<1> DEFINE n == Len(emitted[m])  e == emitted[m][i]  l == emitted[m][n]
<1>1. /\ emitted[m] \in Seq(Events) /\ n \in Nat /\ n > 0 /\ i \in 1..n /\ n \in 1..n
      /\ now \in Nat /\ stamp[m] \in Nat
  BY DEF DedupInv, DedupTypes
<1>2. e \in Events /\ l \in Events
  BY <1>1
<1>3. e.at \in Nat /\ l.at \in Nat /\ e.source \in {"insert", "upsert"}
  BY <1>2 DEF Events
<1>4. e.at <= now /\ l.at <= now /\ (e.source = "upsert" => stamp[m] <= e.at + Skew)
  BY <1>1 DEF DedupInv, History
<1>5. i < n => e.at <= l.at /\ (l.source = "upsert" => e.at + Ttl < l.at)
  <2>1. i < n => i \in 1..(n - 1)
    BY <1>1
  <2> QED
    BY <1>1, <2>1 DEF DedupInv, History
<1>6. emitted[m] # <<>>
  BY <1>1
<1>7. l.at + Ttl < now \/ (source = "insert" /\ l.source = "upsert")
  BY <1>6, ClaimedWhen DEF DedupInv
<1>8. i = n \/ i < n
  BY <1>1
<1>9. i = n => e = l
  OBVIOUS
<1> HIDE DEF n, e, l
<1>10. source = "upsert" => e.at + Ttl < now
  <2>1. e.at <= l.at
    BY <1>3, <1>5, <1>8, <1>9
  <2> QED
    BY <1>1, <1>3, <1>7, <2>1, Bounds
<1>11. source = "upsert" => e.at + Skew < stamp[m]
  BY <1>1, <1>3, <1>10, Bounds
<1>12. source = "upsert" => e.source = "insert"
  BY <1>1, <1>3, <1>4, <1>11, Bounds
<1>13. source = "insert" /\ e.source = "insert" => e.at + Ttl < now
  <2>1. CASE l.at + Ttl < now
    BY <1>1, <1>3, <1>5, <1>8, <1>9, <2>1, Bounds
  <2>2. CASE l.source = "upsert"
    BY <1>1, <1>3, <1>4, <1>5, <1>8, <1>9, <2>2, Bounds
  <2> QED
    BY <1>7, <2>1, <2>2
<1> QED
  BY <1>4, <1>10, <1>11, <1>12, <1>13 DEF e

LEMMA ClaimTypes ==
  ASSUME DedupTypes, NEW m \in Messages, NEW source \in {"insert", "upsert"}, Claim(m, source)
  PROVE  DedupTypes' /\ UNCHANGED <<now, stamp, cutoff, since>>
<1>1. UNCHANGED <<now, stamp, cutoff, since>>
  BY DEF Claim
<1>2. [source |-> source, at |-> now] \in Entries /\ [source |-> source, at |-> now] \in Events
  BY DEF DedupTypes, Entries, Events
<1>3. sweep' \in Nat
  BY Bounds DEF Claim, DedupTypes
<1>4. recent' \in [Messages -> Entries]
  BY <1>2, SweptIs DEF Claim
<1>5. emitted' \in [Messages -> Seq(Events)]
  <2>1. emitted \in [Messages -> Seq(Events)] /\ emitted[m] \in Seq(Events)
    BY DEF DedupTypes
  <2> HIDE DEF DedupTypes
  <2> DEFINE longer == Append(emitted[m], [source |-> source, at |-> now])
  <2>2. longer \in Seq(Events)
    BY <1>2, <2>1
  <2>3. emitted' = emitted \/ emitted' = [emitted EXCEPT ![m] = longer]
    BY DEF Claim
  <2> HIDE DEF longer
  <2> QED
    BY <2>1, <2>2, <2>3
<1> QED
  BY <1>1, <1>3, <1>4, <1>5 DEF DedupTypes

\* A step that reports nothing keeps what was said of the events reported
LEMMA Unreported ==
  ASSUME DedupInv, UNCHANGED <<stamp, emitted>>, Window',
         now' = now \/ now' = now + 1,
         cutoff' # 0 \/ cutoff' = cutoff,
         cutoff = 0 \/ since' = since
  PROVE  History' /\ MessageOnce'
<1>1. ASSUME NEW m \in Messages, NEW j \in 1..Len(emitted[m])
      PROVE  /\ emitted[m][j].at <= now'
             /\ emitted[m][j].source = "upsert" => cutoff # 0 /\ since' = since /\ cutoff' # 0
  <2>1. emitted[m][j].at <= now /\ (emitted[m][j].source = "upsert" => cutoff # 0)
    BY DEF DedupInv, History
  <2>2. emitted[m][j].at \in Nat /\ now \in Nat
    <3>1. emitted[m] \in Seq(Events) /\ now \in Nat
      BY DEF DedupInv, DedupTypes
    <3>2. emitted[m][j] \in Events
      BY <3>1
    <3> QED
      BY <3>1, <3>2 DEF Events
  <2> QED
    BY <2>1, <2>2
<1>2. History'
  BY <1>1 DEF DedupInv, History
<1>3. MessageOnce'
  BY <1>1 DEF DedupInv, MessageOnce
<1> QED
  BY <1>2, <1>3

LEMMA TableStep ==
  ASSUME DedupTypes, TableHolds, NEW m \in Messages,
         emitted'[m] = emitted[m], recent'[m] = recent[m] \/ recent'[m] = Swept[m],
         now' = now \/ now' = now + 1
  PROVE  /\ emitted'[m] = <<>> => recent'[m].source = "none"
         /\ emitted'[m] # <<>> =>
              \/ recent'[m] = emitted'[m][Len(emitted'[m])]
              \/ recent'[m].source = "none" /\ emitted'[m][Len(emitted'[m])].at + Ttl < now'
<1> DEFINE e == emitted[m][Len(emitted[m])]
<1>1. /\ emitted[m] = <<>> => recent[m].source = "none"
      /\ emitted[m] # <<>> =>
           \/ recent[m] = e
           \/ recent[m].source = "none" /\ e.at + Ttl < now
  BY DEF TableHolds
<1>2. \/ recent'[m] = recent[m]
      \/ recent'[m].source = "none" /\ recent[m].at + Ttl < now
  BY SweptIs
<1>3. now \in Nat /\ (emitted[m] # <<>> => e.at \in Nat)
  <2>1. emitted[m] \in Seq(Events)
    BY DEF DedupTypes
  <2>2. emitted[m] # <<>> => e \in Events
    BY <2>1
  <2> QED
    BY <2>2 DEF DedupTypes, Events
<1>4. emitted'[m][Len(emitted'[m])] = e
  OBVIOUS
<1> HIDE DEF e
<1>5. ASSUME emitted[m] # <<>>
      PROVE  \/ recent'[m] = e
             \/ recent'[m].source = "none" /\ e.at + Ttl < now'
  <2>1. e.at + Ttl < now => e.at + Ttl < now'
    BY <1>3, <1>5, Bounds
  <2> QED
    BY <1>1, <1>2, <1>3, <1>5, <2>1
<1> QED
  BY <1>1, <1>2, <1>4, <1>5

LEMMA ClaimStep ==
  ASSUME DedupInv, NEW m \in Messages, NEW source \in {"insert", "upsert"}, Claim(m, source),
         source = "upsert" =>
           /\ cutoff # 0 /\ since <= stamp[m]
           /\ now - Grace <= stamp[m] /\ stamp[m] <= now + Skew
  PROVE  DedupInv'
<1>1. DedupTypes' /\ UNCHANGED <<now, stamp, cutoff, since>>
  BY ClaimTypes DEF DedupInv
<1>2. Window'
  BY <1>1 DEF DedupInv, Window
<1>3. CASE ~Claimed(m, source)
  <2>1. UNCHANGED emitted /\ recent' = Swept
    BY <1>3 DEF Claim
  <2>2. TableHolds'
    BY <1>1, <2>1, TableStep DEF TableHolds, DedupInv
  <2>3. History' /\ MessageOnce'
    BY <1>1, <1>2, <2>1, Unreported
  <2> QED
    BY <1>1, <1>2, <2>2, <2>3 DEF DedupInv
<1>4. CASE Claimed(m, source)
  <2> DEFINE x == [source |-> source, at |-> now]  n == Len(emitted[m])
  <2>1. /\ n \in Nat /\ now \in Nat /\ Len(emitted'[m]) = n + 1
        /\ \A i \in 1..n : emitted'[m][i] = emitted[m][i]
        /\ emitted'[m][n + 1] = x
    <3>1. emitted \in [Messages -> Seq(Events)] /\ emitted' = [emitted EXCEPT ![m] = Append(@, x)]
      BY <1>4 DEF DedupInv, DedupTypes, Claim
    <3>2. emitted'[m] = Append(emitted[m], x) /\ emitted[m] \in Seq(Events) /\ now \in Nat
      BY <3>1 DEF DedupInv, DedupTypes
    <3> HIDE DEF x
    <3> QED
      BY <3>2
  <2>2. ASSUME NEW k \in Messages, k # m
        PROVE  emitted'[k] = emitted[k] /\ recent'[k] = Swept[k]
    BY <1>4, <2>2, SweptIs DEF DedupInv, DedupTypes, Claim
  <2>3. recent'[m] = x
    BY <1>4, SweptIs DEF DedupInv, Claim
  <2>4. TableHolds'
    <3>1. recent'[m] = emitted'[m][Len(emitted'[m])] /\ emitted'[m] # <<>>
      BY <2>1, <2>3
    <3>2. \A k \in Messages : k # m =>
            /\ emitted'[k] = <<>> => recent'[k].source = "none"
            /\ emitted'[k] # <<>> =>
                 \/ recent'[k] = emitted'[k][Len(emitted'[k])]
                 \/ recent'[k].source = "none" /\ emitted'[k][Len(emitted'[k])].at + Ttl < now'
      BY <1>1, <2>2, TableStep DEF DedupInv
    <3> QED
      BY <3>1, <3>2 DEF TableHolds
  <2>5. \A i \in 1..n :
          /\ emitted[m][i].at <= now
          /\ source = "upsert" => /\ emitted[m][i].at + Ttl < now
                                  /\ emitted[m][i].source = "insert"
                                  /\ emitted[m][i].at + Skew < stamp[m]
          /\ source = "insert" /\ emitted[m][i].source = "insert" => emitted[m][i].at + Ttl < now
    BY <1>4, BeforeAppended
  <2>6. /\ \A j \in 1..Len(emitted'[m]) : j \in 1..n \/ j = n + 1
        /\ \A j \in 1..n : \A i \in 1..(j - 1) : i \in 1..n
        /\ (n + 1) - 1 = n
    BY <2>1
  <2>7. x.source = source /\ x.at = now
    OBVIOUS
  <2> HIDE DEF x, n
  <2>8. History'
    <3>1. ASSUME NEW k \in Messages, k # m, NEW j \in 1..Len(emitted'[k])
          PROVE  /\ emitted'[k][j].at <= now'
                 /\ emitted'[k][j].source = "upsert" =>
                      cutoff' # 0 /\ since' <= stamp'[k] /\ stamp'[k] <= emitted'[k][j].at + Skew
                 /\ \A i \in 1..(j - 1) :
                      /\ emitted'[k][i].at <= emitted'[k][j].at
                      /\ emitted'[k][j].source = "upsert" => emitted'[k][i].at + Ttl < emitted'[k][j].at
      BY <1>1, <2>2, <3>1 DEF DedupInv, History
    <3>2. ASSUME NEW j \in 1..n
          PROVE  /\ emitted'[m][j].at <= now'
                 /\ emitted'[m][j].source = "upsert" =>
                      cutoff' # 0 /\ since' <= stamp'[m] /\ stamp'[m] <= emitted'[m][j].at + Skew
                 /\ \A i \in 1..(j - 1) :
                      /\ emitted'[m][i].at <= emitted'[m][j].at
                      /\ emitted'[m][j].source = "upsert" => emitted'[m][i].at + Ttl < emitted'[m][j].at
      BY <1>1, <2>1, <2>6 DEF DedupInv, History, n
    <3>3. /\ x.at <= now'
          /\ x.source = "upsert" =>
               cutoff' # 0 /\ since' <= stamp'[m] /\ stamp'[m] <= x.at + Skew
          /\ \A i \in 1..n :
               /\ emitted'[m][i].at <= x.at
               /\ x.source = "upsert" => emitted'[m][i].at + Ttl < x.at
      BY <1>1, <2>1, <2>5, <2>7
    <3> QED
      BY <2>1, <2>6, <3>1, <3>2, <3>3 DEF History
  <2>9. MessageOnce'
    <3>1. ASSUME NEW k \in Messages, NEW j \in 1..Len(emitted'[k]), emitted'[k][j].source = "upsert"
          PROVE  since' <= stamp'[k]
      BY <2>8, <3>1 DEF History
    <3>2. ASSUME NEW i \in 1..n
          PROVE  /\ x.source = "upsert" => /\ emitted'[m][i].source = "insert"
                                            /\ stamp'[m] > emitted'[m][i].at + Skew
                 /\ x.source = "insert" /\ emitted'[m][i].source = "insert" =>
                      x.at - emitted'[m][i].at > Ttl
      <4>1. emitted[m][i].at \in Nat /\ stamp[m] \in Nat
        <5>1. emitted[m] \in Seq(Events) /\ stamp[m] \in Nat
          BY DEF DedupInv, DedupTypes
        <5>2. emitted[m][i] \in Events
          BY <5>1 DEF n
        <5> QED
          BY <5>1, <5>2 DEF Events
      <4>2. emitted'[m][i] = emitted[m][i] /\ UNCHANGED stamp
        BY <1>1, <2>1
      <4>3. source = "upsert" => stamp[m] > emitted[m][i].at + Skew /\ emitted[m][i].source = "insert"
        BY <2>5, <4>1, Bounds
      <4>4. source = "insert" /\ emitted[m][i].source = "insert" => now - emitted[m][i].at > Ttl
        BY SMTT(30), <2>1, <2>5, <4>1, Bounds
      <4> QED
        BY <2>7, <4>2, <4>3, <4>4
    <3>3. ASSUME NEW j \in 1..n, NEW i \in 1..n, i < j
          PROVE  /\ emitted'[m][j].source = "upsert" => /\ emitted'[m][i].source = "insert"
                                            /\ stamp'[m] > emitted'[m][i].at + Skew
                 /\ emitted'[m][j].source = "insert" /\ emitted'[m][i].source = "insert" =>
                      emitted'[m][j].at - emitted'[m][i].at > Ttl
      BY <1>1, <2>1, <3>3 DEF DedupInv, MessageOnce, n
    <3>4. \A i, j \in 1..Len(emitted'[m]) : i < j => i \in 1..n
      BY <2>1
    <3>5. ASSUME NEW k \in Messages, NEW i \in 1..Len(emitted'[k]), NEW j \in 1..Len(emitted'[k]), i < j
          PROVE  /\ emitted'[k][j].source = "upsert" => /\ emitted'[k][i].source = "insert"
                                            /\ stamp'[k] > emitted'[k][i].at + Skew
                 /\ emitted'[k][j].source = "insert" /\ emitted'[k][i].source = "insert" =>
                      emitted'[k][j].at - emitted'[k][i].at > Ttl
      <4>1. CASE k = m /\ j \in 1..n
        BY <3>3, <3>4, <3>5, <4>1
      <4>2. CASE k = m /\ j = n + 1
        <5>1. i \in 1..n /\ emitted'[k][j] = x
          BY <2>1, <3>4, <3>5, <4>2
        <5> QED
          BY <3>2, <4>2, <5>1
      <4>3. CASE k # m
        BY <1>1, <2>2, <3>5, <4>3 DEF DedupInv, MessageOnce
      <4> QED
        BY <2>6, <4>1, <4>2, <4>3
    <3> QED
      BY <3>1, <3>5 DEF MessageOnce
  <2> QED
    BY <1>1, <1>2, <2>4, <2>8, <2>9 DEF DedupInv
<1> QED
  BY <1>3, <1>4

LEMMA DedupStep == DedupInv /\ [DedupNext]_dedupVars => DedupInv'
<1> SUFFICES ASSUME DedupInv, [DedupNext]_dedupVars PROVE DedupInv'
  OBVIOUS
<1>1. now \in Nat /\ cutoff \in Nat /\ since \in Nat /\ 0 < now /\ (cutoff # 0 => since <= cutoff)
  BY DEF DedupInv, DedupTypes, Window
<1>2. ASSUME UNCHANGED <<stamp, recent, emitted>>, now' = now \/ now' = now + 1, sweep' = sweep,
             Window', cutoff' \in Nat, since' \in Nat,
             cutoff' # 0 \/ cutoff' = cutoff, cutoff = 0 \/ since' = since
      PROVE  DedupInv'
  <2>1. DedupTypes'
    BY <1>1, <1>2 DEF DedupInv, DedupTypes
  <2>2. TableHolds'
    BY <1>2, TableStep DEF TableHolds, DedupInv
  <2>3. History' /\ MessageOnce'
    BY <1>2, Unreported
  <2> QED
    BY <1>2, <2>1, <2>2, <2>3 DEF DedupInv
<1>3. CASE UNCHANGED dedupVars
  <2>1. UNCHANGED <<now, stamp, cutoff, recent, sweep, emitted, since>>
    BY <1>3 DEF dedupVars
  <2> QED
    BY <1>1, <1>2, <2>1 DEF Window
<1>4. CASE Pass
  <2>1. UNCHANGED <<stamp, cutoff, recent, sweep, emitted, since>> /\ now' = now + 1
    BY <1>4 DEF Pass
  <2> QED
    BY <1>1, <1>2, <2>1 DEF Window
<1>5. CASE Connected
  <2>1. /\ UNCHANGED <<now, stamp, recent, sweep, emitted>> /\ cutoff' = Later(cutoff, now)
        /\ since' = IF cutoff = 0 THEN now ELSE since
    BY <1>5 DEF Connected
  <2>2. cutoff' \in Nat /\ cutoff' # 0 /\ since' <= cutoff' /\ since' \in Nat
    BY <1>1, <2>1 DEF Later
  <2>3. cutoff = 0 \/ since' = since
    BY <2>1
  <2> QED
    BY <1>1, <1>2, <2>1, <2>2, <2>3 DEF Window
<1>6. CASE Reconnected
  <2>1. UNCHANGED <<now, stamp, recent, sweep, emitted, since>> /\ cutoff # 0
        /\ cutoff' = Later(cutoff, now - Grace)
    BY <1>6 DEF Reconnected
  <2>2. cutoff' \in Nat /\ cutoff' # 0 /\ since <= cutoff'
    BY <1>1, <2>1, Bounds DEF Later
  <2> QED
    BY <1>1, <1>2, <2>1, <2>2 DEF Window
<1>7. ASSUME NEW m \in Messages, Insert(m) PROVE DedupInv'
  BY <1>7, ClaimStep DEF Insert
<1>8. ASSUME NEW m \in Messages, Upsert(m) PROVE DedupInv'
  <2>1. stamp[m] \in Nat /\ cutoff # 0 /\ stamp[m] \in Oldest..(now + Skew) /\ Claim(m, "upsert")
    BY <1>8 DEF Upsert, DedupInv, DedupTypes
  <2>2. Oldest \in Int /\ cutoff <= Oldest /\ now - Grace <= Oldest
    BY <1>1, Bounds DEF Oldest, Later
  <2>3. since <= stamp[m] /\ now - Grace <= stamp[m] /\ stamp[m] <= now + Skew
    BY <1>1, <2>1, <2>2, Bounds
  <2> QED
    BY <2>1, <2>3, ClaimStep
<1> QED
  BY <1>3, <1>4, <1>5, <1>6, <1>7, <1>8 DEF DedupNext

\* However often and in whatever form the server repeats a message,
\* claimMessageID and the window of openRealtimeMessageWindow let it be reported
\* as an upsert once, never after its insert nor from before the connection, and
\* as an insert again only after the table's lifetime.
THEOREM MessagesOnce == DedupSpec => []MessageOnce
<1>1. DedupInit => DedupInv
  <2> SUFFICES ASSUME DedupInit PROVE DedupInv
    OBVIOUS
  <2>1. Absent \in Entries /\ Absent.source = "none"
    BY DEF Absent, Entries
  <2>2. DedupTypes
    <3>1. stamp \in [Messages -> Nat]
      BY Bounds DEF DedupInit
    <3> QED
      BY <2>1, <3>1 DEF DedupInit, DedupTypes
  <2>3. \A m \in Messages : emitted[m] = <<>> /\ Len(emitted[m]) = 0 /\ recent[m] = Absent
    BY DEF DedupInit
  <2>4. History /\ MessageOnce
    BY <2>3 DEF History, MessageOnce
  <2> QED
    BY <2>1, <2>2, <2>3, <2>4 DEF DedupInit, DedupInv, Window, TableHolds
<1>2. DedupInv => MessageOnce
  BY DEF DedupInv
<1> QED
  BY <1>1, <1>2, DedupStep, PTL DEF DedupSpec

==============================================================================
