--------------------------- MODULE BotPipeline_proofs ---------------------------
(***************************************************************************)
(* What holds of the bot for every set of messages and chats, every size   *)
(* of the queue and of the table of ids, and every number of events: the   *)
(* two safety properties of BotPipeline.                                   *)
(***************************************************************************)
EXTENDS BotPipeline, TLAPS

----------------------------------------------------------------------------
(* The inductive invariant: what the queue, the table of ids and the notes of *)
(* the bot's own messages hold                                                *)

MessageIds == {m.id : m \in Messages}

Events == [n : Nat, m : Messages]

PipeTypes ==
  /\ inbox \in Seq(Messages) /\ queue \in Seq(Events)
  /\ arrived \in Nat /\ taken \in Nat /\ dropped \in Nat

\* Every event that came in is in the queue, in order, or was taken, or dropped
Numbered ==
  /\ \A i \in 1..Len(queue) : queue[i].n = arrived - Len(queue) + i
  /\ taken + dropped + Len(queue) = arrived

\* The table holds the latest ids that were run, Window of them at most
Latest(table, run) ==
  /\ table \in Seq(MessageIds) /\ run \in Seq(MessageIds)
  /\ Len(table) <= Window /\ Len(table) <= Len(run)
  /\ Len(table) < Window => Len(table) = Len(run)
  /\ \A k \in 1..Len(table) : table[k] = run[Len(run) - Len(table) + k]

\* An id is run again only after Window others
Apart(run) ==
  \A i, j \in 1..Len(run) : i < j /\ run[i] = run[j] => j - i > Window

Table ==
  Latest(recent, ran) /\ Apart(ran) /\ \A w \in wanted : \E i \in 1..Len(ran) : ran[i] = w

\* The messages of the bot are numbered as they are made
TalkTypes ==
  /\ sent \in Nat
  /\ lastBot \in [Chats -> Nat] /\ chat \in [Chats -> SUBSET Nat]
  /\ \A c \in Chats : \A n \in chat[c] : n <= sent

BotInv == PipeTypes /\ Numbered /\ Table /\ TalkTypes /\ UnsendTakesLast

----------------------------------------------------------------------------
(* Which action touches which part *)

LEMMA Untouched ==
  ASSUME [Next]_vars
  PROVE  /\ UNCHANGED <<inbox, queue, arrived, dropped, taken>> \/ Forward \/ QueueEvent \/ Dispatch
         /\ UNCHANGED <<recent, ran, wanted>> \/ Dispatch
         /\ UNCHANGED <<sent, lastBot, chat, doubt>> \/ Reply \/ Unsend
<1> USE DEF vars, pipe, talk, seen, Handled
<1>1. CASE ListenerUp \/ ListenerEnds
  BY <1>1 DEF ListenerUp, ListenerEnds
<1>2. CASE Forward \/ QueueEvent
  BY <1>2 DEF Forward, QueueEvent
<1>3. CASE Ready \/ NotReady \/ Poll \/ GetTimeout
  BY <1>3 DEF Ready, NotReady, Poll, Polls, GetTimeout
<1>4. CASE Dispatch
  BY <1>4 DEF Dispatch
<1>5. CASE Reply \/ NoBridge \/ Unsend
  BY <1>5 DEF Reply, NoBridge, Unsend
<1>6. CASE Cancel \/ Stop \/ JoinTimeout
  BY <1>6 DEF Cancel, Stop, JoinTimeout
<1>7. CASE Joined \/ Abandon \/ CancelCleanup
  BY <1>7 DEF Joined, Abandon, CancelCleanup
<1>8. CASE UNCHANGED vars
  BY <1>8
<1> QED
  BY <1>1, <1>2, <1>3, <1>4, <1>5, <1>6, <1>7, <1>8 DEF Next

----------------------------------------------------------------------------
(* The queue *)

LEMMA PutTypes ==
  ASSUME PipeTypes, NEW e \in Events, Put(e)
  PROVE  queue' \in Seq(Events) /\ dropped' \in Nat
<1>1. CASE Len(queue) < Cap
  BY <1>1 DEF PipeTypes, Put
<1>2. CASE ~(Len(queue) < Cap)
  <2>1. queue # <<>>
    BY <1>2, BotAssumption DEF PipeTypes
  <2>2. Tail(queue) \in Seq(Events)
    BY <2>1 DEF PipeTypes
  <2> QED
    BY <1>2, <2>2 DEF PipeTypes, Put
<1> QED
  BY <1>1, <1>2

LEMMA PutNumbered ==
  ASSUME PipeTypes, Numbered, NEW x \in Messages, Put([n |-> arrived + 1, m |-> x]),
         arrived' = arrived + 1, taken' = taken
  PROVE  Numbered'
<1> DEFINE e == [n |-> arrived + 1, m |-> x]
<1>1. e \in Events /\ e.n = arrived + 1
  BY DEF Events, PipeTypes
<1>2. queue \in Seq(Events) /\ Len(queue) \in Nat /\ arrived \in Nat /\ taken \in Nat /\ dropped \in Nat
  BY DEF PipeTypes
<1>3. Put(e)
  OBVIOUS
<1> HIDE DEF e
<1>4. CASE Len(queue) < Cap
  <2>1. queue' = Append(queue, e) /\ dropped' = dropped
    BY <1>3, <1>4 DEF Put
  <2>2. Len(queue') = Len(queue) + 1 /\ queue'[Len(queue) + 1] = e
        /\ \A i \in 1..Len(queue) : queue'[i] = queue[i]
    BY <1>1, <1>2, <2>1
  <2>3. \A i \in 1..Len(queue') : i \in 1..Len(queue) \/ i = Len(queue) + 1
    BY <1>2, <2>2
  <2>4. taken' + dropped' + Len(queue') = arrived'
    BY <1>2, <2>1, <2>2 DEF Numbered
  <2>5. arrived' - Len(queue') = arrived - Len(queue)
    BY <1>2, <2>2
  <2>6. ASSUME NEW i \in 1..Len(queue') PROVE queue'[i].n = arrived' - Len(queue') + i
    <3>1. CASE i \in 1..Len(queue)
      <4>1. queue'[i].n = arrived - Len(queue) + i
        BY <2>2, <3>1 DEF Numbered
      <4> QED
        BY <2>5, <4>1
    <3>2. CASE i = Len(queue) + 1
      <4>1. queue'[i].n = arrived + 1 /\ arrived' - Len(queue') + i = arrived - Len(queue) + (Len(queue) + 1)
        BY <1>1, <2>2, <2>5, <3>2
      <4> QED
        BY <1>2, <4>1
    <3> QED
      BY <2>3, <3>1, <3>2
  <2> QED
    BY <2>4, <2>6 DEF Numbered
<1>5. CASE ~(Len(queue) < Cap)
  <2>1. queue # <<>>
    BY <1>2, <1>5, BotAssumption
  <2>2. queue' = Append(Tail(queue), e) /\ dropped' = dropped + 1
    BY <1>3, <1>5 DEF Put
  <2>3. Tail(queue) \in Seq(Events) /\ Len(Tail(queue)) = Len(queue) - 1
        /\ \A i \in 1..(Len(queue) - 1) : Tail(queue)[i] = queue[i + 1]
    BY <1>2, <2>1
  <2>4. Len(queue') = Len(queue) /\ queue'[Len(queue)] = e
        /\ \A i \in 1..(Len(queue) - 1) : queue'[i] = queue[i + 1]
    BY <1>1, <1>2, <2>2, <2>3
  <2>5. taken' + dropped' + Len(queue') = arrived'
    <3> DEFINE l == Len(queue')
    <3>1. taken + dropped + Len(queue) = arrived /\ l = Len(queue)
      BY <2>4 DEF Numbered
    <3> HIDE DEF l
    <3>2. taken + (dropped + 1) + l = arrived + 1
      BY <1>2, <3>1
    <3>3. taken' = taken /\ dropped' = dropped + 1 /\ arrived' = arrived + 1
      BY <2>2
    <3> QED
      BY <3>2, <3>3 DEF l
  <2>6. arrived' - Len(queue') = arrived - Len(queue) + 1
    BY <1>2, <2>4
  <2>7. ASSUME NEW i \in 1..Len(queue') PROVE queue'[i].n = arrived' - Len(queue') + i
    <3>1. CASE i = Len(queue)
      BY <1>1, <1>2, <2>4, <2>6, <3>1
    <3>2. CASE i # Len(queue)
      <4>1. i \in 1..(Len(queue) - 1) /\ i + 1 \in 1..Len(queue)
        BY <1>2, <2>4, <3>2
      <4>2. queue'[i].n = arrived - Len(queue) + (i + 1)
        BY <2>4, <4>1 DEF Numbered
      <4> QED
        BY <1>2, <2>6, <4>1, <4>2
    <3> QED
      BY <3>1, <3>2
  <2> QED
    BY <2>5, <2>7 DEF Numbered
<1> QED
  BY <1>4, <1>5

LEMMA PipeStep == BotInv /\ [Next]_vars => PipeTypes' /\ Numbered'
<1> SUFFICES ASSUME BotInv, [Next]_vars PROVE PipeTypes' /\ Numbered'
  OBVIOUS
<1>1. PipeTypes /\ Numbered
  BY DEF BotInv
<1>2. CASE UNCHANGED <<inbox, queue, arrived, dropped, taken>>
  BY <1>1, <1>2 DEF PipeTypes, Numbered
<1>3. CASE Forward
  BY <1>1, <1>3 DEF Forward, PipeTypes, Numbered, seen
<1>4. CASE QueueEvent
  <2>1. inbox # <<>> /\ arrived' = arrived + 1 /\ inbox' = Tail(inbox) /\ taken' = taken
        /\ Put([n |-> arrived + 1, m |-> Head(inbox)])
    BY <1>4 DEF QueueEvent, seen
  <2>2. Head(inbox) \in Messages /\ Tail(inbox) \in Seq(Messages)
    BY <1>1, <2>1 DEF PipeTypes
  <2>3. [n |-> arrived + 1, m |-> Head(inbox)] \in Events
    BY <1>1, <2>2 DEF PipeTypes, Events
  <2>4. PipeTypes'
    BY <1>1, <2>1, <2>2, <2>3, PutTypes DEF PipeTypes
  <2> QED
    BY <1>1, <2>1, <2>2, <2>4, PutNumbered
<1>5. CASE Dispatch
  <2>1. queue # <<>> /\ queue' = Tail(queue) /\ taken' = taken + 1
        /\ UNCHANGED <<inbox, dropped, arrived>>
    BY <1>5 DEF Dispatch
  <2>2. queue \in Seq(Events) /\ Len(queue) \in Nat /\ arrived \in Nat /\ taken \in Nat /\ dropped \in Nat
    BY <1>1 DEF PipeTypes
  <2>3. /\ queue' \in Seq(Events) /\ Len(queue') = Len(queue) - 1
        /\ \A i \in 1..(Len(queue) - 1) : queue'[i] = queue[i + 1]
    BY <2>1, <2>2
  <2>4. PipeTypes'
    BY <1>1, <2>1, <2>2, <2>3 DEF PipeTypes
  <2>5. taken' + dropped' + Len(queue') = arrived'
    BY <1>1, <2>1, <2>2, <2>3 DEF Numbered
  <2>6. ASSUME NEW i \in 1..Len(queue') PROVE queue'[i].n = arrived' - Len(queue') + i
    <3>1. i \in 1..(Len(queue) - 1) /\ i + 1 \in 1..Len(queue)
      BY <2>2, <2>3
    <3>2. queue'[i].n = arrived - Len(queue) + (i + 1)
      BY <1>1, <2>3, <3>1 DEF Numbered
    <3> QED
      BY <2>1, <2>2, <2>3, <3>1, <3>2
  <2> QED
    BY <2>4, <2>5, <2>6 DEF Numbered
<1> QED
  BY <1>2, <1>3, <1>4, <1>5, Untouched

----------------------------------------------------------------------------
(* The table of ids *)

LEMMA LatestAppend ==
  ASSUME NEW table, NEW run, Latest(table, run), NEW i \in MessageIds
  PROVE  Latest(Append(IF Len(table) < Window THEN table ELSE Tail(table), i), Append(run, i))
<1>1. /\ table \in Seq(MessageIds) /\ run \in Seq(MessageIds) /\ Len(table) \in Nat /\ Len(run) \in Nat
      /\ Window \in Nat \ {0}
  BY BotAssumption DEF Latest
<1> DEFINE r == Append(run, i)
<1>2. /\ r \in Seq(MessageIds) /\ Len(r) = Len(run) + 1 /\ r[Len(run) + 1] = i
      /\ \A k \in 1..Len(run) : r[k] = run[k]
  BY <1>1
<1> HIDE DEF r
<1>3. CASE Len(table) < Window
  <2> DEFINE t == Append(table, i)
  <2>1. /\ t \in Seq(MessageIds) /\ Len(t) = Len(table) + 1 /\ t[Len(table) + 1] = i
        /\ \A k \in 1..Len(table) : t[k] = table[k]
    BY <1>1
  <2> HIDE DEF t
  <2>2. Len(table) = Len(run)
    BY <1>3 DEF Latest
  <2>3. ASSUME NEW k \in 1..Len(t) PROVE t[k] = r[Len(r) - Len(t) + k]
    <3>1. Len(r) - Len(t) + k = k
      BY <1>1, <1>2, <2>1, <2>2
    <3>2. CASE k \in 1..Len(table)
      <4>1. table[k] = run[Len(run) - Len(table) + k] /\ Len(run) - Len(table) + k = k
        BY <1>1, <2>2, <3>2 DEF Latest
      <4> QED
        BY <1>2, <2>1, <2>2, <3>1, <3>2, <4>1
    <3>3. CASE k = Len(table) + 1
      BY <1>2, <2>1, <2>2, <3>1, <3>3
    <3> QED
      BY <1>1, <2>1, <3>2, <3>3
  <2>4. Len(t) <= Window /\ Len(t) = Len(r)
    BY <1>1, <1>2, <1>3, <2>1, <2>2
  <2>5. Latest(t, r)
    BY <1>1, <1>2, <2>1, <2>3, <2>4 DEF Latest
  <2> QED
    BY <1>3, <2>5 DEF t, r
<1>4. CASE ~(Len(table) < Window)
  <2>1. Len(table) = Window /\ table # <<>>
    BY <1>1, <1>4 DEF Latest
  <2> DEFINE u == Tail(table)
  <2>2. u \in Seq(MessageIds) /\ Len(u) = Len(table) - 1 /\ \A k \in 1..(Len(table) - 1) : u[k] = table[k + 1]
    BY <1>1, <2>1
  <2> HIDE DEF u
  <2> DEFINE t == Append(u, i)
  <2>3. /\ t \in Seq(MessageIds) /\ Len(t) = Len(u) + 1 /\ t[Len(u) + 1] = i
        /\ \A k \in 1..Len(u) : t[k] = u[k]
    BY <2>2
  <2> HIDE DEF t
  <2>4. Len(t) = Len(table) /\ Len(table) <= Len(run)
    BY <1>1, <2>2, <2>3 DEF Latest
  <2>5. ASSUME NEW k \in 1..Len(t) PROVE t[k] = r[Len(r) - Len(t) + k]
    <3>1. CASE k \in 1..(Len(table) - 1)
      <4>1. k + 1 \in 1..Len(table) /\ k \in 1..Len(u)
        BY <1>1, <2>2, <3>1
      <4>2. t[k] = table[k + 1] /\ table[k + 1] = run[Len(run) - Len(table) + (k + 1)]
        BY <2>2, <2>3, <3>1, <4>1 DEF Latest
      <4>3. /\ Len(run) - Len(table) + (k + 1) = Len(r) - Len(t) + k
            /\ Len(r) - Len(t) + k \in 1..Len(run)
        BY <1>1, <1>2, <2>4, <3>1
      <4> QED
        BY <1>2, <4>2, <4>3
    <3>2. CASE k = Len(table)
      <4>1. Len(r) - Len(t) + k = Len(run) + 1 /\ k = Len(u) + 1
        BY <1>1, <1>2, <2>2, <2>4, <3>2
      <4> QED
        BY <1>2, <2>3, <4>1
    <3> QED
      BY <1>1, <2>4, <3>1, <3>2
  <2>6. Len(t) = Window /\ Len(t) <= Len(r)
    BY <1>1, <1>2, <2>1, <2>4
  <2>7. Latest(t, r)
    BY <1>1, <1>2, <2>3, <2>5, <2>6 DEF Latest
  <2> QED
    BY <1>4, <2>7 DEF t, u, r
<1> QED
  BY <1>3, <1>4

\* An id that is not in the table was not among the latest
LEMMA ApartAppend ==
  ASSUME NEW table, NEW run, Latest(table, run), Apart(run), NEW i \in MessageIds, ~Contains(table, i)
  PROVE  Apart(Append(run, i))
<1>1. /\ table \in Seq(MessageIds) /\ run \in Seq(MessageIds) /\ Len(table) \in Nat /\ Len(run) \in Nat
      /\ Window \in Nat
  BY BotAssumption DEF Latest
<1> DEFINE r == Append(run, i)
<1>2. Len(r) = Len(run) + 1 /\ r[Len(run) + 1] = i /\ \A k \in 1..Len(run) : r[k] = run[k]
  BY <1>1
<1> HIDE DEF r
<1>3. ASSUME NEW k \in 1..Len(run), run[k] = i PROVE Len(run) + 1 - k > Window
  <2>1. CASE k <= Len(run) - Len(table)
    BY <1>1, <2>1 DEF Latest
  <2>2. CASE k > Len(run) - Len(table)
    <3> DEFINE l == k - (Len(run) - Len(table))
    <3>1. l \in 1..Len(table) /\ Len(run) - Len(table) + l = k
      BY <1>1, <2>2
    <3> HIDE DEF l
    <3>2. table[l] = run[k]
      BY <3>1 DEF Latest
    <3>3. Contains(table, i)
      BY <1>3, <3>1, <3>2 DEF Contains
    <3> QED
      BY <3>3
  <2> QED
    BY <1>1, <2>1, <2>2
<1>4. ASSUME NEW k \in 1..Len(r), NEW l \in 1..Len(r), k < l, r[k] = r[l] PROVE l - k > Window
  <2>1. k \in 1..Len(run)
    BY <1>1, <1>2, <1>4
  <2>2. CASE l = Len(run) + 1
    BY <1>2, <1>3, <1>4, <2>1, <2>2
  <2>3. CASE l \in 1..Len(run)
    BY <1>2, <1>4, <2>1, <2>3 DEF Apart
  <2> QED
    BY <1>1, <1>2, <2>2, <2>3
<1>5. Apart(r)
  BY <1>4 DEF Apart
<1> QED
  BY <1>5 DEF r

LEMMA TableStep == BotInv /\ [Next]_vars => Table'
<1> SUFFICES ASSUME BotInv, [Next]_vars PROVE Table'
  OBVIOUS
<1>1. Table /\ PipeTypes
  BY DEF BotInv
<1>2. CASE UNCHANGED <<recent, ran, wanted>>
  BY <1>1, <1>2 DEF Table
<1>3. CASE Dispatch
  <2> DEFINE m == Head(queue).m
  <2>1. m \in Messages
    <3>1. queue # <<>> /\ queue \in Seq(Events)
      BY <1>1, <1>3 DEF Dispatch, PipeTypes
    <3>2. Head(queue) \in Events
      BY <3>1
    <3> QED
      BY <3>2 DEF Events
  <2>2. /\ wanted' = wanted \cup {i \in {m.id} : Wanted(m)}
        /\ IF Remembers(m) THEN Remember(m) ELSE recent' = recent
        /\ IF Wanted(m) /\ Fresh(m) THEN ran' = Append(ran, m.id) ELSE ran' = ran
    BY <1>3 DEF Dispatch
  <2> HIDE DEF m
  <2>3. m.id \in MessageIds
    BY <2>1 DEF MessageIds
  <2>4. CASE Wanted(m) /\ Fresh(m)
    <3>1. /\ recent' = Append(IF Len(recent) < Window THEN recent ELSE Tail(recent), m.id)
          /\ ran' = Append(ran, m.id) /\ ~Contains(recent, m.id)
      BY <2>2, <2>4 DEF Remembers, Remember, Fresh
    <3>2. Latest(recent', ran') /\ Apart(ran')
      BY <1>1, <2>3, <3>1, LatestAppend, ApartAppend DEF Table
    <3>3. \A w \in wanted' : \E i \in 1..Len(ran') : ran'[i] = w
      <4>1. ran \in Seq(MessageIds) /\ Len(ran) \in Nat
        BY <1>1 DEF Table, Latest
      <4>2. Len(ran') = Len(ran) + 1 /\ ran'[Len(ran) + 1] = m.id /\ \A i \in 1..Len(ran) : ran'[i] = ran[i]
        BY <2>3, <3>1, <4>1
      <4>3. Len(ran) + 1 \in 1..Len(ran') /\ \A i \in 1..Len(ran) : i \in 1..Len(ran')
        BY <4>1, <4>2
      <4>4. \A w \in wanted' : w \in wanted \/ w = m.id
        BY <2>2
      <4> QED
        BY <1>1, <4>2, <4>3, <4>4 DEF Table
    <3> QED
      BY <3>2, <3>3 DEF Table
  <2>5. CASE ~(Wanted(m) /\ Fresh(m))
    <3>1. recent' = recent /\ ran' = ran
      BY <2>2, <2>5 DEF Remembers
    <3>2. ASSUME NEW w \in wanted' PROVE \E i \in 1..Len(ran) : ran[i] = w
      <4>1. CASE w \in wanted
        BY <1>1, <4>1 DEF Table
      <4>2. CASE w = m.id /\ Wanted(m)
        <5>1. PICK k \in 1..Len(recent) : recent[k] = m.id
          BY <2>5, <4>2 DEF Fresh, Contains
        <5>2. /\ recent[k] = ran[Len(ran) - Len(recent) + k] /\ Len(recent) <= Len(ran)
              /\ Len(ran) \in Nat /\ Len(recent) \in Nat
          BY <1>1 DEF Table, Latest
        <5>3. Len(ran) - Len(recent) + k \in 1..Len(ran)
          BY <5>2
        <5> QED
          BY <4>2, <5>1, <5>2, <5>3
      <4> QED
        BY <2>2, <4>1, <4>2
    <3> QED
      BY <1>1, <3>1, <3>2 DEF Table
  <2> QED
    BY <2>4, <2>5
<1> QED
  BY <1>2, <1>3, Untouched

----------------------------------------------------------------------------
(* The bot's own messages *)

LEMMA ReplyStep == BotInv /\ Reply => TalkTypes' /\ UnsendTakesLast'
<1> SUFFICES ASSUME BotInv, NEW made \in BOOLEAN, NEW answered \in BOOLEAN, answered => made,
                    LET c == cur.chat
                    IN  IF made /\ c \in Chats
                        THEN /\ sent' = sent + 1 /\ chat' = [chat EXCEPT ![c] = @ \cup {sent + 1}]
                             /\ lastBot' = [lastBot EXCEPT ![c] = IF answered THEN sent + 1 ELSE @]
                             /\ doubt' = IF answered THEN doubt \ {c} ELSE doubt \cup {c}
                        ELSE UNCHANGED talk
             PROVE  TalkTypes' /\ UnsendTakesLast'
  BY DEF Reply
<1>1. TalkTypes /\ UnsendTakesLast
  BY DEF BotInv
<1> DEFINE c == cur.chat
<1>2. CASE ~(made /\ c \in Chats)
  BY <1>1, <1>2 DEF talk, TalkTypes, UnsendTakesLast
<1>3. CASE made /\ c \in Chats
  <2>1. sent' = sent + 1 /\ sent \in Nat
    BY <1>1, <1>3 DEF TalkTypes
  <2>2. \A d \in Chats : chat'[d] = IF d = c THEN chat[d] \cup {sent + 1} ELSE chat[d]
    BY <1>1, <1>3 DEF TalkTypes
  <2>3. \A d \in Chats : lastBot'[d] = IF d = c /\ answered THEN sent + 1 ELSE lastBot[d]
    BY <1>1, <1>3 DEF TalkTypes
  <2>4. chat' \in [Chats -> SUBSET Nat]
    BY <1>1, <1>3 DEF TalkTypes
  <2>5. lastBot' \in [Chats -> Nat]
    BY <1>1, <1>3 DEF TalkTypes
  <2>6. \A d \in Chats : d \notin doubt' => (d \notin doubt /\ d # c) \/ (d = c /\ answered)
    BY <1>3
  <2>7. \A d \in Chats : \A n \in chat'[d] : n <= sent'
    <3>1. ASSUME NEW d \in Chats, NEW n \in chat[d] PROVE n \in Nat /\ n <= sent /\ n <= sent + 1
      BY <1>1, <2>1 DEF TalkTypes
    <3>2. ASSUME NEW d \in Chats, NEW n \in chat'[d] PROVE n <= sent'
      <4>1. n \in chat[d] \/ n = sent + 1
        BY <2>2
      <4> QED
        BY <2>1, <3>1, <4>1
    <3> QED
      BY <3>2
  <2>8. ASSUME NEW d \in Chats \ doubt', lastBot'[d] # 0
        PROVE  lastBot'[d] \in chat'[d] /\ \A n \in chat'[d] : n <= lastBot'[d]
    <3>1. CASE d = c /\ answered
      BY <2>1, <2>2, <2>3, <2>7, <3>1
    <3>2. CASE d \notin doubt /\ d # c
      BY <1>1, <2>2, <2>3, <2>8, <3>2 DEF UnsendTakesLast
    <3> QED
      BY <2>6, <3>1, <3>2
  <2> QED
    BY <2>1, <2>4, <2>5, <2>7, <2>8 DEF TalkTypes, UnsendTakesLast
<1> QED
  BY <1>2, <1>3

LEMMA UnsendStep == BotInv /\ Unsend => TalkTypes' /\ UnsendTakesLast'
<1> SUFFICES ASSUME BotInv, NEW c, NEW made \in BOOLEAN, NEW answered \in BOOLEAN, answered => made,
                    chat' = [chat EXCEPT ![c] = IF made THEN @ \ {lastBot[c]} ELSE @],
                    IF answered THEN PopTarget(c) ELSE lastBot' = lastBot,
                    doubt' = IF made /\ ~answered THEN doubt \cup {c} ELSE doubt,
                    sent' = sent
             PROVE  TalkTypes' /\ UnsendTakesLast'
  BY DEF Unsend
<1>1. TalkTypes /\ UnsendTakesLast
  BY DEF BotInv
<1>2. \A d \in Chats : chat'[d] = IF d = c /\ made THEN chat[d] \ {lastBot[d]} ELSE chat[d]
  BY <1>1 DEF TalkTypes
<1>3. \A d \in Chats : lastBot'[d] = IF d = c /\ answered THEN 0 ELSE lastBot[d]
  BY <1>1 DEF TalkTypes, PopTarget
<1>4. chat' \in [Chats -> SUBSET Nat]
  BY <1>1 DEF TalkTypes
<1>5. lastBot' \in [Chats -> Nat]
  BY <1>1 DEF TalkTypes, PopTarget
<1>6. TalkTypes'
  BY <1>1, <1>2, <1>4, <1>5 DEF TalkTypes
<1>7. \A d \in Chats : d \notin doubt' => d \notin doubt /\ (d = c => ~made \/ answered)
  OBVIOUS
<1>8. UnsendTakesLast'
  BY <1>1, <1>2, <1>3, <1>7 DEF UnsendTakesLast
<1> QED
  BY <1>6, <1>8

LEMMA TalkStep == BotInv /\ [Next]_vars => TalkTypes' /\ UnsendTakesLast'
<1> SUFFICES ASSUME BotInv, [Next]_vars PROVE TalkTypes' /\ UnsendTakesLast'
  OBVIOUS
<1>1. CASE UNCHANGED <<sent, lastBot, chat, doubt>>
  BY <1>1 DEF BotInv, TalkTypes, UnsendTakesLast
<1> QED
  BY <1>1, ReplyStep, UnsendStep, Untouched

----------------------------------------------------------------------------

LEMMA BotInit == Init => BotInv
<1> SUFFICES ASSUME Init PROVE BotInv
  OBVIOUS
<1>1. PipeTypes /\ Numbered
  BY DEF Init, PipeTypes, Numbered
<1>2. Table
  BY BotAssumption DEF Init, Table, Latest, Apart
<1>3. TalkTypes /\ UnsendTakesLast
  BY DEF Init, TalkTypes, UnsendTakesLast
<1> QED
  BY <1>1, <1>2, <1>3 DEF BotInv

LEMMA BotAlways == Spec => []BotInv
<1>1. BotInv /\ [Next]_vars => BotInv'
  BY PipeStep, TableStep, TalkStep DEF BotInv
<1> QED
  BY <1>1, BotInit, PTL DEF Spec

\* A command is run once however often its event comes again, as long as fewer than
\* RECENT_MESSAGE_IDS_MAXSIZE others were run since: the table of _remember_message_id
\* holds the latest ids that were run, and no others; and every event that
\* _queue_event took is in the queue, in order, or was taken or counted.
THEOREM CommandsRunOnce == Spec => []EachCommandOnce
<1>1. BotInv => EachCommandOnce
  <2> SUFFICES ASSUME BotInv PROVE EachCommandOnce
    OBVIOUS
  <2>1. wanted \subseteq Range(ran)
    <3>1. ran \in Seq(MessageIds) /\ \A w \in wanted : \E i \in 1..Len(ran) : ran[i] = w
      BY DEF BotInv, Table, Latest
    <3>2. DOMAIN ran = 1..Len(ran)
      BY <3>1
    <3> QED
      BY <3>1, <3>2 DEF Range
  <2> QED
    BY <2>1 DEF BotInv, Table, Apart, Numbered, EachCommandOnce
<1> QED
  BY <1>1, BotAlways, PTL

\* What _cmd_unsend recalls is the newest of the bot's messages that are still in the
\* chat, unless an answer was lost there.
THEOREM RecallsTheLast == Spec => []UnsendTakesLast
<1>1. BotInv => UnsendTakesLast
  BY DEF BotInv
<1> QED
  BY <1>1, BotAlways, PTL

=============================================================================
