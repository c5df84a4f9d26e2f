--------------------------- MODULE MqttListener_proofs ---------------------------
(***************************************************************************)
(* What holds of the MQTT listener for every queue size, number of retries *)
(* and kind of delta, however many deltas come and links break: its two    *)
(* safety properties.                                                      *)
(***************************************************************************)
EXTENDS MqttListener, FiniteSetTheorems, TLAPS

----------------------------------------------------------------------------
(* The inductive invariant *)

NumberTypes ==
  /\ lastSeq \in Nat \cup {None} /\ asked \in Nat \cup {None} /\ pos \in Nat \cup {None}
  /\ top \in Nat /\ floor \in Nat

Payloads == [deltas : Seq(Nat), created : BOOLEAN, id : Nat \cup {None},
             error : {"none", "overflow", "other"}]

PayloadTypes == payload \in Payloads /\ cb \in {"idle", "put", "full", "again"}

BufferTypes == published \in Seq(Nat) /\ queue \in Seq(Nat) /\ got \in Seq(Nat)

\* The deltas that were handled: up to the number of the listener, or, while a
\* payload is published, up to what is left of it
Level ==
  IF cb # "idle" /\ payload.error = "none" THEN payload.id - Len(payload.deltas) ELSE lastSeq

\* The listener asks for what comes after its own number, and the server goes on
\* from there: nothing else moves the number, so a payload continues at the level
Continues ==
  /\ asked \in {None, lastSeq}
  /\ cb # "idle" => link = "up"
  /\ cb \in {"full", "again"} => payload.deltas # <<>>
  /\ cb = "idle" \/ payload.error = "other" => pos \in {None, lastSeq}
  /\ cb # "idle" /\ payload.error = "none" =>
       /\ asked = None /\ payload.id \in Nat /\ pos = payload.id /\ lastSeq <= Level
       /\ \A i \in 1..Len(payload.deltas) : payload.deltas[i] = Level + i
  /\ cb # "idle" /\ payload.error = "overflow" => asked = None /\ pos = None
  /\ payload.error # "none" => payload.deltas = <<>>

\* Before the run nothing has happened, and only loop_forever holds a link
Unused ==
  /\ link # "down" => run = "looping"
  /\ run = "new" => /\ cb = "idle" /\ asked = None /\ pos = None
                    /\ published = <<>> /\ queue = <<>> /\ got = <<>>

\* Up to the level every message was published, in order
InOrder(seq, level) ==
  /\ \A i \in 1..Len(seq) : seq[i] <= level
  /\ \A i \in 1..(Len(seq) - 1) : seq[i] < seq[i + 1] /\ (seq[i] + 1)..(seq[i + 1] - 1) \subseteq Others
  /\ seq # <<>> => (seq[Len(seq)] + 1)..level \subseteq Others

Below(seq, level) ==
  /\ \A i \in 1..Len(seq) : seq[i] <= level
  /\ \A i, j \in 1..Len(seq) : i < j => seq[i] < seq[j]

\* What was taken is older than what is in the queue
TakenInOrder(taken, waiting, level) ==
  /\ Below(taken, level) /\ Below(waiting, level)
  /\ \A i \in 1..Len(taken), j \in 1..Len(waiting) : taken[i] < waiting[j]

Counted == dropped \in Nat /\ IsFiniteSet(lost) /\ Cardinality(lost) <= dropped

Accounted(pub, taken, waiting, missed) ==
  \A i \in 1..Len(pub) :
    \/ \E j \in 1..Len(taken) : taken[j] = pub[i]
    \/ \E j \in 1..Len(waiting) : waiting[j] = pub[i]
    \/ pub[i] \in missed

Buffers ==
  /\ InOrder(published, Level) /\ TakenInOrder(got, queue, Level)
  /\ Accounted(published, got, queue, lost)

MqttInv ==
  /\ NumberTypes /\ PayloadTypes /\ BufferTypes
  /\ Continues /\ Unused /\ Buffers /\ Counted

----------------------------------------------------------------------------
(* Sequences of numbers *)

LEMMA AppendIs ==
  ASSUME NEW q \in Seq(Nat), NEW n \in Nat
  PROVE  /\ Append(q, n) \in Seq(Nat) /\ Len(Append(q, n)) = Len(q) + 1 /\ Append(q, n)[Len(q) + 1] = n
         /\ \A i \in 1..Len(q) : Append(q, n)[i] = q[i]
         /\ \A i \in 1..Len(Append(q, n)) : i \in 1..Len(q) \/ i = Len(q) + 1
OBVIOUS

LEMMA TailIs ==
  ASSUME NEW q \in Seq(Nat), q # <<>>
  PROVE  /\ Tail(q) \in Seq(Nat) /\ Len(Tail(q)) = Len(q) - 1
         /\ Head(q) = q[1] /\ Head(q) \in Nat /\ 1 \in 1..Len(q)
         /\ \A i \in 1..Len(Tail(q)) : i + 1 \in 1..Len(q) /\ Tail(q)[i] = q[i + 1]
OBVIOUS

LEMMA InOrderSkip ==
  ASSUME NEW p \in Seq(Nat), NEW l \in Int, InOrder(p, l), l + 1 \in Others
  PROVE  InOrder(p, l + 1)
<1>1. \A i \in 1..Len(p) : p[i] \in Nat /\ p[i] <= l /\ p[i] <= l + 1
  BY DEF InOrder
<1>2. p # <<>> => (p[Len(p)] + 1)..(l + 1) \subseteq Others
  <2> SUFFICES ASSUME p # <<>>, NEW n \in (p[Len(p)] + 1)..(l + 1) PROVE n \in Others
    OBVIOUS
  <2>1. Len(p) \in 1..Len(p)
    OBVIOUS
  <2>2. n = l + 1 \/ n \in (p[Len(p)] + 1)..l
    BY <1>1, <2>1
  <2> QED
    BY <2>2 DEF InOrder
<1> QED
  BY <1>1, <1>2 DEF InOrder

LEMMA InOrderAppend ==
  ASSUME NEW p \in Seq(Nat), NEW l \in Int, InOrder(p, l), l + 1 \in Nat
  PROVE  InOrder(Append(p, l + 1), l + 1)
<1> DEFINE r == Append(p, l + 1)
<1>1. /\ r \in Seq(Nat) /\ Len(r) = Len(p) + 1 /\ r[Len(p) + 1] = l + 1 /\ Len(p) \in Nat
      /\ \A i \in 1..Len(p) : r[i] = p[i] /\ p[i] \in Nat
      /\ \A i \in 1..Len(r) : i \in 1..Len(p) \/ i = Len(p) + 1
  BY AppendIs
<1> HIDE DEF r
<1>2. \A i \in 1..Len(p) : p[i] <= l /\ p[i] < l + 1
  BY <1>1 DEF InOrder
<1>3. \A i \in 1..Len(r) : r[i] <= l + 1
  BY <1>1, <1>2
<1>4. ASSUME NEW i \in 1..(Len(r) - 1)
      PROVE  r[i] < r[i + 1] /\ (r[i] + 1)..(r[i + 1] - 1) \subseteq Others
  <2>1. CASE i \in 1..(Len(p) - 1)
    <3>1. i \in 1..Len(p) /\ i + 1 \in 1..Len(p)
      BY <1>1, <2>1
    <3> QED
      BY <1>1, <2>1, <3>1 DEF InOrder
  <2>2. CASE i = Len(p)
    <3>1. i \in 1..Len(p) /\ p # <<>>
      BY <1>1, <2>2
    <3>2. r[i + 1] = l + 1 /\ r[i] = p[Len(p)] /\ (p[Len(p)] + 1)..l \subseteq Others
      BY <1>1, <2>2, <3>1 DEF InOrder
    <3>3. (l + 1) - 1 = l
      OBVIOUS
    <3> QED
      BY <1>2, <2>2, <3>1, <3>2, <3>3
  <2> QED
    BY <1>1, <2>1, <2>2
<1>5. (r[Len(r)] + 1)..(l + 1) \subseteq Others
  BY <1>1
<1>6. InOrder(r, l + 1)
  BY <1>3, <1>4, <1>5 DEF InOrder
<1> QED
  BY <1>6 DEF r

LEMMA TakenSkip ==
  ASSUME NEW g \in Seq(Nat), NEW q \in Seq(Nat), NEW l \in Int, TakenInOrder(g, q, l)
  PROVE  TakenInOrder(g, q, l + 1)
<1>1. \A i \in 1..Len(g) : g[i] \in Nat /\ g[i] <= l /\ g[i] <= l + 1
  BY DEF TakenInOrder, Below
<1>2. \A i \in 1..Len(q) : q[i] \in Nat /\ q[i] <= l /\ q[i] <= l + 1
  BY DEF TakenInOrder, Below
<1> QED
  BY <1>1, <1>2 DEF TakenInOrder, Below

LEMMA TakenAppend ==
  ASSUME NEW g \in Seq(Nat), NEW q \in Seq(Nat), NEW l \in Int, TakenInOrder(g, q, l), l + 1 \in Nat
  PROVE  TakenInOrder(g, Append(q, l + 1), l + 1)
<1> DEFINE r == Append(q, l + 1)
<1>1. /\ r \in Seq(Nat) /\ Len(r) = Len(q) + 1 /\ r[Len(q) + 1] = l + 1 /\ Len(q) \in Nat
      /\ \A i \in 1..Len(q) : r[i] = q[i]
      /\ \A i \in 1..Len(r) : i \in 1..Len(q) \/ i = Len(q) + 1
  BY AppendIs
<1> HIDE DEF r
<1>2. /\ \A i \in 1..Len(g) : g[i] \in Nat /\ g[i] <= l
      /\ \A i \in 1..Len(q) : q[i] \in Nat /\ q[i] <= l
  BY DEF TakenInOrder, Below
<1>2a. \A i \in 1..Len(r) : (i \in 1..Len(q) /\ r[i] \in Nat /\ r[i] <= l) \/ (i = Len(q) + 1 /\ r[i] = l + 1)
  BY <1>1, <1>2
<1>3. Below(g, l + 1)
  BY <1>2, TakenSkip DEF TakenInOrder
<1>4. Below(r, l + 1)
  <2>1. \A i \in 1..Len(r) : r[i] <= l + 1
    BY <1>2a
  <2>2. ASSUME NEW i \in 1..Len(r), NEW j \in 1..Len(r), i < j PROVE r[i] < r[j]
    <3>1. CASE j \in 1..Len(q)
      <4>1. i \in 1..Len(q)
        BY <1>1, <2>2, <3>1
      <4> QED
        BY <1>1, <2>2, <3>1, <4>1 DEF TakenInOrder, Below
    <3>2. CASE j = Len(q) + 1
      <4>1. i \in 1..Len(q)
        BY <1>1, <2>2, <3>2
      <4>2. r[i] \in Nat /\ r[i] <= l /\ r[j] = l + 1
        BY <1>1, <1>2, <3>2, <4>1
      <4> QED
        BY <4>2
    <3> QED
      BY <1>1, <3>1, <3>2
  <2> QED
    BY <2>1, <2>2 DEF Below
<1>5. \A i \in 1..Len(g), j \in 1..Len(r) : g[i] < r[j]
  <2> SUFFICES ASSUME NEW i \in 1..Len(g), NEW j \in 1..Len(r) PROVE g[i] < r[j]
    OBVIOUS
  <2>1. CASE j \in 1..Len(q)
    BY <1>1, <2>1 DEF TakenInOrder
  <2>2. CASE r[j] = l + 1
    BY <1>2, <2>2
  <2> QED
    BY <1>2a, <2>1, <2>2
<1>6. TakenInOrder(g, r, l + 1)
  BY <1>3, <1>4, <1>5 DEF TakenInOrder
<1> QED
  BY <1>6 DEF r

LEMMA TakenTail ==
  ASSUME NEW g \in Seq(Nat), NEW q \in Seq(Nat), NEW l \in Int, TakenInOrder(g, q, l), q # <<>>
  PROVE  TakenInOrder(g, Tail(q), l)
<1> DEFINE t == Tail(q)
<1>1. Len(q) \in Nat /\ \A i \in 1..Len(t) : i + 1 \in 1..Len(q) /\ t[i] = q[i + 1]
  BY TailIs
<1> HIDE DEF t
<1>2. \A i, j \in 1..Len(t) : i < j => i + 1 < j + 1
  BY <1>1
<1>3. Below(t, l)
  BY <1>1, <1>2 DEF TakenInOrder, Below
<1>4. TakenInOrder(g, t, l)
  BY <1>1, <1>3 DEF TakenInOrder
<1> QED
  BY <1>4 DEF t

LEMMA TakenMoves ==
  ASSUME NEW g \in Seq(Nat), NEW q \in Seq(Nat), NEW l \in Int, TakenInOrder(g, q, l), q # <<>>
  PROVE  TakenInOrder(Append(g, Head(q)), Tail(q), l)
<1> DEFINE t == Tail(q)
           h == Head(q)
           r == Append(g, h)
<1>1. /\ Len(q) \in Nat /\ h \in Nat /\ h = q[1] /\ 1 \in 1..Len(q)
      /\ \A i \in 1..Len(t) : i + 1 \in 1..Len(q) /\ t[i] = q[i + 1]
  BY TailIs
<1>2. TakenInOrder(g, t, l)
  BY TakenTail
<1> HIDE DEF t, h
<1>3. /\ Len(r) = Len(g) + 1 /\ r[Len(g) + 1] = h /\ Len(g) \in Nat
      /\ \A i \in 1..Len(g) : r[i] = g[i]
      /\ \A i \in 1..Len(r) : i \in 1..Len(g) \/ i = Len(g) + 1
  BY <1>1, AppendIs
<1> HIDE DEF r
<1>4. h <= l /\ (\A i \in 1..Len(g) : g[i] < h) /\ \A i \in 1..Len(t) : h < t[i]
  <2>1. ASSUME NEW i \in 1..Len(t) PROVE h < t[i]
    <3>1. i + 1 \in 1..Len(q) /\ 1 < i + 1
      BY <1>1
    <3> QED
      BY <1>1, <3>1 DEF TakenInOrder, Below
  <2> QED
    BY <1>1, <2>1 DEF TakenInOrder, Below
<1>5. Below(r, l)
  <2>1. \A i \in 1..Len(r) : r[i] <= l
    BY <1>3, <1>4 DEF TakenInOrder, Below
  <2>2. ASSUME NEW i \in 1..Len(r), NEW j \in 1..Len(r), i < j PROVE r[i] < r[j]
    <3>1. CASE j \in 1..Len(g)
      <4>1. i \in 1..Len(g)
        BY <1>3, <2>2, <3>1
      <4> QED
        BY <1>3, <2>2, <3>1, <4>1 DEF TakenInOrder, Below
    <3>2. CASE j = Len(g) + 1
      <4>1. i \in 1..Len(g)
        BY <1>3, <2>2, <3>2
      <4> QED
        BY <1>3, <1>4, <3>2, <4>1
    <3> QED
      BY <1>3, <3>1, <3>2
  <2> QED
    BY <2>1, <2>2 DEF Below
<1>6. \A i \in 1..Len(r), j \in 1..Len(t) : r[i] < t[j]
  BY <1>2, <1>3, <1>4 DEF TakenInOrder
<1>7. TakenInOrder(r, t, l)
  BY <1>2, <1>5, <1>6 DEF TakenInOrder
<1> QED
  BY <1>7 DEF r, t, h

LEMMA AccountedAppend ==
  ASSUME NEW p \in Seq(Nat), NEW g \in Seq(Nat), NEW q \in Seq(Nat), NEW m, Accounted(p, g, q, m),
         NEW n \in Nat
  PROVE  Accounted(Append(p, n), g, Append(q, n), m)
<1>1. ASSUME NEW i \in 1..Len(p) PROVE \/ \E j \in 1..Len(g) : g[j] = p[i]
                                       \/ \E j \in 1..Len(Append(q, n)) : Append(q, n)[j] = p[i]
                                       \/ p[i] \in m
  <2>1. \A j \in 1..Len(q) : j \in 1..Len(Append(q, n)) /\ Append(q, n)[j] = q[j]
    BY AppendIs
  <2> QED
    BY <2>1 DEF Accounted
<1>2. Len(q) + 1 \in 1..Len(Append(q, n)) /\ Append(q, n)[Len(q) + 1] = n
  BY AppendIs
<1>3. ASSUME NEW i \in 1..Len(Append(p, n))
      PROVE  (i \in 1..Len(p) /\ Append(p, n)[i] = p[i]) \/ Append(p, n)[i] = n
  BY AppendIs
<1> DEFINE r == Append(p, n)
           t == Append(q, n)
<1>4. /\ \A i \in 1..Len(r) : (i \in 1..Len(p) /\ r[i] = p[i]) \/ r[i] = n
      /\ \E j \in 1..Len(t) : t[j] = n
      /\ \A i \in 1..Len(p) :
           \/ \E j \in 1..Len(g) : g[j] = p[i]
           \/ \E j \in 1..Len(t) : t[j] = p[i]
           \/ p[i] \in m
  BY <1>1, <1>2, <1>3
<1> HIDE DEF r, t
<1>5. Accounted(r, g, t, m)
  BY <1>4 DEF Accounted
<1> QED
  BY <1>5 DEF r, t

LEMMA AccountedTail ==
  ASSUME NEW p, NEW g \in Seq(Nat), NEW q \in Seq(Nat), NEW m, Accounted(p, g, q, m), q # <<>>
  PROVE  /\ Accounted(p, g, Tail(q), m \cup {Head(q)})
         /\ Accounted(p, Append(g, Head(q)), Tail(q), m)
<1> DEFINE t == Tail(q)
           h == Head(q)
           r == Append(g, h)
<1>1. ASSUME NEW j \in 1..Len(q) PROVE q[j] = h \/ \E k \in 1..Len(t) : t[k] = q[j]
  <2>1. CASE j = 1
    BY <2>1, TailIs
  <2>2. CASE j # 1
    <3>1. j - 1 \in 1..Len(t) /\ (j - 1) + 1 = j
      BY <2>2, TailIs
    <3>2. t[j - 1] = q[j]
      BY <3>1, TailIs
    <3> QED
      BY <3>1, <3>2
  <2> QED
    BY <2>1, <2>2
<1>2. h \in Nat
  BY TailIs
<1> HIDE DEF t, h
<1>3. /\ Len(g) + 1 \in 1..Len(r) /\ r[Len(g) + 1] = h
      /\ \A i \in 1..Len(g) : i \in 1..Len(r) /\ r[i] = g[i]
  BY <1>2, AppendIs
<1> HIDE DEF r
<1>4. Accounted(p, g, t, m \cup {h})
  BY <1>1 DEF Accounted
<1>5. Accounted(p, r, t, m)
  <2> SUFFICES ASSUME NEW i \in 1..Len(p)
               PROVE  \/ \E j \in 1..Len(r) : r[j] = p[i]
                      \/ \E j \in 1..Len(t) : t[j] = p[i]
                      \/ p[i] \in m
    BY DEF Accounted
  <2>1. CASE \E j \in 1..Len(g) : g[j] = p[i]
    BY <1>3, <2>1
  <2>2. CASE \E j \in 1..Len(q) : q[j] = p[i]
    BY <1>1, <1>3, <2>2
  <2> QED
    BY <2>1, <2>2 DEF Accounted
<1> QED
  BY <1>4, <1>5 DEF t, h, r

----------------------------------------------------------------------------
(* The number of the listener and the level *)

Steady == NumberTypes' /\ PayloadTypes' /\ Continues' /\ Unused' /\ Level' = Level

LEMMA LevelType ==
  ASSUME NumberTypes, PayloadTypes PROVE Level \in Int
<1>1. payload.deltas \in Seq(Nat) /\ payload.id \in Int /\ lastSeq \in Int
  BY DEF NumberTypes, PayloadTypes, Payloads, None
<1> QED
  BY <1>1 DEF Level

\* A step that leaves the numbers and the callback alone, and moves the link at
\* most while the callback is idle
LEMMA ElsewhereSteady ==
  ASSUME MqttInv, UNCHANGED <<ids, asked, cb, payload, pos>>, UNCHANGED buffer,
         link' = link \/ cb = "idle", link' # "down" => run' = "looping",
         top' \in Nat, floor' \in Nat, run' = "new" => run = "new"
  PROVE  Steady
BY DEF MqttInv, NumberTypes, PayloadTypes, Continues, Unused, Level, Steady, ids, buffer

LEMMA LinkSteady ==
  ASSUME MqttInv, LinkUp \/ LinkLost \/ LoopEnds
  PROVE  Steady
<1>1. /\ run = "looping" /\ run' # "new" /\ UNCHANGED <<ids, cb, payload, top, floor>>
      /\ cb = "idle" /\ pos' = None /\ asked' \in {None, lastSeq}
  BY DEF LinkUp, LinkLost, LoopEnds, PublishPending, Refreshed, MqttInv, Continues, thread
<1>2. UNCHANGED lastSeq
  BY <1>1 DEF ids
<1>3. NumberTypes'
  BY <1>1, <1>2 DEF MqttInv, NumberTypes
<1>4. PayloadTypes' /\ Unused' /\ Level' = Level
  <2>1. link' # "down" => run' = "looping"
    BY <1>1 DEF LinkUp, LinkLost, LoopEnds, thread
  <2> QED
    BY <1>1, <1>2, <2>1 DEF MqttInv, PayloadTypes, Unused, Level
<1>5. Continues'
  BY <1>1, <1>2 DEF MqttInv, Continues
<1> QED
  BY <1>3, <1>4, <1>5 DEF Steady

\* Reachable: before an answer the level is the number of the listener
LEMMA AtRest ==
  ASSUME MqttInv, Reachable
  PROVE  /\ cb = "idle" /\ link = "up" /\ run = "looping" /\ Level = lastSeq
         /\ asked \in {None, lastSeq} /\ pos \in {None, lastSeq}
BY DEF MqttInv, Reachable, Continues, Level

LEMMA AnswerSteady ==
  ASSUME MqttInv, Answer
  PROVE  Steady
<1>1. /\ cb = "idle" /\ link = "up" /\ run = "looping" /\ Level = lastSeq /\ asked = lastSeq /\ asked # None
      /\ UNCHANGED <<run, link, lastSeq, top, floor>> /\ asked' = None /\ cb' = "put"
      /\ pos' = IF asked < floor THEN None ELSE asked
  BY AtRest DEF Answer, thread, ids
<1>2. /\ payload'.deltas = <<>> /\ payload'.id = asked
      /\ payload'.error = IF asked < floor THEN "overflow" ELSE "none"
  BY DEF Answer, NoPayload
<1>3. asked \in Nat
  BY <1>1 DEF MqttInv, NumberTypes
<1>4. payload' \in Payloads
  <2>1. payload'.created = (~token /\ asked >= floor)
    BY DEF Answer, NoPayload
  <2>2. payload' = [deltas |-> <<>>, created |-> (~token /\ asked >= floor), id |-> asked,
                    error |-> IF asked < floor THEN "overflow" ELSE "none"]
    BY DEF Answer, NoPayload
  <2> QED
    BY <1>3, <2>2 DEF Payloads
<1>5. NumberTypes'
  BY <1>1, <1>3 DEF MqttInv, NumberTypes
<1>6. PayloadTypes' /\ Unused'
  BY <1>1, <1>4 DEF PayloadTypes, Unused
<1>7. Level' = lastSeq
  BY <1>1, <1>2, <1>3 DEF Level
<1>8. Continues'
  BY <1>1, <1>2, <1>3, <1>7 DEF Continues
<1> QED
  BY <1>1, <1>5, <1>6, <1>7, <1>8 DEF Steady

LEMMA DeltasSteady ==
  ASSUME MqttInv, Deltas
  PROVE  Steady
<1>1. /\ cb = "idle" /\ link = "up" /\ run = "looping" /\ Level = lastSeq /\ pos = lastSeq /\ pos # None
      /\ asked = None /\ UNCHANGED <<run, link, lastSeq, asked, top, floor>> /\ cb' = "put"
  BY AtRest DEF Deltas, thread, ids
<1>2. pos \in Nat /\ top \in Nat
  BY <1>1 DEF MqttInv, NumberTypes
<1>3. PICK last \in (pos + 1)..top :
        /\ payload' = [NoPayload EXCEPT !.deltas = [i \in 1..(last - pos) |-> pos + i], !.id = last]
        /\ pos' = last
  BY DEF Deltas
<1> DEFINE n == last - pos
           q == [i \in 1..n |-> pos + i]
<1>4. last \in Nat /\ n \in Nat /\ last = pos + n
  BY <1>2
<1> HIDE DEF n
<1>5. q \in Seq(Nat) /\ Len(q) = n /\ \A i \in 1..n : q[i] = pos + i
  BY <1>2, <1>4
<1>6. payload' = [deltas |-> q, created |-> FALSE, id |-> last, error |-> "none"]
  BY <1>3 DEF NoPayload, n
<1> HIDE DEF q
<1>7. /\ payload'.deltas = q /\ payload'.id = last /\ payload'.error = "none"
      /\ payload' \in Payloads
  BY <1>4, <1>5, <1>6 DEF Payloads
<1>8. NumberTypes' /\ PayloadTypes' /\ Unused'
  BY <1>1, <1>3, <1>4, <1>7 DEF MqttInv, NumberTypes, PayloadTypes, Unused
<1>9. Level' = pos
  BY <1>1, <1>2, <1>4, <1>5, <1>7 DEF Level
<1>10. Continues'
  BY <1>1, <1>2, <1>3, <1>4, <1>5, <1>7, <1>9 DEF Continues
<1> QED
  BY <1>1, <1>8, <1>9, <1>10 DEF Steady

LEMMA ErrorSteady ==
  ASSUME MqttInv, OtherError
  PROVE  Steady
<1>1. /\ cb = "idle" /\ link = "up" /\ run = "looping" /\ Level = lastSeq /\ pos \in {None, lastSeq}
      /\ asked \in {None, lastSeq}
      /\ UNCHANGED <<run, link, lastSeq, asked, top, floor, pos>> /\ cb' = "put"
  BY AtRest DEF OtherError, thread, ids
<1>2. payload' = [deltas |-> <<>>, created |-> FALSE, id |-> None, error |-> "other"]
  BY DEF OtherError, NoPayload
<1>3. payload'.deltas = <<>> /\ payload'.error = "other" /\ payload' \in Payloads
  BY <1>2 DEF Payloads
<1>4. NumberTypes' /\ PayloadTypes' /\ Unused' /\ Level' = lastSeq
  BY <1>1, <1>3 DEF MqttInv, NumberTypes, PayloadTypes, Unused, Level
<1>5. Continues'
  BY <1>1, <1>3 DEF Continues
<1> QED
  BY <1>1, <1>4, <1>5 DEF Steady

LEMMA FinishSteady ==
  ASSUME MqttInv, Finish
  PROVE  Steady
<1>1. /\ cb = "put" /\ payload.deltas = <<>> /\ cb' = "idle" /\ payload' = NoPayload
      /\ UNCHANGED <<run, link, top, floor, pos>>
  BY DEF Finish, server
<1>2. run # "new"
  BY <1>1 DEF MqttInv, Unused
<1>3. payload' \in Payloads /\ payload'.error = "none" /\ payload'.deltas = <<>>
  BY <1>1 DEF Payloads, NoPayload
<1>4. Level' = lastSeq'
  BY <1>1 DEF Level
<1>5. CASE payload.error = "none" /\ Numbers /\ UNCHANGED asked
  <2>1. asked = None /\ payload.id \in Nat /\ pos = payload.id /\ lastSeq <= Level
    BY <1>1, <1>5 DEF MqttInv, Continues
  <2>2. Level = payload.id
    BY <1>1, <1>5, <2>1 DEF Level
  <2>3. lastSeq' = payload.id
    <3>1. payload.id # None
      BY <2>1 DEF None
    <3> QED
      BY <1>5, <2>1, <2>2, <3>1 DEF Numbers, SetLastSeq
  <2>4. NumberTypes' /\ PayloadTypes' /\ Unused'
    BY <1>1, <1>2, <1>3, <1>5, <2>1, <2>3 DEF MqttInv, NumberTypes, PayloadTypes, Unused
  <2>5. Continues'
    BY <1>1, <1>3, <1>5, <2>1, <2>3 DEF Continues
  <2> QED
    BY <1>4, <2>2, <2>3, <2>4, <2>5 DEF Steady
<1>6. CASE payload.error # "none" /\ lastSeq' = lastSeq /\ asked' \in {asked, lastSeq}
  <2>1. asked \in {None, lastSeq} /\ pos \in {None, lastSeq}
    <3>1. payload.error \in {"overflow", "other"}
      BY <1>6 DEF MqttInv, PayloadTypes, Payloads
    <3> QED
      BY <1>1, <3>1 DEF MqttInv, Continues
  <2>2. Level = lastSeq
    BY <1>6 DEF Level
  <2>3. NumberTypes' /\ PayloadTypes' /\ Unused'
    BY <1>1, <1>2, <1>3, <1>6, <2>1 DEF MqttInv, NumberTypes, PayloadTypes, Unused
  <2>4. Continues'
    BY <1>1, <1>3, <1>6, <2>1 DEF Continues
  <2> QED
    BY <1>4, <1>6, <2>2, <2>3, <2>4 DEF Steady
<1> QED
  BY <1>5, <1>6 DEF Finish, PublishPending, Refreshed

\* The next delta of a payload comes right after the level
LEMMA NextIs ==
  ASSUME MqttInv, cb \in {"put", "full", "again"}, payload.deltas # <<>>, NextDelta,
         UNCHANGED <<run, link, lastSeq, asked, top, floor, pos>>
  PROVE  /\ NumberTypes' /\ PayloadTypes' /\ Continues' /\ Unused'
         /\ Level' = Level + 1 /\ Head(payload.deltas) = Level + 1 /\ Level + 1 \in Nat
<1>1. payload.error = "none" /\ run = "looping" /\ link = "up"
  BY DEF MqttInv, Continues, Unused
<1> DEFINE q == payload.deltas
           id == payload.id
           t == Tail(q)
<1>2. q \in Seq(Nat) /\ id \in Nat /\ payload \in Payloads
  BY <1>1 DEF MqttInv, PayloadTypes, Payloads, Continues
<1>3. /\ asked = None /\ pos = id /\ lastSeq <= Level /\ Level = id - Len(q)
      /\ \A i \in 1..Len(q) : q[i] = Level + i
  BY <1>1 DEF MqttInv, Continues, Level
<1>4. payload' = [payload EXCEPT !.deltas = t] /\ cb' = "put"
  BY DEF NextDelta
<1>5. /\ t \in Seq(Nat) /\ Len(t) = Len(q) - 1 /\ Len(q) \in Nat
      /\ Head(q) = q[1] /\ Head(q) \in Nat /\ 1 \in 1..Len(q)
      /\ \A i \in 1..Len(t) : i + 1 \in 1..Len(q) /\ t[i] = q[i + 1]
  BY <1>2, TailIs
<1> HIDE DEF t
<1>6. /\ payload' \in Payloads /\ payload'.deltas = t /\ payload'.id = id /\ payload'.error = "none"
  BY <1>1, <1>2, <1>4, <1>5 DEF Payloads
<1> HIDE DEF q, id
<1>7. Head(q) = Level + 1
  BY <1>3, <1>5
<1>8. Level' = id - Len(t)
  BY <1>4, <1>6 DEF Level
<1>9. Level' = Level + 1 /\ Level \in Int
  BY <1>2, <1>3, <1>5, <1>8
<1>10. NumberTypes' /\ PayloadTypes' /\ Unused'
  BY <1>1, <1>4, <1>6 DEF MqttInv, NumberTypes, PayloadTypes, Unused
<1>11. lastSeq' <= Level'
  <2>1. lastSeq \in Int /\ lastSeq' = lastSeq
    BY DEF MqttInv, NumberTypes, None
  <2> QED
    BY <1>3, <1>9, <2>1
<1>12. \A i \in 1..Len(t) : t[i] = Level' + i
  <2>1. ASSUME NEW i \in 1..Len(t) PROVE t[i] = (Level + 1) + i
    <3>1. t[i] = Level + (i + 1)
      BY <1>3, <1>5
    <3> QED
      BY <1>5, <1>9, <3>1
  <2> QED
    BY <1>9, <2>1
<1>13. Continues'
  BY <1>1, <1>2, <1>3, <1>4, <1>6, <1>11, <1>12 DEF Continues
<1> QED
  BY <1>5, <1>7, <1>9, <1>10, <1>13 DEF q

----------------------------------------------------------------------------
(* Every step *)

LEMMA BuffersSame ==
  ASSUME MqttInv, Steady, UNCHANGED buffer
  PROVE  MqttInv'
<1>1. BufferTypes' /\ Counted'
  BY DEF MqttInv, BufferTypes, Counted, buffer
<1>2. Buffers'
  BY DEF MqttInv, Buffers, Steady, buffer
<1> QED
  BY <1>1, <1>2 DEF MqttInv, Steady

LEMMA SeqIdStep ==
  ASSUME MqttInv, GetLastSeqId
  PROVE  MqttInv'
<1>1. /\ run = "new" /\ lastSeq' = top /\ cb = "idle" /\ asked = None /\ pos = None
      /\ published = <<>> /\ queue = <<>> /\ got = <<>>
  BY DEF GetLastSeqId, MqttInv, Unused
<1>2. UNCHANGED <<run, link, asked, cb, payload, pos, top, floor, published, queue, got, dropped, lost>>
  BY DEF GetLastSeqId, thread, server, buffer
<1>3. NumberTypes' /\ PayloadTypes' /\ Unused' /\ BufferTypes' /\ Counted'
  BY <1>1, <1>2 DEF MqttInv, NumberTypes, PayloadTypes, Unused, BufferTypes, Counted
<1>4. Continues'
  BY <1>1, <1>2 DEF MqttInv, Continues
<1>5. Buffers'
  BY <1>1, <1>2 DEF Buffers, InOrder, TakenInOrder, Below, Accounted
<1> QED
  BY <1>3, <1>4, <1>5 DEF MqttInv

LEMMA PublishStep ==
  ASSUME MqttInv, cb \in {"put", "again"}, payload.deltas # <<>>, NextDelta,
         UNCHANGED <<run, link, lastSeq, asked, top, floor, pos, dropped, got, lost>>,
         Publish(Head(payload.deltas))
  PROVE  MqttInv'
<1>1. /\ NumberTypes' /\ PayloadTypes' /\ Continues' /\ Unused'
      /\ Level' = Level + 1 /\ Head(payload.deltas) = Level + 1 /\ Level + 1 \in Nat /\ Level \in Int
  BY NextIs, LevelType DEF MqttInv
<1>2. /\ published' = Append(published, Level + 1) /\ queue' = Append(queue, Level + 1)
      /\ got' = got /\ lost' = lost /\ dropped' = dropped
  BY <1>1 DEF Publish
<1>3. published \in Seq(Nat) /\ queue \in Seq(Nat) /\ got \in Seq(Nat)
  BY DEF MqttInv, BufferTypes
<1>4. BufferTypes' /\ Counted'
  BY <1>1, <1>2, <1>3 DEF MqttInv, BufferTypes, Counted
<1>5. InOrder(published, Level) /\ TakenInOrder(got, queue, Level) /\ Accounted(published, got, queue, lost)
  BY DEF MqttInv, Buffers
<1>6. InOrder(published', Level + 1)
  BY <1>1, <1>2, <1>3, <1>5, InOrderAppend
<1>7. TakenInOrder(got', queue', Level + 1)
  BY <1>1, <1>2, <1>3, <1>5, TakenAppend
<1>8. Accounted(published', got', queue', lost')
  BY <1>1, <1>2, <1>3, <1>5, AccountedAppend
<1>9. Buffers'
  BY <1>1, <1>6, <1>7, <1>8 DEF Buffers
<1> QED
  BY <1>1, <1>4, <1>9 DEF MqttInv

LEMMA PutStep ==
  ASSUME MqttInv, Put
  PROVE  MqttInv'
<1> DEFINE m == Head(payload.deltas)
<1>1. /\ cb = "put" /\ payload.deltas # <<>>
      /\ UNCHANGED <<run, link, lastSeq, asked, top, floor, pos, dropped, got, lost>>
  BY DEF Put, thread, ids, server
<1>2. CASE m \in Others /\ NextDelta /\ UNCHANGED <<queue, published>>
  <2>1. /\ NumberTypes' /\ PayloadTypes' /\ Continues' /\ Unused'
        /\ Level' = Level + 1 /\ m = Level + 1 /\ Level \in Int
    BY <1>1, <1>2, NextIs, LevelType DEF MqttInv
  <2>2. BufferTypes' /\ Counted'
    BY <1>1, <1>2 DEF MqttInv, BufferTypes, Counted
  <2>3. InOrder(published, Level + 1) /\ TakenInOrder(got, queue, Level + 1)
    BY <1>2, <2>1, InOrderSkip, TakenSkip DEF MqttInv, BufferTypes, Buffers
  <2>4. Buffers'
    BY <1>1, <1>2, <2>1, <2>3 DEF MqttInv, Buffers
  <2> QED
    BY <2>1, <2>2, <2>4 DEF MqttInv
<1>3. CASE NextDelta /\ Publish(m)
  BY <1>1, <1>3, PublishStep
<1>4. CASE cb' = "full" /\ UNCHANGED <<payload, queue, published>>
  <2>1. Level' = Level
    BY <1>1, <1>4 DEF Level
  <2>2. NumberTypes' /\ PayloadTypes' /\ Unused' /\ BufferTypes' /\ Counted'
    BY <1>1, <1>4 DEF MqttInv, NumberTypes, PayloadTypes, Unused, BufferTypes, Counted
  <2>3. Continues'
    BY <1>1, <1>4, <2>1 DEF MqttInv, Continues
  <2>4. Buffers'
    BY <1>1, <1>4, <2>1 DEF MqttInv, Buffers
  <2> QED
    BY <2>2, <2>3, <2>4 DEF MqttInv
<1> QED
  BY <1>2, <1>3, <1>4 DEF Put

LEMMA RemoveStep ==
  ASSUME MqttInv, RemoveOldest
  PROVE  MqttInv'
<1>1. /\ cb = "full" /\ cb' = "again" /\ dropped' = dropped + 1
      /\ UNCHANGED <<run, link, lastSeq, asked, top, floor, pos, payload, published, got>>
  BY DEF RemoveOldest, CountDropped, thread, ids, server
<1>2. Level' = Level /\ Level \in Int
  BY <1>1, LevelType DEF MqttInv, Level
<1>3. NumberTypes' /\ PayloadTypes' /\ Unused'
  BY <1>1 DEF MqttInv, NumberTypes, PayloadTypes, Unused
<1>4. Continues'
  BY <1>1, <1>2 DEF MqttInv, Continues
<1>5. dropped \in Nat /\ IsFiniteSet(lost) /\ Cardinality(lost) <= dropped /\ Cardinality(lost) \in Nat
  BY FS_CardinalityType DEF MqttInv, Counted
<1>6. CASE queue = <<>> /\ UNCHANGED <<queue, lost>>
  <2>1. BufferTypes' /\ Buffers'
    BY <1>1, <1>2, <1>6 DEF MqttInv, BufferTypes, Buffers
  <2>2. Cardinality(lost) <= dropped + 1 /\ dropped + 1 \in Nat
    BY <1>5
  <2>3. Counted'
    BY <1>1, <1>5, <1>6, <2>2 DEF Counted
  <2> QED
    BY <1>3, <1>4, <2>1, <2>3 DEF MqttInv
<1>7. CASE queue # <<>> /\ queue' = Tail(queue) /\ lost' = lost \cup {Head(queue)}
  <2>1. queue \in Seq(Nat) /\ got \in Seq(Nat) /\ published \in Seq(Nat)
    BY DEF MqttInv, BufferTypes
  <2>2. BufferTypes'
    BY <1>1, <1>7, <2>1, TailIs DEF BufferTypes
  <2>3. InOrder(published, Level) /\ TakenInOrder(got, queue, Level) /\ Accounted(published, got, queue, lost)
    BY DEF MqttInv, Buffers
  <2>4. TakenInOrder(got, queue', Level) /\ Accounted(published, got, queue', lost')
    BY <1>2, <1>7, <2>1, <2>3, TakenTail, AccountedTail
  <2>5. Buffers'
    BY <1>1, <1>2, <2>3, <2>4 DEF Buffers
  <2>6. /\ IsFiniteSet(lost \cup {Head(queue)})
        /\ Cardinality(lost \cup {Head(queue)}) \in {Cardinality(lost), Cardinality(lost) + 1}
    BY <1>5, FS_AddElement
  <2>7. Cardinality(lost \cup {Head(queue)}) <= dropped + 1 /\ dropped + 1 \in Nat
    BY <1>5, <2>6
  <2>8. Counted'
    BY <1>1, <1>7, <2>6, <2>7 DEF Counted
  <2> QED
    BY <1>3, <1>4, <2>2, <2>5, <2>8 DEF MqttInv
<1> QED
  BY <1>6, <1>7 DEF RemoveOldest

LEMMA AgainStep ==
  ASSUME MqttInv, PutAgain
  PROVE  MqttInv'
<1>1. cb = "again" /\ NextDelta /\ Publish(Head(payload.deltas))
  BY DEF PutAgain
<1>2. payload.deltas # <<>>
  BY <1>1 DEF MqttInv, Continues
<1>3. UNCHANGED <<run, link, lastSeq, asked, top, floor, pos, dropped, got, lost>>
  BY DEF PutAgain, thread, ids, server
<1> QED
  BY <1>1, <1>2, <1>3, PublishStep

LEMMA TakeStep ==
  ASSUME MqttInv, Take
  PROVE  MqttInv'
<1>1. /\ queue # <<>> /\ queue' = Tail(queue) /\ got' = Append(got, Head(queue))
      /\ UNCHANGED <<run, link, lastSeq, asked, top, floor, pos, cb, payload, published, dropped, lost>>
  BY DEF Take, thread, ids, server
<1>2. queue \in Seq(Nat) /\ got \in Seq(Nat) /\ published \in Seq(Nat)
  BY DEF MqttInv, BufferTypes
<1>3. Level' = Level /\ Level \in Int
  BY <1>1, LevelType DEF MqttInv, Level
<1>4. NumberTypes' /\ PayloadTypes' /\ Counted'
  BY <1>1 DEF MqttInv, NumberTypes, PayloadTypes, Counted
<1>5. Unused'
  BY <1>1 DEF MqttInv, Unused
<1>6. Continues'
  BY <1>1, <1>3 DEF MqttInv, Continues
<1>7. BufferTypes'
  BY <1>1, <1>2, TailIs DEF BufferTypes
<1>8. InOrder(published, Level) /\ TakenInOrder(got, queue, Level) /\ Accounted(published, got, queue, lost)
  BY DEF MqttInv, Buffers
<1>9. TakenInOrder(got', queue', Level) /\ Accounted(published, got', queue', lost)
  BY <1>1, <1>2, <1>3, <1>8, TakenMoves, AccountedTail
<1>10. Buffers'
  BY <1>1, <1>3, <1>8, <1>9 DEF Buffers
<1> QED
  BY <1>4, <1>5, <1>6, <1>7, <1>10 DEF MqttInv

LEMMA ElsewhereStep ==
  ASSUME MqttInv,
         \/ Start \/ Build \/ Connect \/ Dial \/ DialFails \/ Waited \/ Disconnect \/ Issue \/ Expire
         \/ UNCHANGED vars
  PROVE  MqttInv'
<1> USE DEF Start, Build, Connect, Dial, DialFails, Waited, Disconnect, Issue, Expire, vars, thread, server
<1>1. /\ UNCHANGED <<ids, asked, cb, payload, pos>> /\ UNCHANGED buffer
      /\ (run' = "new" => run = "new")
  OBVIOUS
<1>2. /\ link # "down" => run = "looping"
      /\ cb # "idle" => link = "up"
  BY DEF MqttInv, Unused, Continues
<1>3. link' # "down" => run' = "looping"
  BY <1>2
<1>4. link' = link \/ cb = "idle"
  BY <1>2
<1>5. top' \in {top, top + 1} /\ floor' \in {floor, top}
  OBVIOUS
<1>6. top' \in Nat /\ floor' \in Nat
  BY <1>5 DEF MqttInv, NumberTypes
<1> QED
  BY <1>1, <1>3, <1>4, <1>6, ElsewhereSteady, BuffersSame

LEMMA MqttStep == MqttInv /\ [Next]_vars => MqttInv'
<1> SUFFICES ASSUME MqttInv, [Next]_vars PROVE MqttInv'
  OBVIOUS
<1>1. CASE LinkUp \/ LinkLost \/ LoopEnds
  <2>1. UNCHANGED buffer
    BY <1>1 DEF LinkUp, LinkLost, LoopEnds
  <2> QED
    BY <1>1, <2>1, LinkSteady, BuffersSame
<1>2. CASE Answer \/ Deltas \/ OtherError \/ Finish
  <2>1. UNCHANGED buffer
    BY <1>2 DEF Answer, Deltas, OtherError, Finish
  <2> QED
    BY <1>2, <2>1, AnswerSteady, DeltasSteady, ErrorSteady, FinishSteady, BuffersSame
<1> QED
  BY <1>1, <1>2, SeqIdStep, PutStep, RemoveStep, AgainStep, TakeStep, ElsewhereStep DEF Next

LEMMA MqttInit == Init => MqttInv
<1> SUFFICES ASSUME Init PROVE MqttInv
  OBVIOUS
<1>1. NumberTypes /\ BufferTypes
  BY DEF Init, NumberTypes, BufferTypes
<1>2. PayloadTypes
  BY DEF Init, PayloadTypes, Payloads, NoPayload
<1>3. Continues /\ Unused
  BY DEF Init, Continues, Unused, NoPayload
<1>4. Buffers
  BY DEF Init, Buffers, InOrder, TakenInOrder, Below, Accounted
<1>5. Counted
  BY FS_EmptySet DEF Init, Counted
<1> QED
  BY <1>1, <1>2, <1>3, <1>4, <1>5 DEF MqttInv

LEMMA MqttAlways == Spec => []MqttInv
BY MqttInit, MqttStep, PTL DEF Spec

----------------------------------------------------------------------------
(* What holds of the MQTT listener *)

\* Over every lost link, overflow and restart of connect_mqtt_blocking the messages are
\* put in messageQueue in the order of the server's numbers, each once, and only
\* deltas that are no messages are left out: _set_last_seq_id and the number that
\* _publish_pending_queue asks for agree on where the listener is.
THEOREM NothingSkippedOrRepeated == Spec => []DeltasInOrder
<1>1. MqttInv => DeltasInOrder
  BY DEF MqttInv, Buffers, InOrder, DeltasInOrder
<1> QED
  BY <1>1, MqttAlways, PTL

\* What _publish_body_results removes from a full messageQueue is counted in
\* droppedMessages, whatever a consumer takes between put_nowait and get_nowait;
\* get_message hands the rest over in order.
THEOREM LossIsCounted == Spec => []LossCounted
<1>1. MqttInv => LossCounted
  <2> SUFFICES ASSUME MqttInv PROVE LossCounted
    OBVIOUS
  <2>1. published \in Seq(Nat) /\ queue \in Seq(Nat) /\ got \in Seq(Nat)
    BY DEF MqttInv, BufferTypes
  <2>2. /\ Range(published) = {published[i] : i \in 1..Len(published)}
        /\ Range(queue) = {queue[i] : i \in 1..Len(queue)}
        /\ Range(got) = {got[i] : i \in 1..Len(got)}
    BY <2>1 DEF Range
  <2>3. \A m \in Range(published) : m \in Range(got) \cup lost \cup Range(queue)
    BY <2>2 DEF MqttInv, Buffers, Accounted
  <2> QED
    BY <2>3 DEF MqttInv, Counted, Buffers, TakenInOrder, Below, LossCounted
<1> QED
  BY <1>1, MqttAlways, PTL

=============================================================================
