------------------------- MODULE DeviceStore_proofs -------------------------
(***************************************************************************)
(* What holds of every device store, however many addresses, pre-key ids   *)
(* and operations there are: the four safety properties of DeviceStore.    *)
(***************************************************************************)
EXTENDS DeviceStore, FiniteSetTheorems, TLAPS

----------------------------------------------------------------------------
(* The inductive invariant *)

\* What may be in memory or in a file after so many operations: every pre-key is
\* below the next id, none of those that were consumed is there, those that were
\* marked are known to be uploaded, and those that were handed out still have
\* their id to themselves
Fits(f, count, last, given, known, used) ==
  /\ f \in States /\ f.dev <= count /\ last <= f.by /\ f.by <= count
  /\ \A i \in Ids : f.pre[i] # 0 =>
       /\ i < f.next /\ f.pre[i] <= count
       /\ <<f.dev, i, f.pre[i]>> \notin used
       /\ <<f.dev, i, f.pre[i]>> \in known => i \in f.uploaded
  /\ \A i \in Ids, n \in Ops : <<f.dev, i, n>> \in given => i < f.next /\ (f.pre[i] = 0 \/ f.pre[i] = n)

Good(f) == Fits(f, ops, owed, handed, marked, consumed)

Requests == [kind : {"none", "create", "save", "mutate", "mark", "remove", "delete"}, id : 0..MaxId]

Types ==
  /\ place \in {"off", "idle", "writing", "synced", "renamed", "removing", "unlinked", "erasing"}
  /\ out \subseteq Ids /\ gone \in BOOLEAN /\ unlinked \in BOOLEAN /\ request \in Requests

\* What the world remembers was made by operations so far
MadeBy(count, last, given, known, used) ==
  /\ count \in 0..MaxOps /\ last \in 0..MaxOps /\ last <= count
  /\ given \subseteq Ops \X Ids \X Ops /\ known \subseteq given
  /\ used \subseteq Ops \X Ids \X Ops
  /\ \A d \in Ops, i \in Ids, n \in Ops :
       <<d, i, n>> \in given \/ <<d, i, n>> \in used => d <= count /\ n <= count

Recorded == MadeBy(ops, owed, handed, marked, consumed)

Images ==
  /\ visible \in images
  /\ \A f \in images : Good(f) \/ (f = NoFile /\ (unlinked \/ owed = 0))

Busy == place \in {"writing", "synced", "renamed"}

Memory ==
  /\ place = "off" => ram = NoFile
  /\ place # "off" /\ ~gone => Good(ram)
  /\ gone => place = "idle" /\ ram \in States /\ \A i \in Ids : ram.pre[i] = 0
  /\ prev = NoFile \/ (Busy /\ Good(prev))

\* The operation in hand
InHand ==
  /\ Busy /\ request.kind = "remove" =>
       prev # NoFile /\ ram.pre[request.id] = 0
  /\ Busy /\ request.kind = "mark" =>
       \A i \in Ids : ram.pre[i] # 0 /\ i <= request.id => i \in ram.uploaded
  /\ place = "renamed" => visible = Marshal(ram)

StoreInv == Types /\ Recorded /\ Images /\ Memory /\ InHand /\ IdNamesOneKey

----------------------------------------------------------------------------
(* The operators of the store *)

LEMMA Bounds ==
  /\ MaxId \in Nat /\ MaxOps \in Nat
  /\ \A i \in Ids : i \in Nat /\ 0 < i /\ i <= MaxId
  /\ \A n \in Ops : n \in Nat /\ 0 < n /\ n <= MaxOps
  /\ \A i \in Nat : 0 < i /\ i <= MaxId => i \in Ids
  /\ \A n \in Nat : 0 < n /\ n <= MaxOps => n \in Ops
BY DeviceStoreAssumption DEF Ids, Ops

LEMMA Fields ==
  ASSUME NEW s \in States
  PROVE  /\ s.dev \in Ops /\ s.pre \in [Ids -> 0..MaxOps] /\ s.uploaded \in SUBSET Ids
         /\ s.next \in 1..(MaxId + 1) /\ s.next \in Nat /\ s.by \in Ops /\ s # NoFile
         /\ \A i \in Ids : s.pre[i] # 0 => s.pre[i] \in Ops
<1>1. /\ s.dev \in Ops /\ s.pre \in [Ids -> 0..MaxOps] /\ s.uploaded \in SUBSET Ids
      /\ s.next \in 1..(MaxId + 1) /\ s.by \in Ops
  BY DEF States
<1>2. s.by # 0 /\ NoFile.by = 0
  BY <1>1, Bounds DEF NoFile
<1>3. \A i \in Ids : s.pre[i] # 0 => s.pre[i] \in Ops
  BY <1>1, Bounds DEF Ops
<1> QED
  BY <1>1, <1>2, <1>3, Bounds

LEMMA KeysOf ==
  ASSUME NEW s \in States
  PROVE  /\ \A k \in Keys(s) : \E i \in Ids : s.pre[i] # 0 /\ k = <<s.dev, i, s.pre[i]>>
         /\ \A i \in Ids : s.pre[i] # 0 => <<s.dev, i, s.pre[i]>> \in Keys(s)
BY DEF Keys

LEMMA MarshalIs ==
  ASSUME NEW s \in States
  PROVE  /\ Marshal(s) \in States /\ Marshal(s).dev = s.dev /\ Marshal(s).pre = s.pre
         /\ Marshal(s).next = s.next /\ Marshal(s).by = s.by
         /\ Marshal(s).uploaded = {i \in s.uploaded : s.pre[i] # 0}
BY DEF Marshal, States

LEMMA StampIs ==
  ASSUME NEW s \in States, NEW n \in Ops
  PROVE  LET t == [s EXCEPT !.by = n] IN
         /\ t \in States /\ t.dev = s.dev /\ t.pre = s.pre /\ t.next = s.next
         /\ t.uploaded = s.uploaded /\ t.by = n
BY DEF States

LEMMA CreatedIs ==
  ASSUME NEW n \in Ops
  PROVE  /\ Created(n) \in States /\ Created(n).dev = n /\ Created(n).by = n
         /\ \A i \in Ids : Created(n).pre[i] = 0
BY DeviceStoreAssumption DEF Created, States, Ops

\* MarshalIs for a state that is read back: its next id was right already
LEMMA LoadIs ==
  ASSUME NEW s \in States, \A i \in Ids : s.pre[i] # 0 => i < s.next
  PROVE  /\ Load(s) \in States /\ Load(s).dev = s.dev /\ Load(s).pre = s.pre
         /\ Load(s).next = s.next /\ Load(s).by = s.by
         /\ Load(s).uploaded = {i \in s.uploaded : s.pre[i] # 0}
<1> DEFINE used == {i + 1 : i \in {j \in Ids : s.pre[j] # 0}}
           top  == CHOOSE n \in used \cup {s.next} : \A m \in used \cup {s.next} : m <= n
<1>1. s.next \in Nat /\ \A m \in used : m \in Nat /\ m <= s.next
  BY Fields, Bounds
<1>2. \A m \in used \cup {s.next} : m <= s.next
  BY <1>1
<1>3. top \in used \cup {s.next} /\ \A m \in used \cup {s.next} : m <= top
  BY <1>2
<1>4. top = s.next
  <2>1. top \in Nat /\ s.next <= top /\ top <= s.next
    BY <1>1, <1>2, <1>3
  <2> HIDE DEF top
  <2> QED
    BY <1>1, <2>1
<1>5. Load(s) = [Marshal(s) EXCEPT !.next = s.next]
  BY <1>4 DEF Load
<1> HIDE DEF top, used
<1>6. Marshal(s) \in States /\ s.next \in 1..(MaxId + 1)
  BY MarshalIs, Fields
<1>7. /\ [Marshal(s) EXCEPT !.next = s.next] \in States
      /\ [Marshal(s) EXCEPT !.next = s.next].dev = Marshal(s).dev
      /\ [Marshal(s) EXCEPT !.next = s.next].pre = Marshal(s).pre
      /\ [Marshal(s) EXCEPT !.next = s.next].next = s.next
      /\ [Marshal(s) EXCEPT !.next = s.next].by = Marshal(s).by
      /\ [Marshal(s) EXCEPT !.next = s.next].uploaded = Marshal(s).uploaded
  BY <1>6 DEF States
<1> QED
  BY <1>5, <1>7, MarshalIs

\* A mutation that leaves the pre-keys alone
Untouched(s, t) ==
  t \in States /\ t.dev = s.dev /\ t.pre = s.pre /\ t.next = s.next /\ t.uploaded = s.uploaded

LEMMA SessionsIs ==
  ASSUME NEW s \in States, NEW a \in Addrs, NEW n \in Ops
  PROVE  Untouched(s, PutSession(s, a, n)) /\ Untouched(s, DeleteSession(s, a))
<1>1. Untouched(s, PutSession(s, a, n))
  BY DEF Untouched, PutSession, States, Ops
<1>2. Untouched(s, DeleteSession(s, a))
  BY DeviceStoreAssumption DEF Untouched, DeleteSession, States
<1> QED
  BY <1>1, <1>2

LEMMA MigrateIs ==
  ASSUME NEW s \in States, NEW a \in Addrs, NEW b \in Addrs
  PROVE  Untouched(s, Migrate(s, a, b))
<1>1. s.sess \in [Addrs -> 0..MaxOps] /\ 0 \in 0..MaxOps
  BY DeviceStoreAssumption DEF States
<1>2. Migrate(s, a, b).sess \in [Addrs -> 0..MaxOps]
  BY <1>1 DEF Migrate, States
<1> QED
  BY <1>2 DEF Untouched, Migrate, States

LEMMA NewKeysIs ==
  ASSUME NEW s \in States, NEW ids, NEW n \in Ops, Cardinality(ids) \in Nat,
         s.next + Cardinality(ids) <= MaxId + 1
  PROVE  /\ NewKeys(s, ids, n) \in States /\ NewKeys(s, ids, n).dev = s.dev
         /\ NewKeys(s, ids, n).pre = [i \in Ids |-> IF i \in ids THEN n ELSE s.pre[i]]
         /\ NewKeys(s, ids, n).next = s.next + Cardinality(ids)
         /\ NewKeys(s, ids, n).uploaded = s.uploaded
<1>1. [i \in Ids |-> IF i \in ids THEN n ELSE s.pre[i]] \in [Ids -> 0..MaxOps]
  BY Fields, DeviceStoreAssumption DEF Ops
<1>2. s.next + Cardinality(ids) \in 1..(MaxId + 1)
  BY Fields, DeviceStoreAssumption
<1>3. NewKeys(s, ids, n) \in States
  BY <1>1, <1>2 DEF NewKeys, States
<1>4. /\ NewKeys(s, ids, n).dev = s.dev /\ NewKeys(s, ids, n).uploaded = s.uploaded
      /\ NewKeys(s, ids, n).pre = [i \in Ids |-> IF i \in ids THEN n ELSE s.pre[i]]
      /\ NewKeys(s, ids, n).next = s.next + Cardinality(ids)
  BY DEF NewKeys, States
<1> QED
  BY <1>3, <1>4

LEMMA RemoveIs ==
  ASSUME NEW s \in States, NEW id \in Ids
  PROVE  /\ RemovePreKey(s, id) \in States /\ RemovePreKey(s, id).dev = s.dev
         /\ RemovePreKey(s, id).pre = [s.pre EXCEPT ![id] = 0]
         /\ RemovePreKey(s, id).next = s.next
         /\ RemovePreKey(s, id).uploaded = s.uploaded \ {id}
<1>1. [s.pre EXCEPT ![id] = 0] \in [Ids -> 0..MaxOps] /\ s.uploaded \ {id} \in SUBSET Ids
  BY Fields, DeviceStoreAssumption
<1>2. RemovePreKey(s, id) \in States
  BY <1>1 DEF RemovePreKey, States
<1> QED
  BY <1>2 DEF RemovePreKey, States

LEMMA MarkIs ==
  ASSUME NEW s \in States, NEW id \in Ids
  PROVE  /\ MarkUploaded(s, id) \in States /\ MarkUploaded(s, id).dev = s.dev
         /\ MarkUploaded(s, id).pre = s.pre /\ MarkUploaded(s, id).next = s.next
         /\ MarkUploaded(s, id).uploaded = s.uploaded \cup {i \in Ids : s.pre[i] # 0 /\ i <= id}
<1>1. s.uploaded \cup {i \in Ids : s.pre[i] # 0 /\ i <= id} \in SUBSET Ids
  BY Fields
<1> QED
  BY <1>1 DEF MarkUploaded, States

----------------------------------------------------------------------------
(* What a mutation may do to a state *)

\* Pre-keys stay, with their mark, or go, or are new under ids from next on
Follows(s, t, n) ==
  /\ t \in States /\ t.dev = s.dev /\ s.next <= t.next
  /\ \A i \in Ids : \/ t.pre[i] = 0
                    \/ t.pre[i] = s.pre[i] /\ (i \in s.uploaded => i \in t.uploaded)
                    \/ t.pre[i] = n /\ s.next <= i /\ i < t.next

LEMMA UntouchedFollows ==
  ASSUME NEW s \in States, NEW t, NEW n, Untouched(s, t) PROVE Follows(s, t, n)
BY Fields DEF Untouched, Follows

LEMMA RemoveFollows ==
  ASSUME NEW s \in States, NEW id \in Ids, NEW n PROVE Follows(s, RemovePreKey(s, id), n)
<1> DEFINE t == RemovePreKey(s, id)
<1>1. /\ s.pre \in [Ids -> 0..MaxOps] /\ s.next \in Nat /\ t \in States /\ t.dev = s.dev
      /\ t.pre = [s.pre EXCEPT ![id] = 0] /\ t.next = s.next /\ t.uploaded = s.uploaded \ {id}
  BY RemoveIs, Fields
<1> HIDE DEF t
<1>2. \A i \in Ids : t.pre[i] = IF i = id THEN 0 ELSE s.pre[i]
  BY <1>1
<1>3. Follows(s, t, n)
  BY <1>1, <1>2 DEF Follows
<1> QED
  BY <1>3 DEF t

LEMMA MarkFollows ==
  ASSUME NEW s \in States, NEW id \in Ids, NEW n PROVE Follows(s, MarkUploaded(s, id), n)
BY MarkIs, Fields DEF Follows

LEMMA GenOneFollows ==
  ASSUME NEW s \in States, NEW n \in Ops, s.next \in Ids PROVE Follows(s, GenOne(s, n), n)
<1> DEFINE k == NewKeys(s, {s.next}, n)
<1>1. Cardinality({s.next}) = 1
  BY FS_Singleton
<1>2. s.next + Cardinality({s.next}) <= MaxId + 1 /\ Cardinality({s.next}) \in Nat
  BY <1>1, Bounds
<1>3. /\ k \in States /\ k.dev = s.dev /\ k.next = s.next + 1 /\ k.uploaded = s.uploaded
      /\ k.pre = [i \in Ids |-> IF i \in {s.next} THEN n ELSE s.pre[i]]
  BY <1>1, <1>2, NewKeysIs
<1> HIDE DEF k
<1>4. GenOne(s, n) = [k EXCEPT !.uploaded = @ \cup {s.next}]
  BY DEF GenOne, k
<1>5. k.uploaded \cup {s.next} \in SUBSET Ids
  BY <1>3, Fields
<1>6. /\ [k EXCEPT !.uploaded = @ \cup {s.next}] \in States
      /\ [k EXCEPT !.uploaded = @ \cup {s.next}].dev = k.dev
      /\ [k EXCEPT !.uploaded = @ \cup {s.next}].pre = k.pre
      /\ [k EXCEPT !.uploaded = @ \cup {s.next}].next = k.next
      /\ [k EXCEPT !.uploaded = @ \cup {s.next}].uploaded = k.uploaded \cup {s.next}
  BY <1>3, <1>5 DEF States
<1> DEFINE t == GenOne(s, n)
<1>7. /\ t \in States /\ t.dev = s.dev /\ t.next = s.next + 1 /\ t.uploaded = s.uploaded \cup {s.next}
      /\ \A i \in Ids : t.pre[i] = IF i = s.next THEN n ELSE s.pre[i]
  BY <1>3, <1>4, <1>6
<1> HIDE DEF t
<1>8. Follows(s, t, n)
  BY <1>7, Fields DEF Follows
<1> QED
  BY <1>8 DEF t

LEMMA GetOrGenFollows ==
  ASSUME NEW s \in States, NEW n \in Ops, NEW count \in {1, 2}, Offers(s, count) \subseteq Ids,
         \A i \in Ids : s.pre[i] # 0 => i < s.next
  PROVE  Follows(s, GetOrGen(s, count, n), n)
<1> DEFINE waiting == {i \in Ids : s.pre[i] # 0 /\ i \notin s.uploaded}
           old     == {i \in waiting : Cardinality({j \in waiting : j < i}) < count}
           top     == s.next + count - Cardinality(old) - 1
           ids     == {i \in Offers(s, count) : i >= s.next}
<1>1. Cardinality(old) \in Nat
  <2>1. IsFiniteSet(1..MaxId)
    BY FS_Interval, DeviceStoreAssumption
  <2>2. IsFiniteSet(old)
    BY <2>1, FS_Subset DEF Ids
  <2> QED
    BY <2>2, FS_CardinalityType
<1>2. Offers(s, count) = old \cup s.next..top
  BY DEF Offers
<1>3. \A i \in old : i \in Nat /\ i < s.next
  BY Bounds
<1>4. s.next \in Nat /\ s.next \in 1..(MaxId + 1)
  BY Fields
<1> HIDE DEF old
<1>5. top \in Int
  BY <1>1, <1>4
<1> HIDE DEF top
<1>6. ids = s.next..top
  BY <1>2, <1>3, <1>4, <1>5
<1> HIDE DEF ids
<1>7. Cardinality(ids) = IF s.next > top THEN 0 ELSE top - s.next + 1
  <2>1. s.next \in Int /\ top \in Int
    BY <1>4, <1>5
  <2> QED
    BY <1>6, <2>1, FS_Interval
<1>8. s.next <= top => top \in Ids
  BY <1>2, <1>4, <1>5
<1>9. Cardinality(ids) \in Nat /\ s.next + Cardinality(ids) <= MaxId + 1
  BY <1>4, <1>5, <1>7, <1>8, Bounds
<1>10. \A i \in ids : s.next <= i /\ i < s.next + Cardinality(ids)
  BY <1>4, <1>5, <1>6, <1>7
<1> DEFINE t == NewKeys(s, ids, n)
<1>11. /\ t \in States /\ t.dev = s.dev /\ t.next = s.next + Cardinality(ids) /\ t.uploaded = s.uploaded
       /\ t.pre = [i \in Ids |-> IF i \in ids THEN n ELSE s.pre[i]]
  BY <1>9, NewKeysIs
<1>12. GetOrGen(s, count, n) = t
  BY DEF GetOrGen, ids
<1> HIDE DEF t
<1>13. Follows(s, t, n)
  <2>1. s.next <= t.next
    BY <1>4, <1>9, <1>11
  <2>2. \A i \in Ids : t.pre[i] = (IF i \in ids THEN n ELSE s.pre[i])
    BY <1>11
  <2> QED
    BY <1>10, <1>11, <2>1, <2>2 DEF Follows
<1> QED
  BY <1>12, <1>13

----------------------------------------------------------------------------
(* What fits goes on to fit *)

LEMMA FitsFollows ==
  ASSUME NEW o, NEW w, NEW g, NEW m, NEW c, MadeBy(o, w, g, m, c), o + 1 \in Ops,
         NEW s, Fits(s, o, w, g, m, c), NEW t, Follows(s, t, o + 1)
  PROVE  Fits([t EXCEPT !.by = o + 1], o + 1, w, g, m, c)
<1> DEFINE u == [t EXCEPT !.by = o + 1]
<1>1. t \in States /\ s \in States
  BY DEF Follows, Fits
<1>2. /\ u \in States /\ u.dev = t.dev /\ u.pre = t.pre /\ u.next = t.next
      /\ u.uploaded = t.uploaded /\ u.by = o + 1
  BY <1>1, StampIs
<1> HIDE DEF u
<1>3. o \in Nat /\ w \in Nat /\ w <= o
  BY Bounds DEF MadeBy
<1>4. u.dev <= o + 1 /\ w <= u.by /\ u.by <= o + 1 /\ u.dev = s.dev /\ s.next <= u.next
  BY <1>1, <1>2, <1>3, Fields, Bounds DEF Fits, Follows
<1>5. ASSUME NEW i \in Ids, u.pre[i] # 0
      PROVE  /\ i < u.next /\ u.pre[i] <= o + 1
             /\ <<u.dev, i, u.pre[i]>> \notin c
             /\ <<u.dev, i, u.pre[i]>> \in m => i \in u.uploaded
  <2>1. CASE u.pre[i] = s.pre[i] /\ (i \in s.uploaded => i \in u.uploaded)
    <3>1. i < s.next /\ s.pre[i] <= o /\ <<s.dev, i, s.pre[i]>> \notin c
          /\ (<<s.dev, i, s.pre[i]>> \in m => i \in s.uploaded)
      BY <1>5, <2>1 DEF Fits
    <3>2. i \in Nat /\ s.next \in Nat /\ u.next \in Nat /\ s.pre[i] \in Nat
      BY <1>1, <1>2, <1>5, <2>1, Fields, Bounds
    <3>3. i < u.next /\ u.pre[i] <= o + 1
      BY <1>3, <1>4, <2>1, <3>1, <3>2
    <3> QED
      BY <1>4, <2>1, <3>1, <3>3
  <2>2. CASE u.pre[i] = o + 1 /\ i < u.next
    <3>1. u.dev \in Ops /\ u.pre[i] \in Ops /\ ~(u.pre[i] <= o)
      BY <1>2, <1>3, <2>2, Fields
    <3>2. <<u.dev, i, u.pre[i]>> \notin c /\ <<u.dev, i, u.pre[i]>> \notin g
      BY <3>1 DEF MadeBy
    <3> QED
      BY <1>3, <2>2, <3>2 DEF MadeBy
  <2> QED
    BY <1>2, <1>5, <2>1, <2>2 DEF Follows
<1>6. ASSUME NEW i \in Ids, NEW n \in Ops, <<u.dev, i, n>> \in g
      PROVE  i < u.next /\ (u.pre[i] = 0 \/ u.pre[i] = n)
  <2>1. i < s.next /\ (s.pre[i] = 0 \/ s.pre[i] = n)
    BY <1>4, <1>6 DEF Fits
  <2>2. i \in Nat /\ s.next \in Nat /\ u.next \in Nat
    BY <1>1, <1>2, Fields, Bounds
  <2>3. i < u.next /\ ~(s.next <= i)
    BY <1>4, <2>1, <2>2
  <2> QED
    BY <1>2, <2>1, <2>3 DEF Follows
<1>7. Fits(u, o + 1, w, g, m, c)
  BY <1>2, <1>4, <1>5, <1>6 DEF Fits
<1> QED
  BY <1>7 DEF u

LEMMA FitsLater ==
  ASSUME NEW o \in Nat, NEW w, NEW g, NEW m, NEW c, NEW f, Fits(f, o, w, g, m, c)
  PROVE  Fits(f, o + 1, w, g, m, c)
<1>1. f \in States
  BY DEF Fits
<1>2. f.dev <= o + 1 /\ f.by <= o + 1
  BY <1>1, Fields, Bounds DEF Fits
<1>3. \A i \in Ids : f.pre[i] # 0 => f.pre[i] <= o + 1
  <2>1. ASSUME NEW i \in Ids, f.pre[i] # 0 PROVE f.pre[i] <= o + 1
    <3>1. f.pre[i] \in Nat /\ f.pre[i] <= o
      BY <1>1, <2>1, Fields, Bounds DEF Fits
    <3> QED
      BY <3>1
  <2> QED
    BY <2>1
<1> QED
  BY <1>2, <1>3 DEF Fits

\* What is written or read back has the same pre-keys and the marks that matter
LEMMA FitsSame ==
  ASSUME NEW o, NEW w, NEW g, NEW m, NEW c, NEW s, Fits(s, o, w, g, m, c),
         NEW t \in States, t.dev = s.dev, t.pre = s.pre, t.next = s.next, t.by = s.by,
         t.uploaded = {i \in s.uploaded : s.pre[i] # 0}
  PROVE  Fits(t, o, w, g, m, c)
BY DEF Fits

LEMMA FitsMarshal ==
  ASSUME NEW o, NEW w, NEW g, NEW m, NEW c, NEW s, Fits(s, o, w, g, m, c)
  PROVE  Fits(Marshal(s), o, w, g, m, c)
<1>1. s \in States
  BY DEF Fits
<1> QED
  BY <1>1, MarshalIs, FitsSame

LEMMA FitsLoad ==
  ASSUME NEW o, NEW w, NEW g, NEW m, NEW c, NEW s, Fits(s, o, w, g, m, c)
  PROVE  Fits(Load(s), o, w, g, m, c)
<1>1. s \in States /\ \A i \in Ids : s.pre[i] # 0 => i < s.next
  BY DEF Fits
<1> QED
  BY <1>1, LoadIs, FitsSame

\* A new device has a number of its own
LEMMA FitsCreated ==
  ASSUME NEW o, NEW w, NEW g, NEW m, NEW c, MadeBy(o, w, g, m, c), o + 1 \in Ops
  PROVE  Fits(Created(o + 1), o + 1, w, g, m, c)
<1> DEFINE t == Created(o + 1)
<1>1. t \in States /\ t.dev = o + 1 /\ t.by = o + 1 /\ \A i \in Ids : t.pre[i] = 0
  BY CreatedIs
<1> HIDE DEF t
<1>2. o \in Nat /\ w \in Nat /\ w <= o
  BY Bounds DEF MadeBy
<1>3. \A i \in Ids, n \in Ops : <<t.dev, i, n>> \notin g
  BY <1>1, <1>2 DEF MadeBy
<1>4. t.dev <= o + 1 /\ w <= t.by /\ t.by <= o + 1
  BY <1>1, <1>2
<1>5. Fits(t, o + 1, w, g, m, c)
  BY <1>1, <1>3, <1>4 DEF Fits
<1> QED
  BY <1>5 DEF t

\* A success is remembered: more keys are handed, marked and consumed
LEMMA FitsDone ==
  ASSUME NEW o, NEW w, NEW g, NEW m, NEW c, MadeBy(o, w, g, m, c), NEW s, Fits(s, o, w, g, m, c),
         NEW h, \A k \in h : k \in g \/ k \in Keys(s),
         NEW l, \A k \in l : k \in m \/ (k \in Keys(s) => k[2] \in s.uploaded),
         NEW d, \A k \in d : k \in c \/ k \notin Keys(s)
  PROVE  Fits(s, o, s.by, h, l, d)
<1>1. s \in States /\ s.by \in Nat /\ s.by <= s.by
  BY Fields, Bounds DEF Fits
<1>2. ASSUME NEW i \in Ids, s.pre[i] # 0
      PROVE  /\ <<s.dev, i, s.pre[i]>> \notin d
             /\ <<s.dev, i, s.pre[i]>> \in l => i \in s.uploaded
  <2>1. <<s.dev, i, s.pre[i]>> \in Keys(s) /\ <<s.dev, i, s.pre[i]>>[2] = i
    BY <1>1, <1>2, KeysOf
  <2> QED
    BY <1>2, <2>1 DEF Fits
<1>3. ASSUME NEW i \in Ids, NEW n \in Ops, <<s.dev, i, n>> \in h
      PROVE  i < s.next /\ (s.pre[i] = 0 \/ s.pre[i] = n)
  <2>1. CASE <<s.dev, i, n>> \in g
    BY <2>1 DEF Fits
  <2>2. CASE <<s.dev, i, n>> \in Keys(s)
    <3>1. PICK j \in Ids : s.pre[j] # 0 /\ <<s.dev, i, n>> = <<s.dev, j, s.pre[j]>>
      BY <1>1, <2>2, KeysOf
    <3> QED
      BY <3>1 DEF Fits
  <2> QED
    BY <1>3, <2>1, <2>2
<1> QED
  BY <1>1, <1>2, <1>3 DEF Fits

LEMMA DoneIsRecorded ==
  ASSUME NEW o, NEW w, NEW g, NEW m, NEW c, MadeBy(o, w, g, m, c), NEW s, Fits(s, o, w, g, m, c),
         NEW h, g \subseteq h, \A k \in h : k \in g \/ k \in Keys(s),
         NEW l, l \subseteq h,
         NEW d, \A k \in d : k \in c \/ \E f : Fits(f, o, w, g, m, c) /\ k \in Keys(f)
  PROVE  MadeBy(o, s.by, h, l, d)
<1>1. ASSUME NEW f, Fits(f, o, w, g, m, c), NEW k \in Keys(f)
      PROVE  /\ k \in Ops \X Ids \X Ops
             /\ \A e \in Ops, i \in Ids, n \in Ops : k = <<e, i, n>> => e <= o /\ n <= o
  <2>1. f \in States
    BY <1>1 DEF Fits
  <2>2. PICK j \in Ids : f.pre[j] # 0 /\ k = <<f.dev, j, f.pre[j]>>
    BY <1>1, <2>1, KeysOf
  <2>3. f.dev \in Ops /\ f.pre[j] \in Ops /\ f.dev <= o /\ f.pre[j] <= o
    BY <1>1, <2>1, <2>2, Fields DEF Fits
  <2> QED
    BY <2>2, <2>3
<1>2. \A k \in h : k \in Ops \X Ids \X Ops
  BY <1>1 DEF MadeBy
<1>3. \A k \in d : k \in Ops \X Ids \X Ops
  BY <1>1 DEF MadeBy
<1>4. ASSUME NEW e \in Ops, NEW i \in Ids, NEW n \in Ops, <<e, i, n>> \in h \/ <<e, i, n>> \in d
      PROVE  e <= o /\ n <= o
  BY <1>1, <1>4 DEF MadeBy
<1>5. s.by \in 0..MaxOps /\ s.by <= o
  <2>1. s \in States /\ s.by <= o
    BY DEF Fits
  <2> QED
    BY <2>1, Fields, Bounds
<1> QED
  BY <1>2, <1>3, <1>4, <1>5 DEF MadeBy

\* A key that is handed has its id to itself
LEMMA HandedAlone ==
  ASSUME NEW o, NEW w, NEW g, NEW m, NEW c, MadeBy(o, w, g, m, c), NEW s, Fits(s, o, w, g, m, c),
         \A k, l \in g : k[1] = l[1] /\ k[2] = l[2] => k = l,
         NEW h, \A k \in h : k \in g \/ k \in Keys(s)
  PROVE  \A k, l \in h : k[1] = l[1] /\ k[2] = l[2] => k = l
<1>1. s \in States
  BY DEF Fits
<1>2. ASSUME NEW k \in Keys(s), NEW l \in g, k[1] = l[1], k[2] = l[2] PROVE k = l
  <2>1. PICK j \in Ids : s.pre[j] # 0 /\ k = <<s.dev, j, s.pre[j]>>
    BY <1>1, KeysOf
  <2>2. PICK e \in Ops, i \in Ids, n \in Ops : l = <<e, i, n>>
    BY DEF MadeBy
  <2>3. e = s.dev /\ i = j
    BY <1>2, <2>1, <2>2
  <2>4. s.pre[j] = n
    BY <2>1, <2>2, <2>3 DEF Fits
  <2> QED
    BY <2>1, <2>2, <2>3, <2>4
<1>3. ASSUME NEW k \in Keys(s), NEW l \in Keys(s), k[1] = l[1], k[2] = l[2] PROVE k = l
  <2>1. PICK i \in Ids : s.pre[i] # 0 /\ k = <<s.dev, i, s.pre[i]>>
    BY <1>1, KeysOf
  <2>2. PICK j \in Ids : s.pre[j] # 0 /\ l = <<s.dev, j, s.pre[j]>>
    BY <1>1, KeysOf
  <2> QED
    BY <1>3, <2>1, <2>2
<1>4. ASSUME NEW k \in h, NEW l \in h, k[1] = l[1], k[2] = l[2] PROVE k = l
  <2>1. CASE k \in g /\ l \in g
    BY <1>4, <2>1
  <2>2. CASE k \in Keys(s) /\ l \in g
    BY <1>2, <1>4, <2>2
  <2>3. CASE k \in g /\ l \in Keys(s)
    <3>1. l = k
      BY <1>2, <1>4, <2>3
    <3> QED
      BY <3>1
  <2>4. CASE k \in Keys(s) /\ l \in Keys(s)
    BY <1>3, <1>4, <2>4
  <2> QED
    BY <2>1, <2>2, <2>3, <2>4
<1> QED
  BY <1>4

----------------------------------------------------------------------------
(* Every step *)

LEMMA BeginStep ==
  ASSUME StoreInv, NEW kind \in {"save", "mutate", "mark", "remove"}, NEW id \in 0..MaxId, NEW t,
         NEW returned \in SUBSET Ids,
         place = "idle", ~gone, Follows(ram, t, ops + 1),
         MoreOps, ops' = ops + 1, prev' \in {ram, NoFile}, ram' = [t EXCEPT !.by = ops + 1],
         out' = returned, request' = [kind |-> kind, id |-> id], place' = "writing",
         UNCHANGED <<gone, disk, history>>,
         kind = "remove" => t.pre[id] = 0 /\ prev' = ram,
         kind = "mark" => \A i \in Ids : t.pre[i] # 0 /\ i <= id => i \in t.uploaded
  PROVE  StoreInv'
<1>1. UNCHANGED <<visible, images, owed, unlinked, handed, marked, consumed>>
  BY DEF disk, history
<1>2. Good(ram) /\ prev = NoFile
  BY DEF StoreInv, Memory, Busy
<1>3. ops \in Nat /\ ops < MaxOps /\ ops + 1 \in Ops
  BY Bounds DEF StoreInv, Recorded, MadeBy, MoreOps
<1>4. MadeBy(ops, owed, handed, marked, consumed)
  BY DEF StoreInv, Recorded
<1>5. Good(ram)'
  BY <1>1, <1>2, <1>3, <1>4, FitsFollows DEF Good
<1>6. prev' = NoFile \/ Good(prev)'
  <2>1. Fits(ram, ops + 1, owed, handed, marked, consumed)
    BY <1>2, <1>3, FitsLater DEF Good
  <2> QED
    BY <1>1, <2>1 DEF Good
<1>7. Recorded'
  BY <1>1, <1>3, <1>4, Bounds DEF Recorded, MadeBy, Ops
<1>8. Images'
  BY <1>1, <1>3, FitsLater DEF StoreInv, Images, Good
<1>9. Types'
  BY <1>1 DEF StoreInv, Types, Requests
<1>10. Memory'
  BY <1>5, <1>6 DEF Memory, Busy
<1>11. InHand'
  <2>1. t \in States
    BY DEF Follows
  <2>2. ram'.pre = t.pre /\ ram'.uploaded = t.uploaded
    BY <1>3, <2>1, StampIs
  <2>3. request'.kind = kind /\ request'.id = id /\ (kind = "remove" => prev' # NoFile)
    BY <1>2, Fields DEF Good, Fits
  <2> QED
    BY <2>2, <2>3 DEF InHand
<1> QED
  BY <1>1, <1>7, <1>8, <1>9, <1>10, <1>11 DEF StoreInv, IdNamesOneKey

\* What BeginStep needs of a mutation
LEMMA BeginIs ==
  ASSUME StoreInv, NEW kind \in {"mutate", "mark", "remove"}, NEW id \in 0..MaxId, NEW t,
         NEW returned \in SUBSET Ids, Begin(kind, id, t, returned), Follows(ram, t, ops + 1),
         kind = "remove" => t.pre[id] = 0,
         kind = "mark" => \A i \in Ids : t.pre[i] # 0 /\ i <= id => i \in t.uploaded
  PROVE  StoreInv'
BY BeginStep DEF Begin

LEMMA FailedStep ==
  ASSUME StoreInv, Busy, Failed,
         UNCHANGED disk
  PROVE  StoreInv'
<1>1. UNCHANGED <<gone, ops, visible, images, owed, unlinked, handed, marked, consumed>>
  BY DEF Failed, disk, history
<1>2. ~gone /\ Good(ram) /\ (prev = NoFile \/ Good(prev))
  BY DEF StoreInv, Memory, Busy
<1>3. /\ prev' = NoFile /\ out' = {} /\ request' = Nothing
      /\ \/ place' = "off" /\ ram' = NoFile
         \/ place' = "idle" /\ ram' = ram
         \/ place' = "idle" /\ ram' = prev /\ prev # NoFile
  BY DEF Failed, Rollback
<1>4. place' = "idle" => Good(ram)'
  BY <1>1, <1>2, <1>3 DEF Good
<1>5. Memory'
  BY <1>1, <1>2, <1>3, <1>4 DEF Memory, Busy
<1>6. Images'
  BY <1>1 DEF StoreInv, Images, Good
<1>7. Types'
  BY <1>1, <1>3, DeviceStoreAssumption DEF StoreInv, Types, Requests, Nothing
<1>8. InHand'
  BY <1>3 DEF InHand, Busy
<1> QED
  BY <1>1, <1>5, <1>6, <1>7, <1>8 DEF StoreInv, Recorded, IdNamesOneKey

\* The success of an operation, and what the world remembers of it
LEMMA SyncStep ==
  ASSUME StoreInv, place = "renamed", SyncDirectory, visible' = visible, Done
  PROVE  StoreInv'
<1>1. /\ UNCHANGED <<ram, gone, ops, visible>> /\ owed' = ram.by /\ unlinked' = FALSE /\ images' = {visible}
      /\ handed' = handed \cup {k \in Keys(ram) : k[2] \in out}
      /\ marked' = marked \cup {k \in handed : request.kind = "mark" /\ k[1] = ram.dev
                                                 /\ k[2] <= request.id}
      /\ consumed' = (IF request.kind # "remove" THEN consumed
                      ELSE consumed \cup {k \in Keys(prev) : k[2] = request.id})
      /\ place' = "idle" /\ prev' = NoFile /\ out' = {} /\ request' = Nothing
  BY DEF Done, SyncDirectory
<1>2. Busy /\ ~gone /\ Good(ram) /\ (prev = NoFile \/ Good(prev)) /\ visible = Marshal(ram)
  BY DEF StoreInv, Memory, InHand, Busy
<1>3. ram \in States /\ MadeBy(ops, owed, handed, marked, consumed)
  BY <1>2 DEF StoreInv, Recorded, Good, Fits
<1>4. /\ handed \subseteq handed' /\ \A k \in handed' : k \in handed \/ k \in Keys(ram)
      /\ marked' \subseteq handed'
  BY <1>1, <1>3 DEF MadeBy
<1>5. \A k \in marked' : k \in marked \/ (k \in Keys(ram) => k[2] \in ram.uploaded)
  <2>1. ASSUME NEW k \in Keys(ram), request.kind = "mark", k[2] <= request.id PROVE k[2] \in ram.uploaded
    <3>1. PICK i \in Ids : ram.pre[i] # 0 /\ k = <<ram.dev, i, ram.pre[i]>>
      BY <1>3, KeysOf
    <3> QED
      BY <1>2, <2>1, <3>1 DEF StoreInv, InHand
  <2> QED
    BY <1>1, <2>1
<1>6. \A k \in consumed' : k \in consumed \/ (k \notin Keys(ram) /\ Good(prev) /\ k \in Keys(prev))
  <2>1. ASSUME request.kind = "remove", NEW k \in Keys(ram) PROVE k[2] # request.id
    <3>1. PICK i \in Ids : ram.pre[i] # 0 /\ k = <<ram.dev, i, ram.pre[i]>>
      BY <1>3, KeysOf
    <3> QED
      BY <1>2, <2>1, <3>1 DEF StoreInv, InHand
  <2>2. request.kind = "remove" => Good(prev)
    BY <1>2 DEF StoreInv, InHand
  <2> QED
    BY <1>1, <2>1, <2>2
<1>7. Fits(ram, ops, ram.by, handed', marked', consumed')
  <2>1. Fits(ram, ops, owed, handed, marked, consumed)
    BY <1>2 DEF Good
  <2>2. \A k \in consumed' : k \in consumed \/ k \notin Keys(ram)
    BY <1>6
  <2> DEFINE h == handed'
             m == marked'
             c == consumed'
  <2>3. /\ \A k \in h : k \in handed \/ k \in Keys(ram)
        /\ \A k \in m : k \in marked \/ (k \in Keys(ram) => k[2] \in ram.uploaded)
        /\ \A k \in c : k \in consumed \/ k \notin Keys(ram)
    BY <1>4, <1>5, <2>2
  <2> HIDE DEF h, m, c
  <2>4. Fits(ram, ops, ram.by, h, m, c)
    BY ZenonT(40), <1>3, <2>1, <2>3, FitsDone
  <2> QED
    BY <2>4 DEF h, m, c
<1>8. MadeBy(ops, ram.by, handed', marked', consumed')
  BY <1>2, <1>3, <1>4, <1>6, DoneIsRecorded DEF Good
<1>9. Good(ram)' /\ Good(visible)' /\ Recorded'
  BY <1>1, <1>2, <1>7, <1>8, FitsMarshal DEF Good, Recorded
<1>10. Images'
  BY <1>1, <1>9 DEF Images
<1>11. Memory' /\ InHand'
  BY <1>1, <1>2, <1>9 DEF Memory, InHand, Busy
<1>12. Types'
  <2>1. request' \in Requests
    BY <1>1, DeviceStoreAssumption DEF Requests, Nothing
  <2>2. gone' \in BOOLEAN /\ unlinked' \in BOOLEAN
    BY <1>1 DEF StoreInv, Types
  <2>3. place' = "idle" /\ out' \subseteq Ids
    BY <1>1
  <2> QED
    BY <2>1, <2>2, <2>3 DEF Types
<1>13. IdNamesOneKey'
  BY <1>2, <1>3, <1>4, HandedAlone DEF StoreInv, IdNamesOneKey, Good
<1> QED
  BY <1>9, <1>10, <1>11, <1>12, <1>13 DEF StoreInv

LEMMA StoreInit == Init => StoreInv
<1> SUFFICES ASSUME Init PROVE StoreInv
  OBVIOUS
<1>1. Types
  <2>1. request \in Requests
    BY DeviceStoreAssumption DEF Init, Requests, Nothing
  <2> QED
    BY <2>1 DEF Init, Types
<1>2. Recorded
  BY DeviceStoreAssumption DEF Init, Recorded, MadeBy
<1>3. Images /\ Memory /\ InHand /\ IdNamesOneKey
  BY DEF Init, Images, Memory, InHand, Busy, IdNamesOneKey
<1> QED
  BY <1>1, <1>2, <1>3 DEF StoreInv

LEMMA OpenStep == StoreInv /\ Open => StoreInv'
<1> SUFFICES ASSUME StoreInv, Open PROVE StoreInv'
  OBVIOUS
<1>1. /\ UNCHANGED <<visible, images, owed, unlinked, handed, marked, consumed>>
      /\ gone' = FALSE /\ prev' = NoFile /\ out' = {}
  BY DEF Open, disk, history
<1>2. CASE visible # NoFile /\ ram' = Load(visible) /\ place' = "idle" /\ request' = request /\ ops' = ops
  <2>1. Good(visible)
    BY <1>2 DEF StoreInv, Images
  <2>2. Good(ram)'
    BY <1>1, <1>2, <2>1, FitsLoad DEF Good
  <2>3. Memory' /\ InHand'
    BY <1>1, <1>2, <2>2 DEF Memory, InHand, Busy
  <2>4. Images'
    BY <1>1, <1>2 DEF StoreInv, Images, Good
  <2>5. Types'
    BY <1>1, <1>2 DEF StoreInv, Types
  <2> QED
    BY <1>1, <1>2, <2>3, <2>4, <2>5 DEF StoreInv, Recorded, IdNamesOneKey
<1>3. CASE /\ MoreOps /\ ops' = ops + 1 /\ ram' = Created(ops + 1)
           /\ place' = "writing" /\ request' = [kind |-> "create", id |-> 0]
  <2>1. ops \in Nat /\ ops + 1 \in Ops
    BY <1>3, Bounds DEF StoreInv, Recorded, MadeBy, MoreOps
  <2>2. MadeBy(ops, owed, handed, marked, consumed)
    BY DEF StoreInv, Recorded
  <2>3. Good(ram)'
    BY <1>1, <1>3, <2>1, <2>2, FitsCreated DEF Good
  <2>4. Memory' /\ InHand'
    BY <1>1, <1>3, <2>3 DEF Memory, InHand, Busy
  <2>5. Images'
    BY <1>1, <1>3, <2>1, FitsLater DEF StoreInv, Images, Good
  <2>6. Recorded'
    BY <1>1, <1>3, <2>1, <2>2, Bounds DEF Recorded, MadeBy, Ops
  <2>7. Types'
    <3>1. request' \in Requests
      BY <1>3, DeviceStoreAssumption DEF Requests
    <3> QED
      BY <1>1, <1>3, <3>1 DEF StoreInv, Types
  <2> QED
    BY <1>1, <2>4, <2>5, <2>6, <2>7 DEF StoreInv, IdNamesOneKey
<1> QED
  BY <1>2, <1>3 DEF Open

\* The state a mutation starts from
LEMMA AtIdle ==
  ASSUME StoreInv, place = "idle", ~gone, MoreOps
  PROVE  ops + 1 \in Ops /\ ram \in States /\ \A i \in Ids : ram.pre[i] # 0 => i < ram.next
<1>1. ops + 1 \in Ops
  BY Bounds DEF StoreInv, Recorded, MadeBy, MoreOps
<1> QED
  BY <1>1 DEF StoreInv, Memory, Good, Fits

LEMMA MutateStep == StoreInv /\ Mutate => StoreInv'
<1> SUFFICES ASSUME StoreInv, Mutate PROVE StoreInv'
  OBVIOUS
<1>1. place = "idle" /\ ~gone /\ MoreOps
  BY DEF Mutate, Begin
<1>2. ops + 1 \in Ops /\ ram \in States /\ \A i \in Ids : ram.pre[i] # 0 => i < ram.next
  BY <1>1, AtIdle
<1>3. ASSUME NEW t, NEW returned \in SUBSET Ids, Begin("mutate", 0, t, returned), Follows(ram, t, ops + 1)
      PROVE  StoreInv'
  <2>1. 0 \in 0..MaxId
    BY DeviceStoreAssumption
  <2> QED
    BY <1>3, <2>1, BeginIs
<1>4. ASSUME NEW a \in Addrs, Begin("mutate", 0, PutSession(ram, a, ops + 1), {}) PROVE StoreInv'
  <2>1. Follows(ram, PutSession(ram, a, ops + 1), ops + 1)
    BY <1>2, SessionsIs, UntouchedFollows
  <2> QED
    BY <1>3, <1>4, <2>1
<1>5. ASSUME NEW a \in Addrs, Begin("mutate", 0, DeleteSession(ram, a), {}) PROVE StoreInv'
  <2>1. Follows(ram, DeleteSession(ram, a), ops + 1)
    BY <1>2, SessionsIs, UntouchedFollows
  <2> QED
    BY <1>3, <1>5, <2>1
<1>6. ASSUME NEW a \in Addrs, NEW b \in Addrs, Begin("mutate", 0, Migrate(ram, a, b), {}) PROVE StoreInv'
  <2>1. Follows(ram, Migrate(ram, a, b), ops + 1)
    BY <1>2, MigrateIs, UntouchedFollows
  <2> QED
    BY <1>3, <1>6, <2>1
<1>7. ASSUME ram.next \in Ids, Begin("mutate", 0, GenOne(ram, ops + 1), {ram.next}) PROVE StoreInv'
  <2>1. Follows(ram, GenOne(ram, ops + 1), ops + 1)
    BY <1>2, <1>7, GenOneFollows
  <2> QED
    BY <1>3, <1>7, <2>1
<1>8. ASSUME NEW count \in {1, 2}, Offers(ram, count) \subseteq Ids,
             Begin("mutate", 0, GetOrGen(ram, count, ops + 1), Offers(ram, count))
      PROVE  StoreInv'
  <2>1. Follows(ram, GetOrGen(ram, count, ops + 1), ops + 1)
    BY <1>2, <1>8, GetOrGenFollows
  <2> QED
    BY <1>3, <1>8, <2>1
<1> QED
  BY <1>4, <1>5, <1>6, <1>7, <1>8 DEF Mutate

LEMMA MarkOrRemoveStep == StoreInv /\ MarkOrRemove => StoreInv'
<1> SUFFICES ASSUME StoreInv, NEW id \in Ids,
                    \/ Begin("mark", id, MarkUploaded(ram, id), {})
                    \/ Begin("remove", id, RemovePreKey(ram, id), {})
             PROVE  StoreInv'
  BY DEF MarkOrRemove
<1>1. place = "idle" /\ ~gone /\ MoreOps
  BY DEF Begin
<1>2. ram \in States /\ id \in 0..MaxId
  BY <1>1, AtIdle, Bounds
<1>3. CASE Begin("mark", id, MarkUploaded(ram, id), {})
  <2> DEFINE t == MarkUploaded(ram, id)
  <2>1. Follows(ram, t, ops + 1)
    BY <1>2, MarkFollows
  <2>2. \A i \in Ids : t.pre[i] # 0 /\ i <= id => i \in t.uploaded
    BY <1>2, MarkIs
  <2> HIDE DEF t
  <2>3. Begin("mark", id, t, {})
    BY <1>3 DEF t
  <2> QED
    BY <1>2, <2>1, <2>2, <2>3, BeginIs
<1>4. CASE Begin("remove", id, RemovePreKey(ram, id), {})
  <2> DEFINE t == RemovePreKey(ram, id)
  <2>1. Follows(ram, t, ops + 1)
    BY <1>2, RemoveFollows
  <2>2. t.pre[id] = 0
    <3>1. ram.pre \in [Ids -> 0..MaxOps] /\ t.pre = [ram.pre EXCEPT ![id] = 0]
      BY <1>2, RemoveIs, Fields
    <3> HIDE DEF t
    <3> QED
      BY <3>1
  <2> HIDE DEF t
  <2>3. Begin("remove", id, t, {})
    BY <1>4 DEF t
  <2> QED
    BY <1>2, <2>1, <2>2, <2>3, BeginIs
<1> QED
  BY <1>3, <1>4

LEMMA PutDeviceStep == StoreInv /\ PutDevice => StoreInv'
<1> SUFFICES ASSUME StoreInv, PutDevice PROVE StoreInv'
  OBVIOUS
<1>1. place = "idle" /\ ~gone /\ MoreOps
  BY DEF PutDevice
<1>2. ops + 1 \in Ops /\ ram \in States
  BY <1>1, AtIdle
<1> DEFINE t == [ram EXCEPT !.meta = ops + 1]
<1>3. Untouched(ram, t) /\ [t EXCEPT !.by = ops + 1] = [ram EXCEPT !.meta = ops + 1, !.by = ops + 1]
  <2>1. ops + 1 \in 0..MaxOps
    BY <1>2, Bounds
  <2> QED
    BY <1>2, <2>1 DEF Untouched, States
<1> HIDE DEF t
<1>4. Follows(ram, t, ops + 1)
  BY <1>2, <1>3, UntouchedFollows
<1>5. /\ ops' = ops + 1 /\ ram' = [t EXCEPT !.by = ops + 1] /\ prev' \in {ram, NoFile}
      /\ out' = {} /\ request' = [kind |-> "save", id |-> 0] /\ place' = "writing"
      /\ UNCHANGED <<gone, disk, history>>
  BY <1>3 DEF PutDevice
<1>6. 0 \in 0..MaxId
  BY DeviceStoreAssumption
<1> DEFINE kind == "save"
<1>7. kind \in {"save", "mutate", "mark", "remove"} /\ kind # "remove" /\ kind # "mark"
  OBVIOUS
<1>8. request' = [kind |-> kind, id |-> 0]
  BY <1>5
<1> HIDE DEF kind
<1> QED
  BY <1>1, <1>4, <1>5, <1>6, <1>7, <1>8, BeginStep

LEMMA WriteStep == StoreInv /\ WriteTemporary => StoreInv'
<1> SUFFICES ASSUME StoreInv, WriteTemporary PROVE StoreInv'
  OBVIOUS
<1>1. place = "writing" /\ UNCHANGED disk
  BY DEF WriteTemporary
<1>2. CASE Failed
  BY <1>1, <1>2, FailedStep DEF Busy
<1>3. CASE place' = "synced" /\ UNCHANGED <<ram, prev, out, request, gone, ops, history>>
  <2>1. UNCHANGED <<ram, prev, out, request, gone, ops, visible, images, owed, unlinked, handed, marked, consumed>>
    BY <1>1, <1>3 DEF disk, history
  <2>2. Types'
    BY <1>3, <2>1 DEF StoreInv, Types
  <2>3. Recorded' /\ Images' /\ IdNamesOneKey'
    BY <2>1 DEF StoreInv, Recorded, Images, Good, IdNamesOneKey
  <2>4. Memory' /\ InHand'
    BY <1>1, <1>3, <2>1 DEF StoreInv, Memory, InHand, Busy, Good
  <2> QED
    BY <2>2, <2>3, <2>4 DEF StoreInv
<1> QED
  BY <1>2, <1>3 DEF WriteTemporary

LEMMA RenameStep == StoreInv /\ Rename => StoreInv'
<1> SUFFICES ASSUME StoreInv, Rename PROVE StoreInv'
  OBVIOUS
<1>1. place = "synced"
  BY DEF Rename
<1>2. CASE Failed /\ UNCHANGED disk
  BY <1>1, <1>2, FailedStep DEF Busy
<1>3. CASE /\ place' = "renamed" /\ visible' = Snapshot /\ images' = images \cup {Snapshot}
           /\ UNCHANGED <<ram, prev, out, request, gone, ops, history>>
  <2>1. UNCHANGED <<ram, prev, out, request, gone, ops, owed, unlinked, handed, marked, consumed>>
    BY <1>3 DEF history
  <2>2. Types'
    BY <1>3, <2>1 DEF StoreInv, Types
  <2>3. Recorded' /\ IdNamesOneKey'
    BY <2>1 DEF StoreInv, Recorded, IdNamesOneKey
  <2>4. ~gone /\ Good(ram)
    BY <1>1 DEF StoreInv, Memory
  <2>5. Good(Marshal(ram))
    BY <2>4, FitsMarshal DEF Good
  <2>6. Images'
    BY <1>3, <2>1, <2>5 DEF StoreInv, Images, Good, Snapshot
  <2>7. Memory' /\ InHand'
    BY <1>1, <1>3, <2>1, <2>4 DEF StoreInv, Memory, InHand, Busy, Good, Snapshot
  <2> QED
    BY <2>2, <2>3, <2>6, <2>7 DEF StoreInv
<1> QED
  BY <1>2, <1>3 DEF Rename

LEMMA SyncIs == StoreInv /\ Sync => StoreInv'
<1> SUFFICES ASSUME StoreInv, Sync PROVE StoreInv'
  OBVIOUS
<1>1. place = "renamed"
  BY DEF Sync
<1>2. CASE Failed /\ UNCHANGED disk
  BY <1>1, <1>2, FailedStep DEF Busy
<1>3. CASE SyncDirectory /\ visible' = visible /\ Done
  BY <1>1, <1>3, SyncStep
<1> QED
  BY <1>2, <1>3 DEF Sync

LEMMA DeleteStep == StoreInv /\ (DeleteBegin \/ Remove \/ RemoveSynced) => StoreInv'
<1> SUFFICES ASSUME StoreInv, DeleteBegin \/ Remove \/ RemoveSynced PROVE StoreInv'
  OBVIOUS
<1>1. /\ UNCHANGED <<ram, prev, out, gone, ops, owed, handed, marked, consumed>>
      /\ place \in {"idle", "removing", "unlinked"} /\ (place = "idle" => ~gone)
      /\ place' \in {"removing", "unlinked", "idle", "erasing"}
  BY DEF DeleteBegin, Remove, RemoveSynced, history
<1>2. request' \in {request, Nothing, [kind |-> "delete", id |-> 0]}
  BY DEF DeleteBegin, Remove, RemoveSynced
<1>3. unlinked' \in BOOLEAN /\ (unlinked => unlinked')
  BY DEF DeleteBegin, Remove, RemoveSynced, history, StoreInv, Types
<1>4. visible' \in images' /\ \A f \in images' : f \in images \/ (f = NoFile /\ unlinked')
  <2>1. CASE DeleteBegin
    BY <2>1 DEF DeleteBegin, disk, StoreInv, Images
  <2>2. CASE Remove
    BY <2>2 DEF Remove, StoreInv, Images
  <2>3. CASE RemoveSynced
    BY <2>3 DEF RemoveSynced, StoreInv, Images
  <2> QED
    BY <2>1, <2>2, <2>3
<1>5. Images'
  BY <1>1, <1>3, <1>4 DEF StoreInv, Images, Good
<1>6. Types'
  <2>1. request' \in Requests
    BY <1>2, DeviceStoreAssumption DEF Requests, Nothing, StoreInv, Types
  <2> QED
    BY <1>1, <1>3, <2>1 DEF StoreInv, Types
<1>7. Recorded' /\ IdNamesOneKey'
  BY <1>1 DEF StoreInv, Recorded, IdNamesOneKey
<1>8. Memory' /\ InHand'
  BY <1>1 DEF StoreInv, Memory, InHand, Busy, Good
<1> QED
  BY <1>5, <1>6, <1>7, <1>8 DEF StoreInv

LEMMA EraseStep == StoreInv /\ Erase => StoreInv'
<1> SUFFICES ASSUME StoreInv, Erase PROVE StoreInv'
  OBVIOUS
<1>1. /\ UNCHANGED <<prev, out, visible, images, ops, owed, unlinked, handed, marked, consumed>>
      /\ place = "erasing" /\ place' = "idle" /\ gone' = TRUE /\ request' = Nothing
      /\ ram' = [Created(ram.dev) EXCEPT !.by = ram.by, !.meta = ram.meta]
  BY DEF Erase, disk, history
<1>2. ram \in States
  BY <1>1 DEF StoreInv, Memory, Good, Fits
<1>3. ram' \in States /\ \A i \in Ids : ram'.pre[i] = 0
  <2>1. Created(ram.dev) \in States /\ \A i \in Ids : Created(ram.dev).pre[i] = 0
    BY <1>2, Fields, CreatedIs
  <2>2. ram.by \in Ops /\ ram.meta \in 0..MaxOps
    BY <1>2 DEF States
  <2> QED
    BY <1>1, <2>1, <2>2 DEF States
<1>4. Types'
  <2>1. request' \in Requests
    BY <1>1, DeviceStoreAssumption DEF Requests, Nothing
  <2> QED
    BY <1>1, <2>1 DEF StoreInv, Types
<1>5. Recorded' /\ Images' /\ IdNamesOneKey'
  BY <1>1 DEF StoreInv, Recorded, Images, Good, IdNamesOneKey
<1>6. prev' = NoFile
  BY <1>1 DEF StoreInv, Memory, Busy
<1>7. Memory' /\ InHand'
  BY <1>1, <1>3, <1>6 DEF Memory, InHand, Busy
<1> QED
  BY <1>4, <1>5, <1>7 DEF StoreInv

LEMMA CrashStep == StoreInv /\ (Crash \/ PowerLoss) => StoreInv'
<1> SUFFICES ASSUME StoreInv, Crash \/ PowerLoss PROVE StoreInv'
  OBVIOUS
<1>1. /\ UNCHANGED <<ops, owed, unlinked, handed, marked, consumed>>
      /\ place' = "off" /\ ram' = NoFile /\ prev' = NoFile /\ out' = {} /\ request' = Nothing
      /\ gone' = FALSE
  BY DEF Crash, PowerLoss, Stopped, history
<1>2. visible' \in images' /\ images' \subseteq images
  BY DEF Crash, PowerLoss, disk, StoreInv, Images
<1>3. Types'
  <2>1. request' \in Requests
    BY <1>1, DeviceStoreAssumption DEF Requests, Nothing
  <2> QED
    BY <1>1, <2>1 DEF StoreInv, Types
<1>4. Recorded' /\ IdNamesOneKey'
  BY <1>1 DEF StoreInv, Recorded, IdNamesOneKey
<1>5. Images'
  BY <1>1, <1>2 DEF StoreInv, Images, Good
<1>6. Memory' /\ InHand'
  BY <1>1 DEF Memory, InHand, Busy
<1> QED
  BY <1>3, <1>4, <1>5, <1>6 DEF StoreInv

LEMMA StoreStep == StoreInv /\ [Next]_vars => StoreInv'
<1>1. ASSUME StoreInv, UNCHANGED vars PROVE StoreInv'
  <2>1. UNCHANGED <<place, ram, prev, out, request, gone, visible, images, ops, owed, unlinked, handed, marked, consumed>>
    BY <1>1 DEF vars, disk, history
  <2>2. Types' /\ Recorded' /\ Images' /\ IdNamesOneKey'
    BY <1>1, <2>1 DEF StoreInv, Types, Recorded, Images, Good, IdNamesOneKey
  <2>3. Memory' /\ InHand'
    BY <1>1, <2>1 DEF StoreInv, Memory, InHand, Busy, Good
  <2> QED
    BY <2>2, <2>3 DEF StoreInv
<1> QED
  BY <1>1, OpenStep, MutateStep, MarkOrRemoveStep, PutDeviceStep, WriteStep, RenameStep, SyncIs,
     DeleteStep, EraseStep, CrashStep DEF Next

LEMMA StoreAlways == Spec => []StoreInv
<1> QED
  BY StoreInit, StoreStep, PTL DEF Spec

----------------------------------------------------------------------------
(* What holds of the device store *)

\* A pre-key id that left mutateAndSave for the server names one key of its device
\* for ever, whatever writes failed and wherever the process was killed.
THEOREM IdsAreNeverReused == Spec => []IdNamesOneKey
<1>1. StoreInv => IdNamesOneKey
  BY DEF StoreInv
<1> QED
  BY <1>1, StoreAlways, PTL

\* Every image of the device file that a loss of power may leave is at least as new
\* as the last Save or mutateAndSave that returned without an error, or the
\* file was removed on purpose: the temporary file, the rename and the two syncs
\* of atomicWriteFile are enough.
THEOREM SuccessIsDurable == Spec => []AckedSurvives
<1>1. StoreInv => AckedSurvives
  <2> SUFFICES ASSUME StoreInv, NEW f \in images PROVE (f.by >= owed) \/ (f = NoFile /\ unlinked)
    BY DEF AckedSurvives
  <2>1. CASE Good(f)
    <3>1. owed <= f.by /\ f \in States
      BY <2>1 DEF Good, Fits
    <3>2. owed \in Nat /\ f.by \in Nat
      BY <3>1, Fields, Bounds DEF StoreInv, Recorded, MadeBy
    <3> QED
      BY <3>1, <3>2
  <2>2. CASE f = NoFile /\ owed = 0
    BY <2>2 DEF NoFile
  <2> QED
    BY <2>1, <2>2 DEF StoreInv, Images
<1> QED
  BY <1>1, StoreAlways, PTL

\* A pre-key whose removal returned without an error is in no image of the file and
\* never again in memory, so that no second session is set up from it.
THEOREM ConsumedForGood == Spec => []ConsumedStaysGone
<1>1. ASSUME StoreInv, NEW f, Good(f) PROVE Keys(f) \cap consumed = {}
  <2>1. f \in States
    BY <1>1 DEF Good, Fits
  <2>2. \A k \in Keys(f) : k \notin consumed
    <3>1. ASSUME NEW k \in Keys(f) PROVE k \notin consumed
      <4>1. PICK i \in Ids : f.pre[i] # 0 /\ k = <<f.dev, i, f.pre[i]>>
        BY <2>1, KeysOf
      <4> QED
        BY <1>1, <4>1 DEF Good, Fits
    <3> QED
      BY <3>1
  <2> QED
    BY <2>2
<1>2. ASSUME NEW f \in States, \A i \in Ids : f.pre[i] = 0 PROVE Keys(f) = {}
  BY <1>2, KeysOf
<1>3. StoreInv => ConsumedStaysGone
  <2> SUFFICES ASSUME StoreInv, NEW f \in images \cup {ram}, f # NoFile PROVE Keys(f) \cap consumed = {}
    BY DEF ConsumedStaysGone
  <2>1. CASE f \in images
    BY <1>1, <2>1 DEF StoreInv, Images
  <2>2. CASE f = ram /\ ~gone
    BY <1>1, <2>2 DEF StoreInv, Memory
  <2>3. CASE f = ram /\ gone
    BY <1>2, <2>3 DEF StoreInv, Memory
  <2> QED
    BY <2>1, <2>2, <2>3
<1> QED
  BY <1>3, StoreAlways, PTL

\* GetOrGenPreKeys offers no key that MarkPreKeysAsUploaded recorded, although the
\* marks of keys that are gone are dropped from the file.
THEOREM NoKeyOfferedTwice == Spec => []UploadedNotOffered
<1>1. StoreInv => UploadedNotOffered
  <2> SUFFICES ASSUME StoreInv, place = "idle", ~gone, NEW count \in {1, 2},
                      NEW k \in Keys(ram), k \in marked
               PROVE  k[2] \notin Offers(ram, count)
    BY DEF UploadedNotOffered
  <2>1. Good(ram) /\ ram \in States
    BY DEF StoreInv, Memory, Good, Fits
  <2>2. PICK i \in Ids : ram.pre[i] # 0 /\ k = <<ram.dev, i, ram.pre[i]>>
    BY <2>1, KeysOf
  <2>3. i \in ram.uploaded /\ i < ram.next
    BY <2>1, <2>2 DEF Good, Fits
  <2>4. i \in Nat /\ ram.next \in Nat
    BY <2>1, Fields, Bounds
  <2> DEFINE old == {j \in {j \in Ids : ram.pre[j] # 0 /\ j \notin ram.uploaded} :
                       Cardinality({l \in {l \in Ids : ram.pre[l] # 0 /\ l \notin ram.uploaded} : l < j}) < count}
             top == ram.next + count - Cardinality(old) - 1
  <2>5. Offers(ram, count) = old \cup ram.next..top
    BY DEF Offers
  <2>6. i \notin old
    BY <2>3
  <2> HIDE DEF old, top
  <2>7. i \notin ram.next..top
    BY <2>3, <2>4
  <2> QED
    BY <2>2, <2>5, <2>6, <2>7
<1> QED
  BY <1>1, StoreAlways, PTL

=============================================================================
