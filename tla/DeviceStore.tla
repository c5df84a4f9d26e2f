----------------------------- MODULE DeviceStore -----------------------------
(***************************************************************************)
(* The persistent store of the E2EE device, in file mode: DeviceStore of   *)
(* bridge-e2ee/bridge/client.go and store.go.                              *)
(*                                                                         *)
(* Every mutation changes the maps in memory and writes them all to a      *)
(* temporary file that replaces the device file, under saveMu and mu; so   *)
(* mutations never overlap, and what is hard is what a failure or a crash  *)
(* between two of these steps leaves behind.  The bridge is killed by its  *)
(* watchdog as a matter of course, and the machine may lose power.         *)
(*                                                                         *)
(* Key material and session data are abstracted to the number of the       *)
(* operation that produced them: two keys are the same when made by the    *)
(* same operation under the same id.                                       *)
(***************************************************************************)
EXTENDS Integers, FiniteSets

CONSTANTS Addrs,   \* Signal addresses
          MaxId,   \* bound: pre-key ids
          MaxOps   \* bound: operations that change the store

Ids == 1..MaxId
Ops == 1..MaxOps

ASSUME DeviceStoreAssumption == MaxId \in Nat /\ MaxOps \in Nat

VARIABLES
  place,    \* where the operation in hand is, or "idle", or "off": no process
  ram,      \* the maps in memory and the identity of the device
  prev,     \* previousState of the mutation in hand
  out,      \* the pre-keys it will return
  request,  \* what was asked of it
  gone,     \* deleted
  visible,  \* the device file as a process reads it
  images,   \* what it may be after a loss of power
  ops,      \* operations so far
  owed,     \* the last operation that was reported to have succeeded
  unlinked, \* since then the file was removed
  handed, marked, consumed  \* pre-keys that were returned, marked, removed with success

disk    == <<visible, images>>
history == <<owed, unlinked, handed, marked, consumed>>
vars    == <<place, ram, prev, out, request, gone, disk, ops, history>>

\* A pre-key of a device: the device, the id and the operation that made it
Keys(s) == {<<s.dev, i, s.pre[i]>> : i \in {j \in Ids : s.pre[j] # 0}}

States == [dev : Ops, pre : [Ids -> 0..MaxOps], uploaded : SUBSET Ids, next : 1..(MaxId + 1),
           sess : [Addrs -> 0..MaxOps], meta : 0..MaxOps, by : Ops]
NoFile == [by |-> 0]

TypeOK ==
  /\ place \in {"off", "idle", "writing", "synced", "renamed", "removing", "unlinked", "erasing"}
  /\ ram \in States \cup {NoFile} /\ prev \in States \cup {NoFile}
  /\ out \subseteq Ids /\ gone \in BOOLEAN
  /\ request \in [kind : {"none", "create", "save", "mutate", "mark", "remove", "delete"},
                  id : 0..MaxId]
  /\ images \subseteq States \cup {NoFile} /\ visible \in images
  /\ ops \in 0..MaxOps /\ owed \in 0..MaxOps /\ unlinked \in BOOLEAN
  /\ handed \subseteq Ops \X Ids \X Ops /\ marked \subseteq handed
  /\ consumed \subseteq Ops \X Ids \X Ops
  /\ place # "off" => ram \in States /\ \A k \in Keys(ram) : k[2] < ram.next

Nothing == [kind |-> "none", id |-> 0]

Init ==
  /\ place = "off" /\ ram = NoFile /\ prev = NoFile /\ out = {} /\ request = Nothing
  /\ gone = FALSE /\ visible = NoFile /\ images = {NoFile} /\ ops = 0
  /\ owed = 0 /\ unlinked = FALSE /\ handed = {} /\ marked = {} /\ consumed = {}

----------------------------------------------------------------------------
(* The store as a value                                                     *)

Created(n) ==
  [dev |-> n, pre |-> [i \in Ids |-> 0], uploaded |-> {}, next |-> 1,
   sess |-> [a \in Addrs |-> 0], meta |-> 0, by |-> n]

\* marshalDeviceDataLocked: only the marks of pre-keys that exist are written
Marshal(s) == [s EXCEPT !.uploaded = {i \in @ : s.pre[i] # 0}]

\* loadDeviceJSON: the same filter, and next is raised above every id
Load(f) ==
  LET used == {i + 1 : i \in {j \in Ids : f.pre[j] # 0}}
      top  == CHOOSE n \in used \cup {f.next} : \A m \in used \cup {f.next} : m <= n
  IN  [Marshal(f) EXCEPT !.next = top]

PutSession(s, a, n) == [s EXCEPT !.sess[a] = n]
DeleteSession(s, a) == [s EXCEPT !.sess[a] = 0]

\* MigratePNToLID: a session and its identity move to another address
Migrate(s, a, b) == [s EXCEPT !.sess[b] = IF s.sess[a] # 0 THEN s.sess[a] ELSE @, !.sess[a] = 0]

NewKeys(s, ids, n) == [s EXCEPT !.pre = [i \in Ids |-> IF i \in ids THEN n ELSE s.pre[i]],
                                !.next = @ + Cardinality(ids)]

\* GenOnePreKey: the next id, taken for uploaded at once
GenOne(s, n) == [NewKeys(s, {s.next}, n) EXCEPT !.uploaded = @ \cup {s.next}]

\* GetOrGenPreKeys returns the lowest ids that were not uploaded, then new ones
Offers(s, count) ==
  LET waiting == {i \in Ids : s.pre[i] # 0 /\ i \notin s.uploaded}
      old     == {i \in waiting : Cardinality({j \in waiting : j < i}) < count}
  IN  old \cup s.next..(s.next + count - Cardinality(old) - 1)

GetOrGen(s, count, n) == NewKeys(s, {i \in Offers(s, count) : i >= s.next}, n)

RemovePreKey(s, id) == [s EXCEPT !.pre[id] = 0, !.uploaded = @ \ {id}]

\* mutant: up to, but not with
MarkBelow(s, id) == [s EXCEPT !.uploaded = @ \cup {i \in Ids : s.pre[i] # 0 /\ i < id}]

\* MarkPreKeysAsUploaded
MarkUploaded(s, id) == [s EXCEPT !.uploaded = @ \cup {i \in Ids : s.pre[i] # 0 /\ i <= id}]

----------------------------------------------------------------------------
(* NewDeviceStore, mutateAndSave and Save                                   *)

MoreOps == ops < MaxOps

\* newDeviceStore: the file is read, or a device made and saved
Open ==
  /\ place = "off"
  /\ \/ /\ visible # NoFile
        /\ ram' = Load(visible) /\ place' = "idle" /\ request' = request /\ ops' = ops
     \/ /\ visible = NoFile /\ MoreOps
        /\ ops' = ops + 1 /\ ram' = Created(ops + 1)
        /\ place' = "writing" /\ request' = [kind |-> "create", id |-> 0]
  /\ gone' = FALSE /\ prev' = NoFile /\ out' = {}
  /\ UNCHANGED <<disk, history>>

\* mutateAndSave up to the write: the maps change in memory
Begin(kind, id, s, returned) ==
  /\ place = "idle" /\ ~gone /\ MoreOps
  /\ ops' = ops + 1
  /\ prev' = ram /\ ram' = [s EXCEPT !.by = ops + 1]
  /\ out' = returned /\ request' = [kind |-> kind, id |-> id]
  /\ place' = "writing"
  /\ UNCHANGED <<gone, disk, history>>

Mutate ==
  /\ place = "idle"
  /\ \/ \E a \in Addrs :
          \/ Begin("mutate", 0, PutSession(ram, a, ops + 1), {})
          \/ Begin("mutate", 0, DeleteSession(ram, a), {})
          \/ \E b \in Addrs \ {a} : Begin("mutate", 0, Migrate(ram, a, b), {})
     \/ ram.next \in Ids /\ Begin("mutate", 0, GenOne(ram, ops + 1), {ram.next})
     \/ \E count \in {1, 2} :
          /\ Offers(ram, count) \subseteq Ids
          /\ Begin("mutate", 0, GetOrGen(ram, count, ops + 1), Offers(ram, count))

\* The caller marks what it uploaded and removes what a peer has used
MarkOrRemove ==
  /\ place = "idle"
  /\ \E id \in Ids :
       /\ ram.pre[id] # 0
       /\ \/ Begin("mark", id, MarkUploaded(ram, id), {})
          \/ Begin("remove", id, RemovePreKey(ram, id), {})

\* PutDevice and Save: the caller changed the device itself; a failure does not
\* take that back
PutDevice ==
  /\ place = "idle" /\ ~gone /\ MoreOps
  /\ ops' = ops + 1 /\ ram' = [ram EXCEPT !.meta = ops + 1, !.by = ops + 1]
  /\ prev' = NoFile /\ out' = {} /\ request' = [kind |-> "save", id |-> 0]
  /\ place' = "writing"
  /\ UNCHANGED <<gone, disk, history>>

\* mutant: the new pre-keys stay in memory, their ids are free again
RollbackKeepsKeys == [prev EXCEPT !.pre = ram.pre]

\* restoreMutableStateLocked
Rollback == prev

\* The operation fails and is reported to have failed
Failed ==
  /\ ram' = IF request.kind = "create" THEN NoFile ELSE IF prev = NoFile THEN ram ELSE Rollback
  /\ place' = IF request.kind = "create" THEN "off" ELSE "idle"
  /\ prev' = NoFile /\ out' = {} /\ request' = Nothing
  /\ UNCHANGED <<gone, ops, history>>

\* The operation succeeds
Done ==
  /\ owed' = ram.by /\ unlinked' = FALSE
  /\ handed' = handed \cup {k \in Keys(ram) : k[2] \in out}
  /\ marked' = marked \cup {k \in handed : request.kind = "mark" /\ k[1] = ram.dev
                                             /\ k[2] <= request.id}
  /\ consumed' = IF request.kind # "remove" THEN consumed
                 ELSE consumed \cup {k \in Keys(prev) : k[2] = request.id}
  /\ place' = "idle" /\ prev' = NoFile /\ out' = {} /\ request' = Nothing
  /\ UNCHANGED <<ram, gone, ops>>

\* atomicWriteFile: the temporary file is written and synced ...
WriteTemporary ==
  /\ place = "writing"
  /\ \/ place' = "synced" /\ UNCHANGED <<ram, prev, out, request, gone, ops, history>>
     \/ Failed
  /\ UNCHANGED disk

\* mutant: the file is encoded before the mutation
StaleSnapshot == Marshal(IF prev = NoFile THEN ram ELSE prev)

\* What is written: the maps after the mutation
Snapshot == Marshal(ram)

\* ... then renamed over the device file ...
Rename ==
  /\ place = "synced"
  /\ \/ /\ place' = "renamed" /\ visible' = Snapshot /\ images' = images \cup {Snapshot}
        /\ UNCHANGED <<ram, prev, out, request, gone, ops, history>>
     \/ Failed /\ UNCHANGED disk

\* mutant: the directory is not synced
NoSync == images' = images

SyncDirectory == images' = {visible}

\* ... and the directory is synced
Sync ==
  /\ place = "renamed"
  /\ \/ SyncDirectory /\ visible' = visible /\ Done
     \/ Failed /\ UNCHANGED disk

----------------------------------------------------------------------------
(* deletePersistedDevice                                                    *)

DeleteBegin ==
  /\ place = "idle" /\ ~gone
  /\ place' = "removing" /\ request' = [kind |-> "delete", id |-> 0]
  /\ UNCHANGED <<ram, prev, out, gone, disk, ops, history>>

Remove ==
  /\ place = "removing"
  /\ \/ place' = "unlinked" /\ visible' = NoFile /\ request' = request
     \/ place' = "idle" /\ visible' = visible /\ request' = Nothing
  /\ unlinked' = (unlinked \/ visible' = NoFile) /\ images' = images \cup {visible'}
  /\ UNCHANGED <<ram, prev, out, gone, ops, owed, handed, marked, consumed>>

RemoveSynced ==
  /\ place = "unlinked"
  /\ \/ place' = "erasing" /\ images' = {visible} /\ request' = request
     \/ place' = "idle" /\ images' = images /\ request' = Nothing
  /\ UNCHANGED <<ram, prev, out, gone, visible, ops, history>>

Erase ==
  /\ place = "erasing"
  /\ gone' = TRUE /\ ram' = [Created(ram.dev) EXCEPT !.by = ram.by, !.meta = ram.meta]
  /\ place' = "idle" /\ request' = Nothing
  /\ UNCHANGED <<prev, out, disk, ops, history>>

----------------------------------------------------------------------------
(* The process is killed; the machine loses power: the file is as it was     *)
(* last synced, or any later state the system happened to write              *)

Stopped ==
  /\ place # "off"
  /\ place' = "off" /\ ram' = NoFile /\ prev' = NoFile /\ out' = {} /\ request' = Nothing
  /\ gone' = FALSE
  /\ UNCHANGED <<ops, history>>

Crash == Stopped /\ UNCHANGED disk

PowerLoss ==
  /\ Stopped
  /\ \E image \in images : visible' = image /\ images' = {image}

Next ==
  \/ Open \/ Mutate \/ MarkOrRemove \/ PutDevice \/ WriteTemporary \/ Rename \/ Sync
  \/ DeleteBegin \/ Remove \/ RemoveSynced \/ Erase \/ Crash \/ PowerLoss

Spec == Init /\ [][Next]_vars

----------------------------------------------------------------------------
(* Safety *)

\* A pre-key id handed to the server names one key for ever: no failed write,
\* crash or reload makes the store give the same id to another key.
IdNamesOneKey == \A k, l \in handed : k[1] = l[1] /\ k[2] = l[2] => k = l

\* What was reported to have succeeded survives: no image of the file that a
\* restart may read is older than the last success, unless the device is
\* being deleted.
AckedSurvives ==
  \A f \in images : (f.by >= owed) \/ (f = NoFile /\ unlinked)

\* A one-time pre-key whose removal succeeded never comes back.
ConsumedStaysGone ==
  \A f \in images \cup {ram} : f # NoFile => Keys(f) \cap consumed = {}

\* GetOrGenPreKeys never offers for upload a key that was marked as uploaded.
UploadedNotOffered ==
  place = "idle" /\ ~gone => \A count \in {1, 2} :
     \A k \in Keys(ram) \cap marked : k[2] \notin Offers(ram, count)

\* A mutation that was reported to have failed left no trace: what a restart
\* would read is what is in memory.
FailureLeavesNoTrace ==
  place = "idle" /\ ~gone /\ ~unlinked =>
    visible # NoFile /\ visible.pre = ram.pre /\ visible.sess = ram.sess

==============================================================================
