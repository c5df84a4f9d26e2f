--------------------------- MODULE LocalTools_proofs ---------------------------
(***************************************************************************)
(* Theorems about what the processes and threads of one machine share      *)
(* without a lock: the configuration file (ConfigFile), the bridge program *)
(* (BridgeCache) and a sender with a bridge of its own (E2EESender), for   *)
(* any set of processes and threads and any number of operations.          *)
(***************************************************************************)
EXTENDS ConfigFile, BridgeCache, E2EESender, TLAPS

----------------------------------------------------------------------------
(* The configuration file *)

Files == [form : {"json", "none", "broken"}, cookie : Owners \cup {"absent", "paste", "user"},
          rest : 0..MaxEdits]

ConfigTypes ==
  /\ file \in Files /\ data \in [Owners -> Files]
  /\ opc \in [Owners -> {"idle", "exists", "create", "open", "load", "home", "running",
                          "save", "write", "clear", "rewrite"}]
  /\ edits \in 0..MaxEdits /\ jobs \in 0..MaxJobs
  /\ readAt \in [Owners -> 0..MaxEdits] /\ kept \in 0..MaxEdits /\ crossed \in BOOLEAN

\* Nobody has read what is not written yet
ReadBefore == \A p \in Owners : readAt[p] <= edits

\* A file holds the last edit, if that left one that parses
Holds(f) == f.form = "json" /\ f.rest = kept

\* An owner that is to replace the file, and has read it since the edit, has read
\* the edit
CopyHolds ==
  kept # 0 /\ ~crossed =>
    \A p \in Owners : opc[p] \in {"write", "rewrite"} /\ readAt[p] = edits => Holds(data[p])

ConfigInv == ConfigTypes /\ ReadBefore /\ CopyHolds /\ EditSurvives

LEMMA FilesMade ==
  /\ None \in Files /\ Broken \in Files /\ Template \in Files
  /\ \A f \in Files, p \in Owners :
       Saved(p, f) \in Files /\ Cleared(f) \in Files
<1> USE ConfigAssumption DEF Files, Json
<1>1. None \in Files /\ Broken \in Files /\ Template \in Files
  BY DEF None, Broken, Template
<1>2. ASSUME NEW f \in Files, NEW p \in Owners
      PROVE  Saved(p, f) \in Files /\ Cleared(f) \in Files
  <2>1. f.rest \in 0..MaxEdits /\ 0 \in 0..MaxEdits
    OBVIOUS
  <2>2. Saved(p, f) \in Files
    BY <2>1 DEF Saved
  <2>3. Cleared(f) \in Files
    BY DEF Cleared
  <2> QED
    BY <2>2, <2>3
<1> QED
  BY <1>1, <1>2

LEMMA ConfigTypesStep == ConfigTypes /\ [ConfigNext]_configVars => ConfigTypes'
<1> SUFFICES ASSUME ConfigTypes, [ConfigNext]_configVars PROVE ConfigTypes'
  OBVIOUS
<1> USE ConfigAssumption, FilesMade DEF ConfigTypes, Goto, ghosts
<1>1. CASE UNCHANGED configVars
  BY <1>1 DEF configVars
<1>2. CASE UserEdits
  <2>1. /\ edits' \in 0..MaxEdits /\ Json("user", edits + 1) \in Files
        /\ UNCHANGED <<opc, data, jobs, readAt>> /\ crossed' = FALSE
    BY <1>2 DEF UserEdits, Json, Files
  <2>2. PICK f \in {Json("user", edits + 1), None, Broken} : file' = f /\ kept' = f.rest
    BY <1>2 DEF UserEdits
  <2>3. f \in Files /\ f.rest \in 0..MaxEdits
    <3>1. f \in Files
      BY <2>1, <2>2
    <3> QED
      BY <3>1 DEF Files
  <2> QED
    BY <2>1, <2>2, <2>3
<1>3. ASSUME NEW p \in Owners, Begin(p) \/ Exists(p) \/ Open(p) \/ Home(p) \/ Stops(p)
      PROVE  ConfigTypes'
  BY <1>3 DEF Begin, Exists, Open, Home, Stops
<1>4. ASSUME NEW p \in Owners, Load(p) \/ SaveReads(p) \/ ClearReads(p)
      PROVE  ConfigTypes'
  <2>1. data' = [data EXCEPT ![p] = file] /\ readAt' = [readAt EXCEPT ![p] = edits]
        /\ UNCHANGED <<file, edits, jobs, kept, crossed>>
    BY <1>4 DEF Load, SaveReads, ClearReads, Look
  <2>2. \E pc \in {"idle", "home", "write", "rewrite"} : opc' = [opc EXCEPT ![p] = pc]
    BY <1>4 DEF Load, SaveReads, ClearReads
  <2>3. data' \in [Owners -> Files]
    BY <2>1
  <2>4. readAt' \in [Owners -> 0..MaxEdits]
    BY <2>1
  <2> QED
    BY <2>1, <2>2, <2>3, <2>4
<1>5. ASSUME NEW p \in Owners, Create(p) PROVE ConfigTypes'
  BY <1>5 DEF Create, CreateLinks
<1>6. ASSUME NEW p \in Owners, WriteData(p) PROVE ConfigTypes'
  <2>1. data[p] \in Files
    OBVIOUS
  <2>2. file' \in Files
    BY <1>6, <2>1 DEF WriteData
  <2>3. crossed' \in BOOLEAN
    BY <1>6 DEF WriteData
  <2> QED
    BY <1>6, <2>2, <2>3 DEF WriteData
<1> QED
  BY <1>1, <1>2, <1>3, <1>4, <1>5, <1>6 DEF ConfigNext

\* A step that leaves the file, the edits and what was read alone
LEMMA ConfigStays ==
  ASSUME ConfigInv, UNCHANGED <<file, data, edits, readAt, kept, crossed>>,
         \A q \in Owners : opc'[q] \in {"write", "rewrite"} => opc[q] \in {"write", "rewrite"}
  PROVE  (ReadBefore /\ CopyHolds /\ EditSurvives)'
BY DEF ConfigInv, ReadBefore, CopyHolds, Holds, EditSurvives

LEMMA ConfigStep == ConfigInv /\ [ConfigNext]_configVars => ConfigInv'
<1> SUFFICES ASSUME ConfigInv, [ConfigNext]_configVars
             PROVE  (ReadBefore /\ CopyHolds /\ EditSurvives)'
  BY ConfigTypesStep DEF ConfigInv
<1>0. /\ ConfigTypes /\ ReadBefore /\ CopyHolds /\ EditSurvives
      /\ opc \in [Owners -> {"idle", "exists", "create", "open", "load", "home", "running",
                              "save", "write", "clear", "rewrite"}]
      /\ data \in [Owners -> Files] /\ readAt \in [Owners -> 0..MaxEdits]
      /\ edits \in Int /\ \A q \in Owners : readAt[q] \in Int
  BY ConfigAssumption DEF ConfigInv, ConfigTypes
<1>1. CASE UNCHANGED configVars
  BY <1>1, ConfigStays DEF configVars, ghosts
<1>2. CASE UserEdits
  <2>1. edits' = edits + 1 /\ crossed' = FALSE /\ UNCHANGED <<opc, data, readAt>>
    BY <1>2 DEF UserEdits
  <2>2. \A q \in Owners : readAt'[q] <= edits' /\ readAt'[q] # edits'
    BY <1>0, <2>1 DEF ReadBefore
  <2>3. kept' # 0 => file'.form = "json" /\ file'.rest = kept'
    BY <1>2 DEF UserEdits, Json, None, Broken
  <2> QED
    BY <2>2, <2>3 DEF ReadBefore, CopyHolds, EditSurvives
<1>3. ASSUME NEW p \in Owners, Begin(p) \/ Exists(p) \/ Open(p) \/ Home(p) \/ Stops(p)
      PROVE  (ReadBefore /\ CopyHolds /\ EditSurvives)'
  <2>1. UNCHANGED <<file, data, edits, readAt, kept, crossed>>
    BY <1>3 DEF Begin, Exists, Open, Home, Stops, ghosts
  <2>2. \E pc : opc' = [opc EXCEPT ![p] = pc] /\ pc \notin {"write", "rewrite"}
    BY <1>3 DEF Begin, Exists, Open, Home, Stops, Goto
  <2> QED
    BY <1>0, <2>1, <2>2, ConfigStays
<1>4. ASSUME NEW p \in Owners, Load(p) \/ SaveReads(p) \/ ClearReads(p)
      PROVE  (ReadBefore /\ CopyHolds /\ EditSurvives)'
  <2>1. /\ \A q \in Owners : data'[q] = IF q = p THEN file ELSE data[q]
        /\ \A q \in Owners : readAt'[q] = IF q = p THEN edits ELSE readAt[q]
        /\ UNCHANGED <<file, edits, kept, crossed>>
    BY <1>0, <1>4 DEF Load, SaveReads, ClearReads, Look
  <2>2. \A q \in Owners : q # p => opc'[q] = opc[q]
    BY <1>0, <1>4 DEF Load, SaveReads, ClearReads, Goto
  <2>3. ReadBefore'
    BY <1>0, <2>1 DEF ReadBefore
  <2>4. CopyHolds' /\ EditSurvives'
    BY <1>0, <2>1, <2>2 DEF CopyHolds, Holds, EditSurvives
  <2> QED
    BY <2>3, <2>4
<1>5. ASSUME NEW p \in Owners, Create(p) PROVE (ReadBefore /\ CopyHolds /\ EditSurvives)'
  <2>1. /\ UNCHANGED <<data, edits, readAt, kept, crossed>>
        /\ \E pc : opc' = [opc EXCEPT ![p] = pc] /\ pc \notin {"write", "rewrite"}
    BY <1>5 DEF Create, CreateLinks, Goto, ghosts
  <2>2. \A q \in Owners : opc'[q] \in {"write", "rewrite"} => opc[q] \in {"write", "rewrite"}
    BY <1>0, <2>1
  <2>3. CASE file.form = "none"
    <3>1. ~(kept # 0 /\ ~crossed)
      BY <1>0, <2>3 DEF EditSurvives
    <3> QED
      BY <1>0, <2>1, <3>1 DEF ReadBefore, CopyHolds, EditSurvives
  <2>4. CASE file' = file
    BY <2>1, <2>2, <2>4, ConfigStays
  <2> QED
    BY <1>5, <2>3, <2>4 DEF Create, CreateLinks
<1>6. ASSUME NEW p \in Owners, WriteData(p) PROVE (ReadBefore /\ CopyHolds /\ EditSurvives)'
  <2>1. /\ UNCHANGED <<data, edits, readAt, kept>> /\ opc[p] \in {"write", "rewrite"}
        /\ opc' = [opc EXCEPT ![p] = "idle"]
        /\ file' \in {Saved(p, data[p]), Cleared(data[p])}
    BY <1>6 DEF WriteData, Goto
  <2>2. ~crossed' => ~crossed /\ ~(readAt[p] < edits)
    BY <1>6 DEF WriteData
  <2>3. \A q \in Owners : opc'[q] \in {"write", "rewrite"} => opc[q] \in {"write", "rewrite"}
    BY <1>0, <2>1
  <2>4. ReadBefore' /\ CopyHolds'
    BY <1>0, <2>1, <2>2, <2>3 DEF ReadBefore, CopyHolds, Holds
  <2>5. ASSUME kept' # 0, ~crossed' PROVE file'.form = "json" /\ file'.rest = kept'
    <3>1. readAt[p] = edits
      BY <1>0, <2>2, <2>5 DEF ReadBefore
    <3>2. Holds(data[p]) /\ data[p] \in Files
      BY <1>0, <2>1, <2>2, <2>5, <3>1 DEF CopyHolds
    <3>3. \A f \in Files : Holds(f) => Holds(Saved(p, f)) /\ Holds(Cleared(f))
      BY DEF Files, Holds, Saved, Cleared, Json
    <3> QED
      BY <2>1, <3>2, <3>3 DEF Holds
  <2> QED
    BY <2>4, <2>5 DEF EditSurvives
<1> QED
  BY <1>1, <1>2, <1>3, <1>4, <1>5, <1>6 DEF ConfigNext

\* Among any number of starts, saves and clears, the template of
\* create_private_json_file never takes the place of what the user wrote, and save and
\* clear of FileSessionStorage keep it; only one that had read the file before the edit
\* undoes it.
THEOREM EditIsKept == ConfigSpec => []EditSurvives
<1>1. ConfigInit => ConfigInv
  <2>1. ConfigInit => ConfigTypes /\ ReadBefore
    <3>1. 0 \in 0..MaxEdits /\ 0 \in 0..MaxJobs /\ 0 <= 0
      BY ConfigAssumption
    <3> QED
      BY <3>1, FilesMade DEF ConfigInit, ConfigTypes, ReadBefore
  <2> QED
    BY <2>1 DEF ConfigInit, ConfigInv, CopyHolds, EditSurvives
<1>2. ConfigInv => EditSurvives
  BY DEF ConfigInv
<1> QED
  BY <1>1, <1>2, ConfigStep, PTL DEF ConfigSpec

----------------------------------------------------------------------------
(* The bridge program *)

\* Places where a process has found a file that it would run
Vouched == {"again", "download", "checksum", "run"}

CacheTypes ==
  /\ mode \in {"package", "source", "override"} /\ binary \in {"none", "good", "bad"}
  /\ upc \in [Users -> Vouched \cup {"begin", "verify", "unlink", "failed", "running"}]
  /\ fetched \in [Users -> {"none", "good", "bad"}]
  /\ ran \in [Users -> {"none", "good", "bad"}]
  /\ spoiled \in [Users -> BOOLEAN]

\* What a process has been told of the file stays true until somebody spoils
\* it, for no process ever puts a bad file there
VouchedIsGood ==
  \A p \in Users :
    /\ mode # "override" /\ upc[p] \in Vouched /\ binary = "bad" => spoiled[p]
    /\ ran[p] = "bad" => upc[p] = "running"

CacheInv == CacheTypes /\ VouchedIsGood /\ RunsVerifiedBridge

LEMMA CacheStep == CacheInv /\ [CacheNext]_cacheVars => CacheInv'
<1> SUFFICES ASSUME CacheInv, [CacheNext]_cacheVars PROVE CacheInv'
  OBVIOUS
<1> USE DEF CacheInv, CacheTypes, VouchedIsGood, RunsVerifiedBridge, Vouched, Step
<1>1. CASE UNCHANGED cacheVars
  BY <1>1 DEF cacheVars
<1>2. CASE Spoil
  BY <1>2 DEF Spoil
<1>3. CASE Remove \/ Build
  BY <1>3 DEF Remove, Build
<1>4. ASSUME NEW p \in Users, Examine(p) \/ Verify(p) PROVE CacheInv'
  BY <1>4 DEF Examine, Verify, Rejected
<1>5. ASSUME NEW p \in Users, Unlink(p) PROVE CacheInv'
  BY <1>5 DEF Unlink
<1>6. ASSUME NEW p \in Users, ExamineAgain(p) PROVE CacheInv'
  BY <1>6 DEF ExamineAgain
<1>7. ASSUME NEW p \in Users, Download(p) PROVE CacheInv'
  BY <1>7 DEF Download
<1>8. ASSUME NEW p \in Users, Install(p) PROVE CacheInv'
  BY <1>8 DEF Install
<1>9. ASSUME NEW p \in Users, Run(p) PROVE CacheInv'
  BY <1>9 DEF Run
<1> QED
  BY <1>1, <1>2, <1>3, <1>4, <1>5, <1>6, <1>7, <1>8, <1>9 DEF CacheNext

\* However many processes resolve the bridge at a time, a file that the package
\* or the source does not vouch for is run only by a process that had begun to
\* look for it before the file was spoiled.
THEOREM VerifiedBridge == CacheSpec => []RunsVerifiedBridge
<1>1. CacheInit => CacheInv
  BY DEF CacheInit, CacheInv, CacheTypes, VouchedIsGood, RunsVerifiedBridge, Vouched
<1>2. CacheInv => RunsVerifiedBridge
  BY DEF CacheInv
<1> QED
  BY <1>1, <1>2, CacheStep, PTL DEF CacheSpec

----------------------------------------------------------------------------
(* The sender *)

SenderPlaces == {"free", "connect", "handshake", "joining", "keep", "keepReply", "request",
                 "answer", "return", "close", "forget"}

Numbers == 0..MaxCalls

Deliveries == {<<>>} \cup (Numbers \X Numbers \X Numbers)

ProcessTypes ==
  /\ spawned \in Nat /\ bridge \in Nat /\ bridge <= spawned
  /\ \A b \in live : b \in Nat /\ 0 < b /\ b <= spawned
  /\ \A b \in died : 0 < b
  /\ \A b \in failed : b \in Int /\ b <= spawned
  /\ isConnected \in BOOLEAN

CallTypes ==
  /\ tpc \in [Threads -> SenderPlaces] /\ call \in [Threads -> Numbers]
  /\ {chat, content, reply, results} \subseteq Numbers
  /\ calls \in Numbers /\ \A n \in replies : n \in Calls /\ n <= calls
  /\ delivered \in [Calls -> Deliveries] /\ answered \in [Calls -> Numbers]
  /\ shared \in BOOLEAN

SenderTypes == ProcessTypes /\ CallTypes

\* A call not made yet has left nothing behind
NotYet == \A n \in Calls : n > calls => delivered[n] = <<>> /\ answered[n] = 0

\* One thread at a time is in the sender, with the latest call
Alone ==
  /\ \A t, u \in Threads : tpc[t] # "free" /\ tpc[u] # "free" => t = u
  /\ \A t \in Threads : tpc[t] # "free" => call[t] \in Calls /\ call[t] = calls

\* What the thread has kept in the sender is its own
KeptOwn ==
  \A t \in Threads :
    /\ tpc[t] \in {"keepReply", "request"} => chat = call[t] /\ content = call[t]
    /\ tpc[t] = "request" => reply = ReplyOf(t)
    /\ tpc[t] = "return" => results = call[t]

\* What has left the sender is the call's own
LeftOwn ==
  \A n \in Calls :
    /\ delivered[n] # <<>> => delivered[n] = <<n, n, IF n \in replies THEN n ELSE 0>>
    /\ answered[n] \in {0, n}

\* The bridge that connect is working on, or that is connected, is none that a
\* connect failed on; every other one that is alive is
Dialling == \E t \in Threads : tpc[t] \in {"handshake", "joining"}

BridgePlaces ==
  /\ Dialling => ~isConnected
  /\ Dialling \/ isConnected => bridge \notin failed
  /\ \A t \in Threads : tpc[t] = "forget" => bridge \notin live
  /\ isConnected => bridge \in live \cup died \/ \E t \in Threads : tpc[t] = "forget"

InUse  == IF isConnected \/ Dialling THEN {bridge} ELSE {}
Losses == live \ InUse \subseteq failed

Sound == Alone /\ NotYet /\ KeptOwn /\ LeftOwn /\ BridgePlaces /\ Losses

SenderInv == SenderTypes /\ (~shared => Sound)

LEMMA ProcessTypesStep == ProcessTypes /\ [SenderNext]_senderVars => ProcessTypes'
<1> SUFFICES ASSUME ProcessTypes, [SenderNext]_senderVars PROVE ProcessTypes'
  OBVIOUS
<1> USE DEF ProcessTypes, Goes, fields, process
<1>1. CASE UNCHANGED senderVars
  BY <1>1 DEF senderVars
<1>2. ASSUME NEW t \in Threads, Begins(t) PROVE ProcessTypes'
  BY <1>2 DEF Begins
<1>3. ASSUME NEW t \in Threads, Spawn(t) PROVE ProcessTypes'
  <2>1. CASE UNCHANGED process
    BY <1>3, <2>1 DEF Spawn
  <2>2. CASE /\ spawned' = spawned + 1 /\ bridge' = spawned + 1 /\ live' = live \cup {spawned + 1}
             /\ UNCHANGED isConnected
    <3>1. UNCHANGED <<failed, died>>
      BY <1>3 DEF Spawn
    <3>2. \A b \in live' : b \in Nat /\ 0 < b /\ b <= spawned'
      BY <2>2
    <3>3. \A b \in failed' : b <= spawned'
      <4>1. \A b \in failed : b <= spawned
        OBVIOUS
      <4>2. \A b \in failed : b \in Int
        OBVIOUS
      <4> QED
        BY <2>2, <3>1, <4>1, <4>2
    <3> QED
      BY <2>2, <3>1, <3>2, <3>3
  <2> QED
    BY <1>3, <2>1, <2>2 DEF Spawn
<1>4. ASSUME NEW t \in Threads, Misses(t) PROVE ProcessTypes'
  BY <1>4 DEF Misses
<1>5. ASSUME NEW t \in Threads, Handshake(t) PROVE ProcessTypes'
  <2>1. isConnected' \in BOOLEAN
    BY <1>5 DEF Handshake
  <2>2. failed' \subseteq failed \cup {bridge} /\ UNCHANGED <<spawned, bridge, live, died>>
    BY <1>5 DEF Handshake
  <2> QED
    BY <2>1, <2>2
<1>6. ASSUME NEW t \in Threads,
             Keep(t) \/ KeepReply(t) \/ Request(t) \/ Answer(t) \/ Returns(t)
      PROVE  ProcessTypes'
  BY <1>6 DEF Keep, KeepReply, Request, Answer, Returns
<1>7. ASSUME NEW t \in Threads, Close(t) PROVE ProcessTypes'
  BY <1>7 DEF Close
<1>8. ASSUME NEW t \in Threads, Forget(t) PROVE ProcessTypes'
  <2>1. isConnected' \in BOOLEAN /\ bridge' = 0 /\ UNCHANGED <<spawned, live, failed, died>>
    BY <1>8 DEF Forget
  <2> QED
    BY <2>1
<1>9. CASE BridgeDies
  BY <1>9 DEF BridgeDies
<1> QED
  BY <1>1, <1>2, <1>3, <1>4, <1>5, <1>6, <1>7, <1>8, <1>9 DEF SenderNext

LEMMA CallTypesStep == CallTypes /\ [SenderNext]_senderVars => CallTypes'
<1> SUFFICES ASSUME CallTypes, [SenderNext]_senderVars PROVE CallTypes'
  OBVIOUS
<1> USE SenderAssumption DEF CallTypes, SenderPlaces, Goes, fields, process
<1>1. CASE UNCHANGED senderVars
  BY <1>1 DEF senderVars
<1>2. ASSUME NEW t \in Threads, Begins(t) PROVE CallTypes'
  <2>1. calls' = calls + 1 /\ calls + 1 \in Numbers
    BY <1>2 DEF Begins, Numbers
  <2>2. \A n \in replies' : n \in Calls /\ n <= calls'
    BY <1>2, <2>1 DEF Begins, Numbers, Calls
  <2> QED
    BY <1>2, <2>1, <2>2 DEF Begins
<1>3. ASSUME NEW t \in Threads, Spawn(t) \/ Misses(t) \/ Handshake(t) \/ Close(t) \/ Forget(t)
      PROVE  CallTypes'
  BY <1>3 DEF Spawn, Misses, Handshake, Close, Forget
<1>4. ASSUME NEW t \in Threads, Keep(t) \/ KeepReply(t) PROVE CallTypes'
  <2>1. ReplyOf(t) \in Numbers /\ call[t] \in Numbers
    BY DEF ReplyOf, Numbers
  <2> QED
    BY <1>4, <2>1 DEF Keep, KeepReply
<1>5. ASSUME NEW t \in Threads, Request(t) \/ Answer(t) \/ Returns(t) PROVE CallTypes'
  <2>1. delivered' \in [Calls -> Deliveries]
    <3>1. <<chat, content, reply>> \in Deliveries
      BY DEF Deliveries
    <3> QED
      BY <1>5, <3>1 DEF Request, Answer, Returns
  <2>2. answered' \in [Calls -> Numbers]
    BY <1>5 DEF Request, Answer, Returns
  <2> QED
    BY <1>5, <2>1, <2>2 DEF Request, Answer, Returns
<1>6. CASE BridgeDies
  BY <1>6 DEF BridgeDies
<1> QED
  BY <1>1, <1>2, <1>3, <1>4, <1>5, <1>6 DEF SenderNext

\* Whose numbers are kept in the sender, used and returned
LEMMA OwnStep ==
  ASSUME CallTypes, Alone, NotYet, KeptOwn, LeftOwn, [SenderNext]_senderVars, ~shared'
  PROVE  (Alone /\ NotYet /\ KeptOwn /\ LeftOwn)'
<1> USE SenderAssumption
    DEF CallTypes, Alone, NotYet, KeptOwn, LeftOwn, ReplyOf, SenderPlaces, Goes, fields, process
<1>1. CASE UNCHANGED senderVars
  BY <1>1 DEF senderVars
<1>2. ASSUME NEW t \in Threads, Begins(t)
      PROVE  (Alone /\ NotYet /\ KeptOwn /\ LeftOwn)'
  <2>1. calls' = calls + 1 /\ calls + 1 \in Calls /\ calls \in Nat
    BY <1>2 DEF Begins, Numbers, Calls
  <2>2. \A u \in Threads : tpc[u] = "free"
    BY <1>2 DEF Begins
  <2>3. \A n \in Calls : n \in replies' <=> n \in replies \/ (n = calls + 1 /\ n \in replies')
    BY <1>2 DEF Begins
  <2>4. Alone' /\ KeptOwn'
    BY <1>2, <2>1, <2>2 DEF Begins
  <2>5. NotYet'
    BY <1>2, <2>1 DEF Begins, Calls
  <2>6. LeftOwn'
    BY <1>2, <2>1, <2>3 DEF Begins, Calls
  <2> QED
    BY <2>4, <2>5, <2>6
<1>3. ASSUME NEW t \in Threads, Spawn(t) \/ Misses(t) \/ Handshake(t) \/ Close(t) \/ Forget(t)
      PROVE  (Alone /\ NotYet /\ KeptOwn /\ LeftOwn)'
  <2>1. UNCHANGED <<call, chat, content, reply, results, calls, replies, delivered, answered>>
    BY <1>3 DEF Spawn, Misses, Handshake, Close, Forget
  <2>2. \E pc : tpc' = [tpc EXCEPT ![t] = pc] /\ pc \in {"free", "handshake", "joining", "forget"}
    BY <1>3 DEF Spawn, Misses, Handshake, Close, Forget
  <2>3. tpc[t] # "free"
    BY <1>3 DEF Spawn, Misses, Handshake, Close, Forget
  <2> QED
    BY <2>1, <2>2, <2>3
<1>4. ASSUME NEW t \in Threads, Keep(t) \/ KeepReply(t)
      PROVE  (Alone /\ NotYet /\ KeptOwn /\ LeftOwn)'
  <2>1. CASE Keep(t)
    BY <2>1 DEF Keep
  <2>2. CASE KeepReply(t)
    BY <2>2 DEF KeepReply
  <2> QED
    BY <1>4, <2>1, <2>2
<1>5. ASSUME NEW t \in Threads, Request(t)
      PROVE  (Alone /\ NotYet /\ KeptOwn /\ LeftOwn)'
  <2>1. /\ UNCHANGED <<call, chat, content, reply, results, calls, replies, answered>>
        /\ tpc' = [tpc EXCEPT ![t] = "answer"] /\ tpc[t] = "request"
    BY <1>5 DEF Request
  <2>2. \A n \in Calls : delivered'[n] = delivered[n]
           \/ (n = call[t] /\ delivered'[n] = <<chat, content, reply>>)
    <3>1. delivered \in [Calls -> Deliveries] /\ Request(t)
      BY <1>5
    <3> HIDE DEF CallTypes, Alone, NotYet, KeptOwn, LeftOwn
    <3> QED
      BY <3>1 DEF Request
  <2>3. (Alone /\ KeptOwn)'
    BY <2>1
  <2>4. NotYet'
    <3>1. call[t] = calls /\ calls \in Nat
      BY <2>1 DEF Numbers
    <3> QED
      BY <2>1, <2>2, <3>1 DEF Calls
  <2>5. LeftOwn'
    BY <2>1, <2>2
  <2> QED
    BY <2>3, <2>4, <2>5
<1>6. ASSUME NEW t \in Threads, Answer(t)
      PROVE  (Alone /\ NotYet /\ KeptOwn /\ LeftOwn)'
  BY <1>6 DEF Answer
<1>7. ASSUME NEW t \in Threads, Returns(t)
      PROVE  (Alone /\ NotYet /\ KeptOwn /\ LeftOwn)'
  <2>1. /\ UNCHANGED <<call, chat, content, reply, results, calls, replies, delivered>>
        /\ tpc' = [tpc EXCEPT ![t] = "free"] /\ tpc[t] = "return"
    BY <1>7 DEF Returns
  <2>2. \A n \in Calls : answered'[n] = answered[n] \/ (n = call[t] /\ answered'[n] = call[t])
    <3>1. answered \in [Calls -> Numbers] /\ Returns(t) /\ results = call[t]
      BY <1>7 DEF Returns
    <3> HIDE DEF CallTypes, Alone, NotYet, KeptOwn, LeftOwn
    <3> QED
      BY <3>1 DEF Returns
  <2>3. (Alone /\ KeptOwn)'
    BY <2>1
  <2>4. NotYet'
    <3>1. call[t] = calls /\ calls \in Nat
      BY <2>1 DEF Numbers
    <3> QED
      BY <2>1, <2>2, <3>1 DEF Calls
  <2>5. LeftOwn'
    BY <2>1, <2>2
  <2> QED
    BY <2>3, <2>4, <2>5
<1>8. CASE BridgeDies
  BY <1>8 DEF BridgeDies
<1> QED
  BY <1>1, <1>2, <1>3, <1>4, <1>5, <1>6, <1>7, <1>8 DEF SenderNext

\* A bridge is lost only by a connect that failed on it
LEMMA BridgeStep ==
  ASSUME SenderTypes, Alone, BridgePlaces, Losses, [SenderNext]_senderVars
  PROVE  (BridgePlaces /\ Losses)'
<1>1. /\ tpc \in [Threads -> SenderPlaces] /\ ProcessTypes
      /\ \A t, u \in Threads : tpc[t] # "free" /\ tpc[u] # "free" => t = u
  BY DEF SenderTypes, CallTypes, Alone
<1>2. ASSUME UNCHANGED <<bridge, isConnected, live, failed, died>>, Dialling' <=> Dialling,
             \A t \in Threads : tpc'[t] = "forget" <=> tpc[t] = "forget"
      PROVE  (BridgePlaces /\ Losses)'
  BY <1>2 DEF BridgePlaces, Losses, InUse
<1>3. CASE UNCHANGED senderVars
  BY <1>2, <1>3 DEF senderVars, process, Dialling
<1>4. ASSUME NEW t \in Threads,
             Begins(t) \/ Keep(t) \/ KeepReply(t) \/ Request(t) \/ Answer(t) \/ Returns(t)
      PROVE  (BridgePlaces /\ Losses)'
  <2>1. UNCHANGED <<bridge, isConnected, live, failed, died>>
    BY <1>4 DEF Begins, Keep, KeepReply, Request, Answer, Returns, process
  <2>2. tpc[t] \in {"free", "keep", "keepReply", "request", "answer", "return"}
    BY <1>4 DEF Begins, Keep, KeepReply, Request, Answer, Returns
  <2>3. \E pc \in {"connect", "keep", "close", "keepReply", "request", "answer", "return", "free"} :
          tpc' = [tpc EXCEPT ![t] = pc]
    BY <1>4 DEF Begins, Keep, KeepReply, Request, Answer, Returns, Goes
  <2>4. \A u \in Threads : /\ tpc'[u] = "forget" <=> tpc[u] = "forget"
                           /\ tpc'[u] \in {"handshake", "joining"} <=> tpc[u] \in {"handshake", "joining"}
    BY <1>1, <2>2, <2>3
  <2> QED
    BY <1>2, <2>1, <2>4 DEF Dialling
<1>5. ASSUME NEW t \in Threads, tpc[t] # "free", \A u \in Threads : u # t => tpc'[u] = tpc[u]
      PROVE  /\ Dialling <=> tpc[t] \in {"handshake", "joining"}
             /\ Dialling' <=> tpc'[t] \in {"handshake", "joining"}
             /\ \A u \in Threads : tpc[u] = "forget" \/ tpc'[u] = "forget" => u = t
  BY <1>1, <1>5 DEF Dialling
<1>6. ASSUME NEW t \in Threads, Spawn(t) PROVE (BridgePlaces /\ Losses)'
  <2>1. ~Dialling /\ tpc[t] = "connect" /\ UNCHANGED <<failed, died>>
    BY <1>1, <1>6 DEF Spawn, Dialling
  <2>0. \A u \in Threads : u # t => tpc'[u] = tpc[u]
    BY <1>1, <1>6 DEF Spawn, Goes
  <2>2. CASE tpc' = [tpc EXCEPT ![t] = "free"] /\ UNCHANGED process
    <3>1. tpc'[t] = "free" /\ UNCHANGED <<bridge, isConnected, live, failed, died>>
      BY <1>1, <2>1, <2>2 DEF process
    <3> QED
      BY <1>2, <1>5, <2>0, <2>1, <3>1
  <2>3. CASE /\ ~isConnected /\ tpc' = [tpc EXCEPT ![t] = "handshake"]
             /\ bridge' = spawned + 1 /\ live' = live \cup {spawned + 1}
             /\ UNCHANGED isConnected
    <3>1. spawned + 1 \notin failed
      BY <1>1 DEF ProcessTypes
    <3>2. tpc'[t] = "handshake"
      BY <1>1, <2>3
    <3>3. Dialling' /\ \A u \in Threads : tpc'[u] # "forget"
      BY <1>5, <2>0, <2>1, <3>2
    <3>4. live \subseteq failed
      BY <2>1, <2>3 DEF Losses, InUse
    <3>5. bridge' \notin failed' /\ live' \subseteq failed' \cup {bridge'}
      BY <2>1, <2>3, <3>1, <3>4
    <3> QED
      BY <2>3, <3>3, <3>5 DEF BridgePlaces, Losses, InUse
  <2> QED
    BY <1>6, <2>2, <2>3 DEF Spawn, Goes
<1>7. ASSUME NEW t \in Threads, Misses(t) PROVE (BridgePlaces /\ Losses)'
  <2>1. /\ tpc[t] = "handshake" /\ tpc' = [tpc EXCEPT ![t] = "free"]
        /\ live' = live \ {bridge} /\ UNCHANGED <<isConnected, failed, died>>
    BY <1>7 DEF Misses, Goes
  <2>0. tpc'[t] = "free" /\ \A u \in Threads : u # t => tpc'[u] = tpc[u]
    BY <1>1, <2>1
  <2>2. Dialling /\ ~isConnected /\ ~Dialling' /\ ~isConnected'
    BY <1>5, <2>0, <2>1 DEF BridgePlaces
  <2>3. live' \subseteq failed'
    BY <2>1, <2>2 DEF Losses, InUse
  <2> QED
    BY <1>5, <2>0, <2>1, <2>2, <2>3 DEF BridgePlaces, Losses
<1>8. ASSUME NEW t \in Threads, Handshake(t) PROVE (BridgePlaces /\ Losses)'
  <2>1. tpc[t] \in {"handshake", "joining"} /\ UNCHANGED <<bridge, live, died>>
    BY <1>8 DEF Handshake
  <2>0. \A u \in Threads : u # t => tpc'[u] = tpc[u]
    BY <1>1, <1>8 DEF Handshake, Goes
  <2>2. Dialling /\ ~isConnected /\ bridge \notin failed /\ live \subseteq failed \cup {bridge}
    BY <2>1 DEF Dialling, BridgePlaces, Losses, InUse
  <2>3. tpc'[t] \in {"free", "joining"} /\ \A u \in Threads : tpc'[u] # "forget"
    <3>1. tpc'[t] \in {"free", "joining"}
      BY <1>1, <1>8 DEF Handshake, Goes
    <3> QED
      BY <1>5, <2>0, <2>1, <3>1
  <2>4. CASE tpc[t] = "joining" /\ bridge \in live /\ UNCHANGED failed /\ tpc'[t] = "free" /\ isConnected'
    BY <1>5, <2>0, <2>1, <2>2, <2>3, <2>4 DEF BridgePlaces, Losses, InUse
  <2>5. CASE tpc'[t] = "joining" /\ UNCHANGED failed /\ ~isConnected'
    BY <1>5, <2>0, <2>1, <2>2, <2>3, <2>5 DEF BridgePlaces, Losses, InUse
  <2>6. CASE tpc'[t] = "free" /\ failed' = failed \cup {bridge} /\ ~isConnected'
    BY <1>5, <2>0, <2>1, <2>2, <2>3, <2>6 DEF BridgePlaces, Losses, InUse
  <2>7. CASE bridge \in live /\ isConnected' = (isConnected \/ tpc[t] = "joining") /\ UNCHANGED failed
             /\ tpc' = [tpc EXCEPT ![t] = IF tpc[t] = "joining" THEN "free" ELSE "joining"]
    <3>1. CASE tpc[t] = "joining"
      <4>1. tpc'[t] = "free" /\ isConnected'
        BY <1>1, <2>7, <3>1
      <4> QED
        BY <2>4, <2>7, <3>1, <4>1
    <3>2. CASE tpc[t] # "joining"
      <4>1. tpc'[t] = "joining"
        BY <1>1, <2>7, <3>2
      <4>2. ~isConnected'
        BY <2>2, <2>7, <3>2
      <4> QED
        BY <2>5, <2>7, <4>1, <4>2
    <3> QED
      BY <3>1, <3>2
  <2>8. CASE tpc' = [tpc EXCEPT ![t] = "free"] /\ failed' = failed \cup {bridge} /\ UNCHANGED isConnected
    <3>1. tpc'[t] = "free"
      BY <1>1, <2>8
    <3> QED
      BY <2>2, <2>6, <2>8, <3>1
  <2> QED
    BY <1>8, <2>7, <2>8 DEF Handshake, Goes
<1>9. ASSUME NEW t \in Threads, Close(t) PROVE (BridgePlaces /\ Losses)'
  <2>1. /\ tpc[t] = "close" /\ live' = live \ {bridge}
        /\ tpc' = [tpc EXCEPT ![t] = IF bridge = 0 THEN "free" ELSE "forget"]
        /\ UNCHANGED <<bridge, isConnected, failed, died>>
    BY <1>9 DEF Close, Goes
  <2>0. /\ tpc'[t] = IF bridge = 0 THEN "free" ELSE "forget"
        /\ \A u \in Threads : u # t => tpc'[u] = tpc[u]
    BY <1>1, <2>1
  <2>2. ~Dialling /\ ~Dialling' /\ (isConnected => bridge \in live \cup died /\ bridge \notin failed)
    BY <1>5, <2>0, <2>1 DEF BridgePlaces
  <2>3. live' \subseteq failed'
    BY <2>1 DEF Losses, InUse
  <2>4. bridge = 0 => ~isConnected
    <3>1. 0 \notin live /\ 0 \notin died
      BY <1>1 DEF ProcessTypes
    <3> QED
      BY <2>2, <3>1
  <2> QED
    BY <1>5, <2>0, <2>1, <2>2, <2>3, <2>4 DEF BridgePlaces, Losses
<1>10. ASSUME NEW t \in Threads, Forget(t) PROVE (BridgePlaces /\ Losses)'
  <2>1. /\ tpc[t] = "forget" /\ ~isConnected' /\ tpc' = [tpc EXCEPT ![t] = "free"]
        /\ UNCHANGED <<live, failed, died>>
    BY <1>10 DEF Forget, Goes
  <2>0. tpc'[t] = "free" /\ \A u \in Threads : u # t => tpc'[u] = tpc[u]
    BY <1>1, <2>1
  <2>2. ~Dialling' /\ bridge \notin live
    BY <1>5, <2>0, <2>1 DEF BridgePlaces
  <2>3. live' \subseteq failed'
    BY <2>1, <2>2 DEF Losses, InUse
  <2> QED
    BY <1>5, <2>0, <2>1, <2>2, <2>3 DEF BridgePlaces, Losses
<1>11. CASE BridgeDies
  <2>1. PICK b \in live : live' = live \ {b} /\ died' = died \cup {b}
    BY <1>11 DEF BridgeDies
  <2>2. UNCHANGED <<tpc, bridge, isConnected, failed>>
    BY <1>11 DEF BridgeDies
  <2>3. (Dialling' <=> Dialling) /\ InUse' = InUse
    BY <2>2 DEF Dialling, InUse
  <2>4. Losses'
    BY <2>1, <2>2, <2>3 DEF Losses
  <2>5. BridgePlaces'
    BY <2>1, <2>2, <2>3 DEF BridgePlaces
  <2> QED
    BY <2>4, <2>5
<1> QED
  BY <1>3, <1>4, <1>6, <1>7, <1>8, <1>9, <1>10, <1>11 DEF SenderNext

LEMMA SharedStays == [SenderNext]_senderVars /\ shared => shared'
  BY DEF SenderNext, senderVars, Begins, Spawn, Misses, Handshake, Keep, KeepReply, Request,
         Answer, Returns, Close, Forget, BridgeDies

\* A sender used by one thread at a time sends each message to its own chat with
\* its own text and reply and returns its own answer; a bridge is lost only by a
\* connect that failed on it, and between calls the sender takes itself for connected
\* only on the bridge that its last connect has connected and that it has not closed,
\* running or dead.
THEOREM SenderIsSound == SenderSpec => []SenderSound
<1>1. SenderInit => SenderInv
  <2> SUFFICES ASSUME SenderInit PROVE SenderInv
    OBVIOUS
  <2>1. 0 \in Numbers /\ <<>> \in Deliveries
    BY SenderAssumption DEF Numbers, Deliveries
  <2>2. SenderTypes
    <3>1. ProcessTypes
      <4>1. isConnected \in BOOLEAN
        BY DEF SenderInit
      <4> QED
        BY <4>1 DEF SenderInit, ProcessTypes
    <3>2. CallTypes
      BY <2>1 DEF SenderInit, CallTypes, SenderPlaces
    <3> QED
      BY <3>1, <3>2 DEF SenderTypes
  <2>3. Alone /\ NotYet /\ KeptOwn /\ LeftOwn /\ BridgePlaces
    BY DEF SenderInit, Alone, NotYet, KeptOwn, LeftOwn, BridgePlaces, Dialling
  <2>4. Losses
    BY DEF SenderInit, Losses
  <2> QED
    BY <2>2, <2>3, <2>4 DEF SenderInv, Sound
<1>2. SenderInv /\ [SenderNext]_senderVars => SenderInv'
  <2> SUFFICES ASSUME SenderInv, [SenderNext]_senderVars PROVE SenderInv'
    OBVIOUS
  <2>1. SenderTypes'
    BY ProcessTypesStep, CallTypesStep DEF SenderInv, SenderTypes
  <2>2. ASSUME ~shared' PROVE Sound'
    <3>1. SenderTypes /\ CallTypes /\ Sound
      BY <2>2, SharedStays DEF SenderInv, SenderTypes
    <3> QED
      BY <2>2, <3>1, OwnStep, BridgeStep DEF Sound
  <2> QED
    BY <2>1, <2>2 DEF SenderInv
<1>3. SenderInv => SenderSound
  <2> SUFFICES ASSUME SenderInv, ~shared PROVE SenderSound
    BY DEF SenderSound
  <2>1. Sound
    BY DEF SenderInv
  <2>2. live \subseteq failed \cup {bridge}
    BY <2>1 DEF Sound, Losses, InUse
  <2>3. isConnected /\ (\A t \in Threads : tpc[t] = "free") => bridge \in (live \cup died) \ failed
    BY <2>1 DEF Sound, BridgePlaces
  <2> QED
    BY <2>1, <2>2, <2>3 DEF Sound, LeftOwn, SenderSound
<1> QED
  BY <1>1, <1>2, <1>3, PTL DEF SenderSpec

==============================================================================
