------------------------- MODULE E2EEListener_proofs -------------------------
(***************************************************************************)
(* What holds of every listener, however many threads run it, stop it and  *)
(* wait for it: the types and the three safety properties of E2EEListener. *)
(***************************************************************************)
EXTENDS E2EEListener, TLAPS

----------------------------------------------------------------------------
(* The inductive invariant, in four parts *)

(* Who owns the bridge of a run *)

Active(r) == pc[r] \notin {"idle", "refused"}

\* _claim_run lets one run in
OneRun ==
  /\ \A r \in Runs : Active(r) => runStarted
  /\ \A r, q \in Runs : Active(r) /\ Active(q) => r = q

\* Where a run may be in stop(), and until when the listener refers to its bridge
Places ==
  /\ \A r \in Runs : spc[r] # "off" => pc[r] \in {"leaving", "unwinding", "calledBack", "closing"}
  /\ \A r \in Runs : ref = r =>
       /\ pc[r] \notin {"idle", "refused", "spawning", "attaching", "closing", "ended"}
       /\ spc[r] \in {"off", "marked", "halfClear", "cleared"}
  /\ \A r \in Runs : pc[r] = "closing" => spc[r] # "off"
  /\ \A r \in Runs : pc[r] \in {"idle", "refused", "spawning"} => bridge[r] = "none"

\* Somebody will close an open bridge, and somebody closes a closing one
Owned ==
  \A r \in Runs :
    /\ bridge[r] = "open" =>
         \/ ref = r \/ pc[r] \in {"attaching", "failing", "failed", "unwinding"}
         \/ \E t \in Threads : spc[t] = "taken" /\ held[t] = r
    /\ bridge[r] = "closing" => \E t \in Threads : spc[t] = "closing" /\ held[t] = r
ClosingOnce == \A t \in Threads : spc[t] = "closing" => bridge[held[t]] \in {"closing", "closed"}

OwnerInv == RunTypes /\ OneRun /\ Places /\ Owned /\ ClosingOnce

(* What the flags say *)

InLoop(r)   == pc[r] \in {"poll", "getting", "applying", "calledBack"}
Attached(r) == pc[r] \in {"watching", "publishing", "setConnected", "setE2EE", "setDone"}
Post(r)     == InLoop(r) \/ Attached(r)

\* Unless somebody stopped the listener, a run in _poll_loop is connected but
\* for a recovery, and one past its stop() has lowered both flags
FlagsFollow ==
  /\ \A t \in Threads : spc[t] # "off" => stop
  /\ \A r \in Runs :
      /\ InLoop(r) /\ ~stop => (connected <=> ~recovering) /\ (e2ee => connected)
      /\ pc[r] = "setE2EE" /\ ~stop => connected
      /\ pc[r] = "setDone" /\ ~stop => connected
      /\ Attached(r) => ~recovering
      /\ pc[r] = "leaving" /\ spc[r] \notin {"off", "marked"} => ~connected
      /\ pc[r] = "leaving" /\ spc[r] \notin {"off", "marked", "halfClear"} => ~e2ee
      /\ pc[r] \in {"unwinding", "closing", "ended"} => ~connected /\ ~e2ee

FlagInv == FlagTypes /\ FlagsFollow

(* What the queue says *)

Marks == {"up", "down", "closed", "fatal"}
Marked(i) == events[i] \in Marks
Unmarked == \A i \in 1..Len(events) : ~Marked(i)
LastMark(i) == Marked(i) /\ \A j \in 1..Len(events) : i < j => ~Marked(j)
FatalQueued == \E i \in 1..Len(events) : events[i] = "fatal"
Applying == \E r \in Runs : pc[r] = "applying"
MarkInHand == Applying /\ evt \in Marks

TrueOfLink(k) == (k = "up" <=> link = "up") /\ (k = "fatal" <=> link = "fatal")

\* The last announcement is true of the transport, queued, in hand or applied
Announced ==
  /\ \A i \in 1..Len(events) : LastMark(i) => TrueOfLink(events[i])
  /\ Unmarked /\ MarkInHand => TrueOfLink(evt)
  /\ Unmarked /\ ~MarkInHand /\ link \notin {"starting", "fatal"} => (recovering <=> link # "up")

\* A run in _poll_loop still has to see the fatal error
FatalAhead ==
  link = "fatal" => \A r \in Runs : Post(r) =>
    FatalQueued \/ (pc[r] = "applying" /\ evt = "fatal")

\* Before the handshake nothing is announced but the end of the process
Quiet ==
  /\ link = "starting" => Unmarked /\ ~Applying /\ ~recovering
  /\ link \in {"starting", "stillborn"} => watchdog = "off"
  /\ \A r \in Runs : Post(r) \/ pc[r] = "leaving" => link \notin {"starting", "stillborn"}
  /\ \A r \in Runs : pc[r] = "applying" => evt \in Kinds

QueueInv == SourceTypes /\ Announced /\ FatalAhead /\ Quiet

(* What a waiter can see of a startup that failed *)

Undisturbed == (\A t \in Stoppers : spc[t] = "off") /\ ~HandshakeDone

ErrorFirst ==
  /\ \A r \in Runs : pc[r] \in {"failed", "unwinding"} => startupError
  /\ Undisturbed /\ startupDone => startupError /\ runStarted
  /\ Undisturbed => \A w \in Waiters :
       /\ wpc[w] \notin {"regular", "secure", "true", "false"}
       /\ wpc[w] = "error" => startupError /\ runStarted

WaitInv == WaitTypes /\ ErrorFirst

----------------------------------------------------------------------------
LEMMA Raised ==
  ASSUME NEW f \in [Runs -> BOOLEAN], NEW r \in Runs PROVE [f EXCEPT ![r] = TRUE] \in [Runs -> BOOLEAN]
OBVIOUS

LEMMA OwnerStep == OwnerInv /\ [Next]_vars => OwnerInv'
<1> SUFFICES ASSUME OwnerInv, [Next]_vars PROVE OwnerInv'
  OBVIOUS
<1> USE ThreadsAssumption
       DEF OwnerInv, RunTypes, OneRun, Active, Places, Owned, ClosingOnce, Threads, At, Go, Wait, Put, Stops,
           flags, calls, source, waits, stopEnv, runEnv, waitEnv
<1>1. ASSUME NEW t \in Threads, StopMark(t) PROVE OwnerInv'
  BY <1>1 DEF StopMark
<1>2. ASSUME NEW t \in Threads, StopClearConnected(t) PROVE OwnerInv'
  BY <1>2 DEF StopClearConnected
<1>3. ASSUME NEW t \in Threads, StopClearE2EE(t) PROVE OwnerInv'
  BY <1>3 DEF StopClearE2EE
<1>4. ASSUME NEW t \in Threads, StopTake(t) PROVE OwnerInv'
  BY <1>4 DEF StopTake, TakeRef
<1>5. ASSUME NEW t \in Threads, CloseBegin(t) PROVE OwnerInv'
  BY <1>5 DEF CloseBegin
<1>6. ASSUME NEW t \in Threads, CloseEnd(t) PROVE OwnerInv'
  BY <1>6 DEF CloseEnd
<1>7. ASSUME NEW t \in Runs, Claim(t) PROVE OwnerInv'
  BY <1>7 DEF Claim, Claimable
<1>8. ASSUME NEW t \in Runs, SpawnBridge(t) PROVE OwnerInv'
  <2>1. pc[t] = "spawning" /\ UNCHANGED <<runStarted, ref, raising, spc, held>>
    BY <1>8 DEF SpawnBridge
  <2>2. CASE bridge' = [bridge EXCEPT ![t] = "open"] /\ pc' = [pc EXCEPT ![t] = "attaching"]
    <3>1. RunTypes' /\ OneRun'
      BY <2>1, <2>2
    <3>2. Places'
      BY <2>1, <2>2
    <3>3. Owned'
      BY <2>1, <2>2
    <3>4. ClosingOnce'
      BY <2>1, <2>2
    <3> QED
      BY <3>1, <3>2, <3>3, <3>4
  <2>3. CASE UNCHANGED bridge /\ pc' = [pc EXCEPT ![t] = "failing"]
    BY <2>1, <2>3
  <2> QED
    BY <1>8, <2>2, <2>3 DEF SpawnBridge
<1>9. ASSUME NEW t \in Runs, Attach(t) PROVE OwnerInv'
  BY <1>9 DEF Attach
<1>10. ASSUME NEW t \in Runs, Handshake(t) PROVE OwnerInv'
  BY <1>10 DEF Handshake
<1>11. ASSUME NEW t \in Runs, StartWatchdog(t) PROVE OwnerInv'
  BY <1>11 DEF StartWatchdog
<1>12. ASSUME NEW t \in Runs, Publish(t) PROVE OwnerInv'
  BY <1>12 DEF Publish
<1>13. ASSUME NEW t \in Runs, SetConnected(t) PROVE OwnerInv'
  BY <1>13 DEF SetConnected
<1>14. ASSUME NEW t \in Runs, SetE2EE(t) PROVE OwnerInv'
  BY <1>14 DEF SetE2EE
<1>15. ASSUME NEW t \in Runs, SetDone(t) PROVE OwnerInv'
  BY <1>15 DEF SetDone
<1>16. ASSUME NEW t \in Runs, Fail(t) PROVE OwnerInv'
  BY <1>16 DEF Fail
<1>17. ASSUME NEW t \in Runs, FailAnnounce(t) PROVE OwnerInv'
  BY <1>17 DEF FailAnnounce
<1>18. ASSUME NEW t \in Runs, CloseOwn(t) PROVE OwnerInv'
  BY <1>18 DEF CloseOwn
<1>19. ASSUME NEW t \in Runs, RunContinues(t) PROVE OwnerInv'
  BY <1>19 DEF RunContinues, AfterStop
<1>20. ASSUME NEW t \in Runs, Poll(t) PROVE OwnerInv'
  BY <1>20 DEF Poll, PollGoesTo
<1>21. ASSUME NEW t \in Runs, PollEmpty(t) PROVE OwnerInv'
  BY <1>21 DEF PollEmpty
<1>22. ASSUME NEW t \in Runs, PollGet(t) PROVE OwnerInv'
  BY <1>22 DEF PollGet
<1>23. ASSUME NEW t \in Runs, Apply(t) PROVE OwnerInv'
  <2>1. pc[t] = "applying" /\ UNCHANGED <<runStarted, ref, bridge, spc, held>>
    BY <1>23 DEF Apply
  <2>2. \/ pc' = [pc EXCEPT ![t] = "leaving"] \/ pc' = [pc EXCEPT ![t] = "poll"]
        \/ pc' = [pc EXCEPT ![t] = "calledBack"]
    BY <1>23 DEF Apply
  <2>3. raising' = raising \/ raising' = [raising EXCEPT ![t] = TRUE]
    BY <1>23 DEF Apply
  <2>4. raising' \in [Runs -> BOOLEAN]
    <3>1. raising \in [Runs -> BOOLEAN]
      BY DEF OwnerInv, RunTypes
    <3> HIDE DEF OwnerInv, RunTypes
    <3> QED
      BY <2>3, <3>1, Raised
  <2> QED
    BY <2>1, <2>2, <2>4
<1>24. ASSUME NEW k \in Kinds, SocketEvent(k) PROVE OwnerInv'
  BY <1>24 DEF SocketEvent
<1>25. ASSUME ProcessExits PROVE OwnerInv'
  BY <1>25 DEF ProcessExits
<1>26. ASSUME RecoveryBegins PROVE OwnerInv'
  BY <1>26 DEF RecoveryBegins
<1>27. ASSUME RecoveryEnds PROVE OwnerInv'
  BY <1>27 DEF RecoveryEnds
<1>28. ASSUME NEW t \in Waiters, WaitBegin(t) PROVE OwnerInv'
  BY <1>28 DEF WaitBegin
<1>29. ASSUME NEW t \in Waiters, WaitStartup(t) PROVE OwnerInv'
  BY <1>29 DEF WaitStartup
<1>30. ASSUME NEW t \in Waiters, WaitError(t) PROVE OwnerInv'
  BY <1>30 DEF WaitError
<1>31. ASSUME NEW t \in Waiters, WaitRegular(t) PROVE OwnerInv'
  BY <1>31 DEF WaitRegular
<1>32. ASSUME NEW t \in Waiters, WaitSecure(t) PROVE OwnerInv'
  BY <1>32 DEF WaitSecure
<1>33. ASSUME UNCHANGED vars PROVE OwnerInv'
  BY <1>33 DEF vars
<1> QED
  BY <1>1, <1>2, <1>3, <1>4, <1>5, <1>6, <1>7, <1>8, <1>9, <1>10, <1>11, <1>12, <1>13, <1>14,
     <1>15, <1>16, <1>17, <1>18, <1>19, <1>20, <1>21, <1>22, <1>23, <1>24, <1>25, <1>26, <1>27,
     <1>28, <1>29, <1>30, <1>31, <1>32, <1>33
     DEF Next, StopStep, RunStep, BridgeStep, WaitStep

LEMMA FlagStep == FlagInv /\ RunTypes /\ OneRun /\ Places /\ Quiet /\ [Next]_vars => FlagInv'
<1> SUFFICES ASSUME FlagInv, RunTypes, OneRun, Places, Quiet, [Next]_vars PROVE FlagInv'
  OBVIOUS
<1> USE ThreadsAssumption, ParamsAssumption
       DEF FlagInv, FlagTypes, FlagsFollow, InLoop, Attached, Post, RunTypes, OneRun, Active, Places,
           Threads, At, Go, Wait, Put, Stops, flags, calls, source, waits, stopEnv, runEnv, waitEnv
<1>1. ASSUME NEW t \in Threads, StopMark(t) PROVE FlagInv'
  BY <1>1 DEF StopMark
<1>2. ASSUME NEW t \in Threads, StopClearConnected(t) PROVE FlagInv'
  BY <1>2 DEF StopClearConnected
<1>3. ASSUME NEW t \in Threads, StopClearE2EE(t) PROVE FlagInv'
  BY <1>3 DEF StopClearE2EE
<1>4. ASSUME NEW t \in Threads, StopTake(t) PROVE FlagInv'
  BY <1>4 DEF StopTake, TakeRef
<1>5. ASSUME NEW t \in Threads, CloseBegin(t) PROVE FlagInv'
  BY <1>5 DEF CloseBegin
<1>6. ASSUME NEW t \in Threads, CloseEnd(t) PROVE FlagInv'
  BY <1>6 DEF CloseEnd
<1>7. ASSUME NEW t \in Runs, Claim(t) PROVE FlagInv'
  <2>1. CASE Claimable
    <3>1. \A r \in Runs : ~Active(r)
      BY <2>1 DEF Claimable
    <3>2. \A r \in Runs : r # t => pc'[r] \in {"idle", "refused"}
      BY <1>7, <2>1, <3>1 DEF Claim
    <3>3. pc'[t] = "spawning"
      BY <1>7, <2>1 DEF Claim
    <3>6. FlagTypes'
      <4>1. /\ runStarted' = TRUE /\ startupDone' = FALSE /\ startupError' = FALSE
            /\ connected' = FALSE /\ e2ee' = FALSE /\ stop' = stop /\ recovering' = recovering
        BY <1>7, <2>1 DEF Claim
      <4> QED
        BY <4>1
    <3>4. UNCHANGED <<stop, spc>>
      BY <1>7 DEF Claim
    <3>5. \A r \in Runs : pc'[r] \in {"idle", "refused", "spawning"}
      BY <3>2, <3>3
    <3> QED
      BY <3>3, <3>4, <3>5, <3>6
  <2>2. CASE ~Claimable
    BY <1>7, <2>2 DEF Claim
  <2> QED
    BY <2>1, <2>2
<1>8. ASSUME NEW t \in Runs, SpawnBridge(t) PROVE FlagInv'
  BY <1>8 DEF SpawnBridge
<1>9. ASSUME NEW t \in Runs, Attach(t) PROVE FlagInv'
  BY <1>9 DEF Attach
<1>10. ASSUME NEW t \in Runs, Handshake(t) PROVE FlagInv'
  BY <1>10 DEF Handshake, Quiet
<1>11. ASSUME NEW t \in Runs, StartWatchdog(t) PROVE FlagInv'
  BY <1>11 DEF StartWatchdog
<1>12. ASSUME NEW t \in Runs, Publish(t) PROVE FlagInv'
  BY <1>12 DEF Publish
<1>13. ASSUME NEW t \in Runs, SetConnected(t) PROVE FlagInv'
  BY <1>13 DEF SetConnected
<1>14. ASSUME NEW t \in Runs, SetE2EE(t) PROVE FlagInv'
  BY <1>14 DEF SetE2EE
<1>15. ASSUME NEW t \in Runs, SetDone(t) PROVE FlagInv'
  BY <1>15 DEF SetDone
<1>16. ASSUME NEW t \in Runs, Fail(t) PROVE FlagInv'
  BY <1>16 DEF Fail, RecordError
<1>17. ASSUME NEW t \in Runs, FailAnnounce(t) PROVE FlagInv'
  BY <1>17 DEF FailAnnounce
<1>18. ASSUME NEW t \in Runs, CloseOwn(t) PROVE FlagInv'
  BY <1>18 DEF CloseOwn
<1>19. ASSUME NEW t \in Runs, RunContinues(t) PROVE FlagInv'
  BY <1>19 DEF RunContinues, AfterStop
<1>20. ASSUME NEW t \in Runs, Poll(t) PROVE FlagInv'
  BY <1>20 DEF Poll, PollGoesTo
<1>21. ASSUME NEW t \in Runs, PollEmpty(t) PROVE FlagInv'
  BY <1>21 DEF PollEmpty
<1>22. ASSUME NEW t \in Runs, PollGet(t) PROVE FlagInv'
  BY <1>22 DEF PollGet
<1>23. ASSUME NEW t \in Runs, Apply(t) PROVE FlagInv'
  <2>1. /\ UNCHANGED <<runStarted, stop, startupDone, startupError, spc>>
        /\ pc[t] = "applying" /\ spc[t] = "off" /\ evt \in Kinds
        /\ connected' = RegularUp /\ e2ee' = SecureUp
        /\ recovering' = CASE evt \in {"down", "closed"} -> TRUE [] evt = "up" -> FALSE [] OTHER -> recovering
    BY <1>23 DEF Apply, Quiet
  <2>2. connected' \in BOOLEAN /\ e2ee' \in BOOLEAN /\ recovering' \in BOOLEAN
    BY <2>1 DEF RegularUp, SecureUp, Kinds
  <2>3. /\ \A r \in Runs : r # t => ~Active(r) /\ pc'[r] = pc[r]
        /\ pc'[t] \in {"leaving", "poll", "calledBack"} /\ (evt = "fatal" => pc'[t] = "leaving")
    BY <1>23, <2>1 DEF Apply
  <2>4. evt # "fatal" /\ ~stop => (connected' <=> ~recovering') /\ (e2ee' => connected')
    <3>1. ~stop => (connected <=> ~recovering) /\ (e2ee => connected)
      BY <2>1
    <3> QED
      BY <2>1, <3>1 DEF RegularUp, SecureUp, Kinds
  <2> QED
    BY <2>1, <2>2, <2>3, <2>4
<1>24. ASSUME NEW k \in Kinds, SocketEvent(k) PROVE FlagInv'
  BY <1>24 DEF SocketEvent
<1>25. ASSUME ProcessExits PROVE FlagInv'
  BY <1>25 DEF ProcessExits
<1>26. ASSUME RecoveryBegins PROVE FlagInv'
  BY <1>26 DEF RecoveryBegins
<1>27. ASSUME RecoveryEnds PROVE FlagInv'
  BY <1>27 DEF RecoveryEnds
<1>28. ASSUME NEW t \in Waiters, WaitBegin(t) PROVE FlagInv'
  BY <1>28 DEF WaitBegin
<1>29. ASSUME NEW t \in Waiters, WaitStartup(t) PROVE FlagInv'
  BY <1>29 DEF WaitStartup
<1>30. ASSUME NEW t \in Waiters, WaitError(t) PROVE FlagInv'
  BY <1>30 DEF WaitError
<1>31. ASSUME NEW t \in Waiters, WaitRegular(t) PROVE FlagInv'
  BY <1>31 DEF WaitRegular
<1>32. ASSUME NEW t \in Waiters, WaitSecure(t) PROVE FlagInv'
  BY <1>32 DEF WaitSecure
<1>33. ASSUME UNCHANGED vars PROVE FlagInv'
  BY <1>33 DEF vars
<1> QED
  BY <1>1, <1>2, <1>3, <1>4, <1>5, <1>6, <1>7, <1>8, <1>9, <1>10, <1>11, <1>12, <1>13, <1>14,
     <1>15, <1>16, <1>17, <1>18, <1>19, <1>20, <1>21, <1>22, <1>23, <1>24, <1>25, <1>26, <1>27,
     <1>28, <1>29, <1>30, <1>31, <1>32, <1>33
     DEF Next, StopStep, RunStep, BridgeStep, WaitStep

\* What an event at the end of the queue makes the last announcement
LEMMA AppendMarks ==
  ASSUME events \in Seq(Kinds), NEW k \in Kinds, events' = Append(events, k)
  PROVE  /\ k \in Marks => ~Unmarked' /\ \A i \in 1..Len(events') : LastMark(i)' => events'[i] = k
         /\ k \notin Marks => (Unmarked' <=> Unmarked)
         /\ k \notin Marks => \A i \in 1..Len(events') :
              LastMark(i)' => i \in 1..Len(events) /\ LastMark(i) /\ events'[i] = events[i]
         /\ FatalQueued \/ k = "fatal" => FatalQueued'
         /\ events' \in Seq(Kinds)
<1> DEFINE n == Len(events)
<1>1. /\ n \in Nat /\ Len(events') = n + 1 /\ events'[n + 1] = k /\ events' \in Seq(Kinds)
      /\ \A i \in 1..n : events'[i] = events[i] /\ i \in 1..(n + 1) /\ i < n + 1
      /\ n + 1 \in 1..(n + 1) /\ \A i \in 1..(n + 1) : i \in 1..n \/ i = n + 1
  OBVIOUS
<1> HIDE DEF n
<1>2. Len(events) = n
  BY DEF n
<1> QED
  BY <1>1, <1>2 DEF Unmarked, LastMark, Marked, FatalQueued

\* What is left when the first event is taken
LEMMA TailMarks ==
  ASSUME events \in Seq(Kinds), events # <<>>, evt' = Head(events), events' = Tail(events)
  PROVE  /\ \A i \in 1..Len(events') : LastMark(i)' =>
              i + 1 \in 1..Len(events) /\ LastMark(i + 1) /\ events'[i] = events[i + 1]
         /\ Unmarked' /\ evt' \in Marks => 1 \in 1..Len(events) /\ LastMark(1) /\ events[1] = evt'
         /\ Unmarked' /\ evt' \notin Marks => Unmarked
         /\ FatalQueued => evt' = "fatal" \/ FatalQueued'
         /\ events' \in Seq(Kinds) /\ evt' \in Kinds
<1> DEFINE n == Len(events)
<1>1. /\ n \in Nat /\ 1 \in 1..n /\ Len(events') = n - 1 /\ evt' = events[1]
      /\ events' \in Seq(Kinds) /\ evt' \in Kinds
      /\ \A i \in 1..(n - 1) : events'[i] = events[i + 1] /\ i + 1 \in 1..n
      /\ \A i \in 1..n : i = 1 \/ (i - 1 \in 1..(n - 1) /\ events'[i - 1] = events[i])
      /\ \A i, j \in 1..n : i < j => i - 1 < j - 1 /\ j # 1
  OBVIOUS
<1> HIDE DEF n
<1>2. Len(events) = n
  BY DEF n
<1>3. \A i \in 1..(n - 1) : i \in Nat /\ (i + 1) - 1 = i /\ i + 1 # 1
  BY <1>1
<1>4. \A i \in 1..Len(events') : LastMark(i)' =>
        i + 1 \in 1..Len(events) /\ LastMark(i + 1) /\ events'[i] = events[i + 1]
  <2>1. ASSUME NEW i \in 1..(n - 1), LastMark(i)' PROVE LastMark(i + 1)
    <3>1. ASSUME NEW j \in 1..n, i + 1 < j PROVE ~Marked(j)
      <4>1. j - 1 \in 1..(n - 1) /\ events'[j - 1] = events[j] /\ i < j - 1
        BY <1>1, <1>3, <2>1, <3>1
      <4> QED
        BY <1>1, <2>1, <4>1 DEF LastMark, Marked
    <3>2. Marked(i + 1)
      BY <1>1, <2>1 DEF LastMark, Marked
    <3> QED
      BY <1>2, <3>1, <3>2 DEF LastMark
  <2> QED
    BY <1>1, <1>2, <2>1
<1>5. Unmarked' /\ evt' \in Marks => LastMark(1) /\ events[1] = evt'
  <2>1. ASSUME Unmarked', evt' \in Marks, NEW j \in 1..n, 1 < j PROVE ~Marked(j)
    <3>1. j - 1 \in 1..(n - 1) /\ events'[j - 1] = events[j]
      BY <1>1, <2>1
    <3> QED
      BY <1>1, <2>1, <3>1 DEF Unmarked, Marked
  <2>2. evt' \in Marks => Marked(1)
    BY <1>1 DEF Marked
  <2> QED
    BY <1>1, <1>2, <2>1, <2>2 DEF LastMark
<1>6. Unmarked' /\ evt' \notin Marks => Unmarked
  <2>1. ASSUME Unmarked', evt' \notin Marks, NEW j \in 1..n PROVE ~Marked(j)
    <3>1. j = 1 \/ (j - 1 \in 1..(n - 1) /\ events'[j - 1] = events[j])
      BY <1>1, <2>1
    <3> QED
      BY <1>1, <2>1, <3>1 DEF Unmarked, Marked
  <2> QED
    BY <1>2, <2>1 DEF Unmarked
<1>7. FatalQueued => evt' = "fatal" \/ FatalQueued'
  <2>1. ASSUME NEW j \in 1..n, events[j] = "fatal" PROVE evt' = "fatal" \/ FatalQueued'
    <3>1. j = 1 \/ (j - 1 \in 1..(n - 1) /\ events'[j - 1] = events[j])
      BY <1>1, <2>1
    <3> QED
      BY <1>1, <2>1, <3>1 DEF FatalQueued
  <2> QED
    BY <1>2, <2>1 DEF FatalQueued
<1> QED
  BY <1>1, <1>2, <1>4, <1>5, <1>6, <1>7

\* Steps that neither put, take nor apply an event
LEMMA QueueRests ==
  ASSUME QueueInv, UNCHANGED <<events, evt, link, recovering, emitted, watchdog>>,
         \A r \in Runs : pc'[r] = "applying" <=> pc[r] = "applying",
         \A r \in Runs : Post(r)' => Post(r),
         \A r \in Runs : pc'[r] = "leaving" => Post(r) \/ pc[r] = "leaving"
  PROVE  QueueInv'
<1>1. (Unmarked <=> Unmarked') /\ (Applying <=> Applying') /\ (MarkInHand <=> MarkInHand')
      /\ (FatalQueued <=> FatalQueued') /\ \A i \in 1..Len(events) : LastMark(i) <=> LastMark(i)'
  BY DEF Unmarked, Marked, LastMark, Applying, MarkInHand, FatalQueued
<1>2. SourceTypes'
  BY DEF QueueInv, SourceTypes
<1>3. Announced'
  BY <1>1 DEF QueueInv, Announced, TrueOfLink
<1>4. FatalAhead'
  BY <1>1 DEF QueueInv, FatalAhead
<1>5. Quiet'
  BY <1>1 DEF QueueInv, Quiet
<1> QED
  BY <1>2, <1>3, <1>4, <1>5 DEF QueueInv

\* An event of the bridge, with what it makes of the transport
LEMMA PutStep ==
  ASSUME QueueInv, NEW k \in Kinds, Put(k), link' \in {"starting", "stillborn", "up", "down", "fatal"},
         watchdog' \in {"off", "watching", "recovering"},
         k \in Marks => TrueOfLink(k)', k \notin Marks => UNCHANGED <<link, watchdog>>,
         link' = "starting" => k \notin Marks /\ link = "starting",
         link' = "fatal" => k = "fatal" \/ link = "fatal",
         link' = "stillborn" => link \in {"starting", "stillborn"},
         link' \in {"starting", "stillborn"} => watchdog' = "off"
  PROVE  QueueInv'
<1>1. /\ events' = Append(events, k) /\ UNCHANGED <<evt, recovering, pc>>
      /\ emitted < MaxEvents /\ emitted' = emitted + 1
  BY DEF Put, calls
<1>2. /\ (Applying' <=> Applying) /\ (MarkInHand' <=> MarkInHand)
      /\ \A r \in Runs : Post(r)' <=> Post(r)
  BY <1>1 DEF Applying, MarkInHand, Post, InLoop, Attached
<1>3. events \in Seq(Kinds)
  BY DEF QueueInv, SourceTypes
<1>4. SourceTypes'
  <2>1. emitted' \in 0..MaxEvents
    BY <1>1, ParamsAssumption DEF QueueInv, SourceTypes
  <2> QED
    BY <1>1, <1>3, <2>1, AppendMarks DEF QueueInv, SourceTypes
<1>5. Announced'
  <2>1. CASE k \in Marks
    BY <1>1, <1>3, <2>1, AppendMarks DEF Announced, TrueOfLink
  <2>2. CASE k \notin Marks
    BY <1>1, <1>2, <1>3, <2>2, AppendMarks DEF QueueInv, Announced, TrueOfLink
  <2> QED
    BY <2>1, <2>2
<1>6. FatalAhead'
  BY <1>1, <1>2, <1>3, AppendMarks DEF QueueInv, FatalAhead
<1>7. Quiet'
  <2>1. link' = "starting" => Unmarked'
    BY <1>1, <1>3, AppendMarks DEF QueueInv, Quiet
  <2> QED
    BY <1>1, <1>2, <2>1 DEF QueueInv, Quiet
<1> QED
  BY <1>4, <1>5, <1>6, <1>7 DEF QueueInv

\* _poll_loop takes the next event
LEMMA GetStep ==
  ASSUME QueueInv, OneRun, RunTypes, NEW t \in Runs, PollGet(t)
  PROVE  QueueInv'
<1>1. /\ events # <<>> /\ evt' = Head(events) /\ events' = Tail(events) /\ pc[t] = "getting"
      /\ pc' = [pc EXCEPT ![t] = "applying"] /\ UNCHANGED <<link, recovering, emitted, watchdog>>
  BY DEF PollGet, Go
<1>2. events \in Seq(Kinds)
  BY DEF QueueInv, SourceTypes
<1>3. /\ pc'[t] = "applying" /\ Post(t)
      /\ \A r \in Runs : r # t => pc'[r] = pc[r] /\ pc[r] \in {"idle", "refused"}
  BY <1>1 DEF OneRun, Active, RunTypes, Post, InLoop
<1>4. Applying' /\ ~Applying
  BY <1>1, <1>3 DEF Applying
<1>5. /\ (MarkInHand' <=> evt' \in Marks) /\ ~MarkInHand
      /\ \A r \in Runs : Post(r)' => r = t
  BY <1>3, <1>4 DEF MarkInHand, Post, InLoop, Attached
<1>6. SourceTypes'
  BY <1>1, <1>2, TailMarks DEF QueueInv, SourceTypes
<1>7. Announced'
  BY <1>1, <1>2, <1>5, TailMarks DEF QueueInv, Announced, TrueOfLink
<1>8. FatalAhead'
  <2>1. link = "fatal" => FatalQueued
    BY <1>1, <1>3 DEF QueueInv, FatalAhead
  <2> QED
    BY <1>1, <1>2, <1>3, <1>5, <2>1, TailMarks DEF FatalAhead
<1>9. Quiet'
  <2>1. link \notin {"starting", "stillborn"} /\ evt' \in Kinds
    BY <1>1, <1>2, <1>3, TailMarks DEF QueueInv, Quiet
  <2> QED
    BY <1>1, <2>1 DEF Quiet
<1> QED
  BY <1>6, <1>7, <1>8, <1>9 DEF QueueInv

\* ... and applies it
LEMMA ApplyStep ==
  ASSUME QueueInv, OneRun, RunTypes, NEW t \in Runs, Apply(t)
  PROVE  QueueInv'
<1>1. /\ pc[t] = "applying" /\ evt' = Nobody /\ UNCHANGED <<events, link, emitted, watchdog>>
      /\ recovering' = CASE evt \in {"down", "closed"} -> TRUE [] evt = "up" -> FALSE [] OTHER -> recovering
  BY DEF Apply, source
<1>2. /\ \A r \in Runs : r # t => pc'[r] \in {"idle", "refused"}
      /\ pc'[t] \in {"leaving", "poll", "calledBack"} /\ (evt = "fatal" => pc'[t] = "leaving")
  BY DEF Apply, Go, OneRun, Active, RunTypes
<1>3. Applying /\ ~Applying' /\ evt \in Kinds /\ Post(t) /\ link \notin {"starting", "stillborn"}
  BY <1>1, <1>2 DEF Applying, QueueInv, Quiet, Post, InLoop
<1>4. (MarkInHand <=> evt \in Marks) /\ ~MarkInHand'
  BY <1>3 DEF MarkInHand
<1>5. (Unmarked' <=> Unmarked) /\ (FatalQueued' <=> FatalQueued)
      /\ \A i \in 1..Len(events) : LastMark(i)' <=> LastMark(i)
  BY <1>1 DEF Unmarked, FatalQueued, LastMark, Marked
<1>6. SourceTypes'
  BY <1>1 DEF QueueInv, SourceTypes
<1>7. Announced'
  <2>1. \A i \in 1..Len(events') : LastMark(i)' => TrueOfLink(events[i])'
    BY <1>1, <1>5 DEF QueueInv, Announced, TrueOfLink
  <2>2. Unmarked /\ link # "fatal" => (recovering' <=> link # "up")
    BY <1>1, <1>3, <1>4 DEF QueueInv, Announced, TrueOfLink, Marks
  <2> QED
    BY <1>1, <1>4, <1>5, <2>1, <2>2 DEF Announced
<1>8. FatalAhead'
  BY <1>1, <1>2, <1>3, <1>5 DEF QueueInv, FatalAhead, Post, InLoop, Attached
<1>9. Quiet'
  BY <1>1, <1>2, <1>3 DEF Quiet
<1> QED
  BY <1>6, <1>7, <1>8, <1>9 DEF QueueInv

LEMMA QueueStep == QueueInv /\ OneRun /\ RunTypes /\ [Next]_vars => QueueInv'
<1> SUFFICES ASSUME QueueInv, OneRun, RunTypes, [Next]_vars PROVE QueueInv'
  OBVIOUS
<1> USE DEF flags, calls, source, waits, stopEnv, runEnv, waitEnv
<1>1. ASSUME UNCHANGED <<source, evt, recovering>>,
             NEW t \in Runs, NEW place, pc' = [pc EXCEPT ![t] = place],
             pc[t] # "applying", place # "applying", place \in {"leaving"} => Post(t),
             place \in {"watching", "publishing", "setConnected", "setE2EE", "setDone", "poll",
                        "getting", "calledBack"} => Post(t)
      PROVE  QueueInv'
  <2>1. \A r \in Runs : pc'[r] = "applying" <=> pc[r] = "applying"
    BY <1>1 DEF RunTypes
  <2>2. \A r \in Runs : Post(r)' => Post(r)
    BY <1>1 DEF RunTypes, Post, InLoop, Attached
  <2>3. \A r \in Runs : pc'[r] = "leaving" => Post(r) \/ pc[r] = "leaving"
    BY <1>1 DEF RunTypes
  <2> QED
    BY <1>1, <2>1, <2>2, <2>3, QueueRests
<1>2. ASSUME UNCHANGED <<source, evt, recovering, pc>> PROVE QueueInv'
  BY <1>2, QueueRests DEF Post, InLoop, Attached
<1>3. ASSUME NEW t \in Threads,
             StopMark(t) \/ StopClearConnected(t) \/ StopClearE2EE(t) \/ StopTake(t) \/ CloseBegin(t)
               \/ CloseEnd(t)
      PROVE  QueueInv'
  BY <1>2, <1>3 DEF StopMark, StopClearConnected, StopClearE2EE, StopTake, CloseBegin, CloseEnd
<1>4. ASSUME NEW t \in Runs, Claim(t) \/ SpawnBridge(t) \/ Attach(t) \/ Publish(t) \/ SetConnected(t)
               \/ SetE2EE(t) \/ SetDone(t)
      PROVE  QueueInv'
  <2>1. UNCHANGED <<source, evt, recovering>>
    BY <1>4 DEF Claim, SpawnBridge, Attach, Publish, SetConnected, SetE2EE, SetDone
  <2>2. /\ \E place \in {"refused", "spawning", "attaching", "failing", "handshaking", "setConnected",
                         "setE2EE", "setDone", "poll"} :
             pc' = [pc EXCEPT ![t] = place] /\ (place \in {"setConnected", "setE2EE", "setDone", "poll"} => Post(t))
        /\ pc[t] # "applying"
    BY <1>4 DEF Claim, SpawnBridge, Attach, Publish, SetConnected, SetE2EE, SetDone, Go, Post, Attached
  <2> QED
    BY <1>1, <2>1, <2>2
<1>5. ASSUME NEW t \in Runs, Fail(t) \/ FailAnnounce(t) \/ CloseOwn(t) \/ RunContinues(t) \/ Poll(t)
               \/ PollEmpty(t)
      PROVE  QueueInv'
  <2>1. UNCHANGED <<source, evt, recovering>>
    BY <1>5 DEF Fail, FailAnnounce, CloseOwn, RunContinues, Poll, PollEmpty
  <2>2. /\ \E place \in {"failing", "failed", "unwinding", "closing", "ended", "poll", "getting", "leaving"} :
             pc' = [pc EXCEPT ![t] = place] /\ (place \in {"poll", "getting", "leaving"} => Post(t))
        /\ pc[t] # "applying"
    BY <1>5 DEF Fail, FailAnnounce, CloseOwn, RunContinues, AfterStop, Poll, PollGoesTo, PollEmpty, Go, Post,
                InLoop
  <2> QED
    BY <1>1, <2>1, <2>2
<1>6. ASSUME NEW t \in Runs, Handshake(t) PROVE QueueInv'
  <2>1. CASE link' = link /\ Go(t, "failing")
    BY <1>1, <1>6, <2>1 DEF Handshake, Go
  <2>2. CASE link = "starting" /\ link' = "up" /\ Go(t, "watching")
    <3>1. UNCHANGED <<events, emitted, watchdog, evt, recovering>> /\ pc' = [pc EXCEPT ![t] = "watching"]
      BY <1>6, <2>2 DEF Handshake, Go
    <3>2. Unmarked' /\ ~Applying' /\ ~recovering
      BY <2>2, <3>1 DEF QueueInv, Quiet, Unmarked, Marked, Applying, RunTypes
    <3>3. SourceTypes'
      BY <2>2, <3>1 DEF QueueInv, SourceTypes
    <3>4. Announced'
      BY <2>2, <3>1, <3>2 DEF Announced, Unmarked, LastMark, MarkInHand
    <3>5. FatalAhead' /\ Quiet'
      BY <2>2, <3>2 DEF FatalAhead, Quiet, Applying
    <3> QED
      BY <3>3, <3>4, <3>5 DEF QueueInv
  <2> QED
    BY <1>6, <2>1, <2>2 DEF Handshake
<1>7. ASSUME NEW t \in Runs, StartWatchdog(t) PROVE QueueInv'
  <2>1. CASE watchdog' = watchdog
    <3>1. UNCHANGED <<source, evt, recovering>> /\ pc[t] = "watching"
          /\ (Go(t, "publishing") \/ Go(t, "failing"))
      BY <1>7, <2>1 DEF StartWatchdog
    <3> QED
      BY <1>1, <3>1 DEF Go, Post, Attached
  <2>2. CASE watchdog' = "watching" /\ Go(t, "publishing")
    <3>1. UNCHANGED <<events, emitted, link, evt, recovering>> /\ pc' = [pc EXCEPT ![t] = "publishing"]
          /\ pc[t] = "watching"
      BY <1>7, <2>2 DEF StartWatchdog, Go
    <3>2. /\ \A r \in Runs : pc'[r] = "applying" <=> pc[r] = "applying"
          /\ \A r \in Runs : Post(r)' <=> Post(r)
          /\ \A r \in Runs : pc'[r] = "leaving" <=> pc[r] = "leaving"
          /\ Post(t)
      BY <3>1 DEF RunTypes, Post, InLoop, Attached
    <3>3. (Applying' <=> Applying) /\ (MarkInHand' <=> MarkInHand) /\ (Unmarked' <=> Unmarked)
          /\ (FatalQueued' <=> FatalQueued) /\ \A i \in 1..Len(events) : LastMark(i)' <=> LastMark(i)
      BY <3>1, <3>2 DEF Applying, MarkInHand, Unmarked, LastMark, Marked, FatalQueued
    <3>4. SourceTypes' /\ Announced'
      BY <2>2, <3>1, <3>3 DEF QueueInv, SourceTypes, Announced, TrueOfLink
    <3>5. FatalAhead' /\ Quiet'
      BY <3>1, <3>2, <3>3 DEF QueueInv, FatalAhead, Quiet
    <3> QED
      BY <3>4, <3>5 DEF QueueInv
  <2> QED
    BY <1>7, <2>1, <2>2 DEF StartWatchdog
<1>8. ASSUME NEW k \in Kinds, SocketEvent(k) PROVE QueueInv'
  <2>1. k \notin Marks /\ Put(k) /\ UNCHANGED <<link, watchdog>>
    BY <1>8 DEF SocketEvent, Marks
  <2> QED
    BY <2>1, PutStep DEF QueueInv, SourceTypes, Quiet
<1>9. ASSUME ProcessExits PROVE QueueInv'
  <2>1. /\ Put("closed") /\ watchdog' = watchdog /\ "closed" \in Kinds
        /\ link' = (IF link = "starting" THEN "stillborn" ELSE "down")
    BY <1>9 DEF ProcessExits, Kinds
  <2> QED
    BY <2>1, PutStep DEF QueueInv, SourceTypes, Quiet, TrueOfLink, Marks
<1>10. ASSUME RecoveryBegins PROVE QueueInv'
  <2>1. Put("down") /\ watchdog' = "recovering" /\ link' = "down" /\ "down" \in Kinds
    BY <1>10 DEF RecoveryBegins, Kinds
  <2> QED
    BY <2>1, PutStep DEF TrueOfLink, Marks
<1>11. ASSUME RecoveryEnds PROVE QueueInv'
  <2>1. CASE Put("up") /\ link' = "up" /\ watchdog' = "watching"
    BY <2>1, PutStep DEF TrueOfLink, Kinds, Marks
  <2>2. CASE Put("fatal") /\ link' = "fatal" /\ watchdog' = "off"
    BY <2>2, PutStep DEF TrueOfLink, Kinds, Marks
  <2> QED
    BY <1>11, <2>1, <2>2 DEF RecoveryEnds
<1>12. ASSUME NEW w \in Waiters,
              WaitBegin(w) \/ WaitStartup(w) \/ WaitError(w) \/ WaitRegular(w) \/ WaitSecure(w)
       PROVE  QueueInv'
  BY <1>2, <1>12 DEF WaitBegin, WaitStartup, WaitError, WaitRegular, WaitSecure
<1>13. ASSUME UNCHANGED vars PROVE QueueInv'
  BY <1>2, <1>13 DEF vars
<1> QED
  BY <1>3, <1>4, <1>5, <1>6, <1>7, <1>8, <1>9, <1>10, <1>11, <1>12, <1>13, GetStep, ApplyStep
     DEF Next, StopStep, RunStep, BridgeStep, WaitStep

LEMMA WaitInvStep == WaitInv /\ FlagTypes /\ RunTypes /\ OneRun /\ Places /\ Quiet /\ [Next]_vars => WaitInv'
<1> SUFFICES ASSUME WaitInv, FlagTypes, RunTypes, OneRun, Places, Quiet, [Next]_vars PROVE WaitInv'
  OBVIOUS
<1> USE ThreadsAssumption
       DEF WaitInv, WaitTypes, ErrorFirst, Undisturbed, HandshakeDone, FlagTypes, InLoop, Attached, Post,
           RunTypes, OneRun, Active, Places, Quiet, Threads, At, Go, Wait, Put, Stops, flags, calls, source,
           waits, stopEnv, runEnv, waitEnv
<1>1. ASSUME NEW t \in Threads, StopMark(t) PROVE WaitInv'
  BY <1>1 DEF StopMark
<1>2. ASSUME NEW t \in Threads, StopClearConnected(t) PROVE WaitInv'
  BY <1>2 DEF StopClearConnected
<1>3. ASSUME NEW t \in Threads, StopClearE2EE(t) PROVE WaitInv'
  BY <1>3 DEF StopClearE2EE
<1>4. ASSUME NEW t \in Threads, StopTake(t) PROVE WaitInv'
  BY <1>4 DEF StopTake, TakeRef
<1>5. ASSUME NEW t \in Threads, CloseBegin(t) PROVE WaitInv'
  BY <1>5 DEF CloseBegin
<1>6. ASSUME NEW t \in Threads, CloseEnd(t) PROVE WaitInv'
  BY <1>6 DEF CloseEnd
<1>7. ASSUME NEW t \in Runs, Claim(t) PROVE WaitInv'
  BY <1>7 DEF Claim, Claimable
<1>8. ASSUME NEW t \in Runs, SpawnBridge(t) PROVE WaitInv'
  BY <1>8 DEF SpawnBridge
<1>9. ASSUME NEW t \in Runs, Attach(t) PROVE WaitInv'
  BY <1>9 DEF Attach
<1>10. ASSUME NEW t \in Runs, Handshake(t) PROVE WaitInv'
  BY <1>10 DEF Handshake
<1>11. ASSUME NEW t \in Runs, StartWatchdog(t) PROVE WaitInv'
  BY <1>11 DEF StartWatchdog
<1>12. ASSUME NEW t \in Runs, Publish(t) PROVE WaitInv'
  BY <1>12 DEF Publish
<1>13. ASSUME NEW t \in Runs, SetConnected(t) PROVE WaitInv'
  BY <1>13 DEF SetConnected
<1>14. ASSUME NEW t \in Runs, SetE2EE(t) PROVE WaitInv'
  BY <1>14 DEF SetE2EE
<1>15. ASSUME NEW t \in Runs, SetDone(t) PROVE WaitInv'
  BY <1>15 DEF SetDone
<1>16. ASSUME NEW t \in Runs, Fail(t) PROVE WaitInv'
  BY <1>16 DEF Fail, RecordError
<1>17. ASSUME NEW t \in Runs, FailAnnounce(t) PROVE WaitInv'
  BY <1>17 DEF FailAnnounce
<1>18. ASSUME NEW t \in Runs, CloseOwn(t) PROVE WaitInv'
  BY <1>18 DEF CloseOwn
<1>19. ASSUME NEW t \in Runs, RunContinues(t) PROVE WaitInv'
  BY <1>19 DEF RunContinues, AfterStop
<1>20. ASSUME NEW t \in Runs, Poll(t) PROVE WaitInv'
  BY <1>20 DEF Poll, PollGoesTo
<1>21. ASSUME NEW t \in Runs, PollEmpty(t) PROVE WaitInv'
  BY <1>21 DEF PollEmpty
<1>22. ASSUME NEW t \in Runs, PollGet(t) PROVE WaitInv'
  BY <1>22 DEF PollGet
<1>23. ASSUME NEW t \in Runs, Apply(t) PROVE WaitInv'
  BY <1>23 DEF Apply
<1>24. ASSUME NEW k \in Kinds, SocketEvent(k) PROVE WaitInv'
  BY <1>24 DEF SocketEvent
<1>25. ASSUME ProcessExits PROVE WaitInv'
  BY <1>25 DEF ProcessExits
<1>26. ASSUME RecoveryBegins PROVE WaitInv'
  BY <1>26 DEF RecoveryBegins
<1>27. ASSUME RecoveryEnds PROVE WaitInv'
  BY <1>27 DEF RecoveryEnds
<1>28. ASSUME NEW t \in Waiters, WaitBegin(t) PROVE WaitInv'
  BY <1>28 DEF WaitBegin
<1>29. ASSUME NEW t \in Waiters, WaitStartup(t) PROVE WaitInv'
  BY <1>29 DEF WaitStartup
<1>30. ASSUME NEW t \in Waiters, WaitError(t) PROVE WaitInv'
  BY <1>30 DEF WaitError
<1>31. ASSUME NEW t \in Waiters, WaitRegular(t) PROVE WaitInv'
  BY <1>31 DEF WaitRegular
<1>32. ASSUME NEW t \in Waiters, WaitSecure(t) PROVE WaitInv'
  BY <1>32 DEF WaitSecure
<1>33. ASSUME UNCHANGED vars PROVE WaitInv'
  BY <1>33 DEF vars
<1> QED
  BY <1>1, <1>2, <1>3, <1>4, <1>5, <1>6, <1>7, <1>8, <1>9, <1>10, <1>11, <1>12, <1>13, <1>14,
     <1>15, <1>16, <1>17, <1>18, <1>19, <1>20, <1>21, <1>22, <1>23, <1>24, <1>25, <1>26, <1>27,
     <1>28, <1>29, <1>30, <1>31, <1>32, <1>33
     DEF Next, StopStep, RunStep, BridgeStep, WaitStep

----------------------------------------------------------------------------
(* What follows *)

ListenerInv == OwnerInv /\ FlagInv /\ QueueInv /\ WaitInv

LEMMA ListenerInit == Init => ListenerInv
<1> SUFFICES ASSUME Init PROVE ListenerInv
  OBVIOUS
<1>1. OwnerInv
  BY ThreadsAssumption
     DEF Init, OwnerInv, RunTypes, OneRun, Active, Places, Owned, ClosingOnce, Threads
<1>2. FlagInv
  BY DEF Init, FlagInv, FlagTypes, FlagsFollow, InLoop, Attached
<1>3. QueueInv
  <2>1. events = <<>> /\ Len(events) = 0 /\ events \in Seq(Kinds) /\ emitted \in 0..MaxEvents
    BY ParamsAssumption DEF Init
  <2>2. SourceTypes
    BY <2>1 DEF Init, SourceTypes
  <2>3. Announced /\ FatalAhead /\ Quiet
    BY <2>1 DEF Init, Announced, FatalAhead, Quiet, Unmarked, Marked, LastMark, Applying, MarkInHand,
                Post, InLoop, Attached
  <2> QED
    BY <2>2, <2>3 DEF QueueInv
<1>4. WaitInv
  BY ParamsAssumption DEF Init, WaitInv, WaitTypes, ErrorFirst, Undisturbed
<1> QED
  BY <1>1, <1>2, <1>3, <1>4 DEF ListenerInv

LEMMA ListenerStep == ListenerInv /\ [Next]_vars => ListenerInv'
<1>1. ListenerInv =>
        /\ OwnerInv /\ FlagInv /\ QueueInv /\ WaitInv
        /\ RunTypes /\ OneRun /\ Places /\ Quiet /\ FlagTypes
  BY DEF ListenerInv, OwnerInv, FlagInv, QueueInv
<1> QED
  BY <1>1, OwnerStep, FlagStep, QueueStep, WaitInvStep DEF ListenerInv

LEMMA ListenerAlways == Spec => []ListenerInv
BY ListenerInit, ListenerStep, PTL DEF Spec

LEMMA OwnedIsNoOrphan == OwnerInv => NoOrphan
<1> SUFFICES ASSUME OwnerInv, NEW r \in Runs, Over(r), bridge[r] \notin {"none", "closed"}
             PROVE  \E t \in Threads : held[t] = r /\ spc[t] \in {"taken", "closing"}
  BY DEF NoOrphan
<1> QED
  BY DEF OwnerInv, RunTypes, Places, Owned, Over

LEMMA QueueIsSettled == ListenerInv => FlagsSettle
<1> SUFFICES ASSUME ListenerInv, NEW r \in Runs
             PROVE  /\ pc[r] \in {"poll", "getting"} /\ events = <<>> /\ ~stop =>
                         (connected <=> link = "up") /\ (e2ee => connected)
                    /\ Over(r) => ~connected /\ ~e2ee
  BY DEF FlagsSettle
<1>1. FlagsFollow
  BY DEF ListenerInv, FlagInv
<1>2. Over(r) => ~connected /\ ~e2ee
  BY <1>1 DEF FlagsFollow, Over
<1>3. ASSUME pc[r] \in {"poll", "getting"}, events = <<>>, ~stop
      PROVE  (connected <=> link = "up") /\ (e2ee => connected)
  <2>1. InLoop(r) /\ Post(r) /\ pc[r] # "applying"
    BY <1>3 DEF InLoop, Post
  <2>2. Len(events) = 0
    BY <1>3
  <2>3. Unmarked /\ ~FatalQueued
    BY <2>2 DEF Unmarked, FatalQueued
  <2>4. ~MarkInHand
    BY <1>3 DEF ListenerInv, OwnerInv, OneRun, Active, MarkInHand, Applying
  <2>5. link \notin {"starting", "fatal"}
    BY <2>1, <2>3 DEF ListenerInv, QueueInv, Quiet, FatalAhead
  <2>6. recovering <=> link # "up"
    BY <2>3, <2>4, <2>5 DEF ListenerInv, QueueInv, Announced
  <2> QED
    BY <1>1, <1>3, <2>1, <2>6 DEF FlagsFollow, ListenerInv, FlagInv, FlagTypes
<1> QED
  BY <1>2, <1>3

LEMMA ErrorIsReported == WaitInv => FailureReported
BY DEF WaitInv, ErrorFirst, Undisturbed, FailureReported

\* The variables keep their types, and a thread in close() has a bridge in hand.
THEOREM ListenerTypes == Spec => []TypeOK
<1>1. ListenerInv => TypeOK
  BY DEF ListenerInv, OwnerInv, FlagInv, QueueInv, WaitInv, TypeOK
<1> QED
  BY <1>1, ListenerAlways, PTL

\* However stop() interleaves with connect_mqtt_blocking, a run that has returned
\* leaves no bridge process that nobody is closing.
THEOREM NoBridgeLeftBehind == Spec => []NoOrphan
<1>1. ListenerInv => NoOrphan
  BY OwnedIsNoOrphan DEF ListenerInv
<1> QED
  BY <1>1, ListenerAlways, PTL

\* wait_until_connected does not take a startup that failed for a listener that is
\* not connected, unless somebody called stop().
THEOREM FailureIsReported == Spec => []FailureReported
<1>1. ListenerInv => FailureReported
  BY ErrorIsReported DEF ListenerInv
<1> QED
  BY <1>1, ListenerAlways, PTL

\* When _poll_loop has drained the queue, _connected says whether the transport is
\* up; a run that is over has both readiness Events down.
THEOREM FlagsTellTheTruth == Spec => []FlagsSettle
BY QueueIsSettled, ListenerAlways, PTL

=============================================================================
