------------------------------ MODULE EventDedup ------------------------------
(***************************************************************************)
(* Which messages of the server become events: handleTable,                *)
(* openRealtimeMessageWindow, claimMessageID and claimStandaloneUpsert of  *)
(* bridge/events.go.                                                       *)
(*                                                                         *)
(* The server may send a message any number of times, as an insert or as   *)
(* an upsert that stands alone; upserts also carry history, so only those  *)
(* of the present are taken.  A table of claimed ids keeps a message from  *)
(* being reported twice and is swept by time.                              *)
(***************************************************************************)
EXTENDS Integers, Sequences

CONSTANTS Messages,
          Grace,      \* standaloneUpsertGraceMs
          Skew,       \* standaloneUpsertFutureSkewMs
          Ttl,        \* recentMessageTTLms
          SweepEvery, \* recentMessageSweepIntervalMs
          MaxNow      \* bound: the last instant

\* The code has 2, 5, 10 and 1 minutes
ASSUME DedupAssumption ==
  /\ {Grace, Skew, Ttl, SweepEvery, MaxNow} \subseteq Nat
  /\ Grace + Skew <= Ttl

VARIABLES
  now,
  stamp,   \* TimestampMs of each message, of the sender's clock
  cutoff,  \* liveMessageCutoffMs, 0 before the client connects
  recent,  \* recentMessages: by id a source, "none" for no entry, and emittedAt
  sweep,   \* recentMessageSweep
  emitted, \* by id the events reported, source and time
  since    \* when the client first connected

dedupVars == <<now, stamp, cutoff, recent, sweep, emitted, since>>

Absent == [source |-> "none", at |-> 0]

DedupInit ==
  /\ now = 1 /\ stamp \in [Messages -> 1..MaxNow] /\ cutoff = 0 /\ since = 0 /\ sweep = 0
  /\ recent = [m \in Messages |-> Absent] /\ emitted = [m \in Messages |-> <<>>]

Pass ==
  /\ now < MaxNow /\ now' = now + 1
  /\ UNCHANGED <<stamp, cutoff, recent, sweep, emitted, since>>

Later(a, b) == IF a > b THEN a ELSE b

\* openRealtimeMessageWindow: the window never opens backwards.  Connect may be
\* tried again
Connected ==
  /\ cutoff' = Later(cutoff, now) /\ since' = (IF cutoff = 0 THEN now ELSE since)
  /\ UNCHANGED <<now, stamp, recent, sweep, emitted>>

Reconnected ==
  /\ cutoff # 0 /\ cutoff' = Later(cutoff, now - Grace)
  /\ UNCHANGED <<now, stamp, recent, sweep, emitted, since>>

\* The table without its old entries, when a sweep is due
Swept ==
  [m \in Messages |-> IF now >= sweep /\ now - recent[m].at > Ttl THEN Absent ELSE recent[m]]

\* An insert is also taken after an upsert, as the better account of the message
Claimed(m, source) ==
  \/ Swept[m].source = "none"
  \/ source = "insert" /\ Swept[m].source = "upsert"

\* claimMessageIDLocked, and the event
Claim(m, source) ==
  /\ sweep' = IF now >= sweep THEN now + SweepEvery ELSE sweep
  /\ IF Claimed(m, source)
     THEN /\ recent' = [Swept EXCEPT ![m] = [source |-> source, at |-> now]]
          /\ emitted' = [emitted EXCEPT ![m] = Append(@, [source |-> source, at |-> now])]
     ELSE recent' = Swept /\ emitted' = emitted
  /\ UNCHANGED <<now, stamp, cutoff, since>>

\* An insert, alone or with an upsert of the same table, which is then skipped
Insert(m) == Claim(m, "insert")

\* mutant: only the connection bounds the age of an upsert
SinceConnected == cutoff

\* The oldest upsert that is taken for present
Oldest == Later(cutoff, now - Grace)

\* An upsert of the present that stands alone; others are not claimed
Upsert(m) ==
  /\ cutoff # 0 /\ stamp[m] \in Oldest..(now + Skew)
  /\ Claim(m, "upsert")

DedupNext ==
  \/ Pass \/ Connected \/ Reconnected
  \/ \E m \in Messages : Insert(m) \/ Upsert(m)

DedupSpec == DedupInit /\ [][DedupNext]_dedupVars

\* However often and in whatever form the server repeats a message: it is
\* reported as an upsert at most once, never after it was inserted (unless its
\* sender's clock was ahead by more than Skew), and never when it is from before
\* the first connection; and it is reported as an insert again only after Ttl.
MessageOnce ==
  \A m \in Messages : LET e == emitted[m] IN
    /\ \A i \in 1..Len(e) : e[i].source = "upsert" => stamp[m] >= since
    /\ \A i, j \in 1..Len(e) : i < j =>
         /\ e[j].source = "upsert" => e[i].source = "insert" /\ stamp[m] > e[i].at + Skew
         /\ e[j].source = "insert" /\ e[i].source = "insert" => e[j].at - e[i].at > Ttl

==============================================================================
