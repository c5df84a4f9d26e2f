---------------------------- MODULE AtMostOnceRpc ----------------------------
(***************************************************************************)
(* What the bridge client promises its callers, whatever processes come    *)
(* and go: a request is executed at most once, only by the epoch it was    *)
(* made in, and a caller that is told "reply" was answered by an           *)
(* execution.  A caller told "failed" learns nothing: the request may have *)
(* been executed and may even be executed later, until the epoch ends.     *)
(* The epoch (generation) ends only when no request is open.               *)
(***************************************************************************)
EXTENDS Naturals

CONSTANTS Calls

VARIABLES epoch,    \* the generation in charge
          status,   \* "new", "open", "replied" or "failed" for each call
          made,     \* the epoch in which the call was opened
          execs     \* how often the call was executed

avars == <<epoch, status, made, execs>>

AInit ==
  /\ epoch = 1
  /\ status = [c \in Calls |-> "new"]
  /\ made = [c \in Calls |-> 0]
  /\ execs = [c \in Calls |-> 0]

Open(c) ==
  /\ status[c] = "new"
  /\ status' = [status EXCEPT ![c] = "open"]
  /\ made' = [made EXCEPT ![c] = epoch]
  /\ UNCHANGED <<epoch, execs>>

Execute(c) ==
  /\ status[c] # "new" /\ made[c] = epoch /\ execs[c] = 0
  /\ execs' = [execs EXCEPT ![c] = 1]
  /\ UNCHANGED <<epoch, status, made>>

Reply(c) ==
  /\ status[c] = "open" /\ execs[c] = 1
  /\ status' = [status EXCEPT ![c] = "replied"]
  /\ UNCHANGED <<epoch, made, execs>>

Fail(c) ==
  /\ status[c] = "open"
  /\ status' = [status EXCEPT ![c] = "failed"]
  /\ UNCHANGED <<epoch, made, execs>>

NextEpoch ==
  /\ \A c \in Calls : status[c] # "open"
  /\ epoch' = epoch + 1
  /\ UNCHANGED <<status, made, execs>>

ANext ==
  \/ NextEpoch
  \/ \E c \in Calls : Open(c) \/ Execute(c) \/ Reply(c) \/ Fail(c)

ASpec == AInit /\ [][ANext]_avars

==============================================================================
