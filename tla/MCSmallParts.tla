----------------------------- MODULE MCSmallParts -----------------------------
(* The parts that do not touch each other, one at a time: what passes between *)
(* the program and the server and may be lost or come twice (a publication,   *)
(* a note operation, a login, the messages that arrive at the bridge), and    *)
(* what processes and threads of one machine share without a lock (the        *)
(* configuration file, the bridge program, a sender).                         *)
EXTENDS LsPublish, NoteOps, FacebookLogin, EventDedup, ConfigFile, BridgeCache, E2EESender

VARIABLE part

remoteVars == <<lsVars, noteVars, loginVars, dedupVars>>
localVars  == <<configVars, cacheVars, senderVars>>
vars       == <<part, remoteVars, localVars>>

Init ==
  /\ part \in {"publish", "note", "login", "arrival", "config", "cache", "sender"}
  /\ LsInit /\ NoteInit /\ LoginInit /\ DedupInit /\ ConfigInit /\ CacheInit /\ SenderInit
  /\ part # "note" => variant = "blocking" /\ wish = "check"
  /\ part # "login" => factor = "none"
  /\ part # "arrival" => \A m \in Messages : stamp[m] = 1
  /\ part # "cache" => mode = "package" /\ binary = "none"

Next ==
  \/ part = "publish" /\ LsNext /\ UNCHANGED <<part, localVars, noteVars, loginVars, dedupVars>>
  \/ part = "note" /\ NoteNext /\ UNCHANGED <<part, localVars, lsVars, loginVars, dedupVars>>
  \/ part = "login" /\ LoginNext /\ UNCHANGED <<part, localVars, lsVars, noteVars, dedupVars>>
  \/ part = "arrival" /\ DedupNext /\ UNCHANGED <<part, localVars, lsVars, noteVars, loginVars>>
  \/ part = "config" /\ ConfigNext /\ UNCHANGED <<part, remoteVars, cacheVars, senderVars>>
  \/ part = "cache" /\ CacheNext /\ UNCHANGED <<part, remoteVars, configVars, senderVars>>
  \/ part = "sender" /\ SenderNext /\ UNCHANGED <<part, remoteVars, configVars, cacheVars>>

Spec == Init /\ [][Next]_vars

==============================================================================
