------------------------------ MODULE BridgeCache ------------------------------
(***************************************************************************)
(* The bridge program a process starts: _resolve_binary and                *)
(* _download_bridge of src/_messaging/_listening_e2ee.py.                  *)
(*                                                                         *)
(* Several processes share the file.  Installed as a package, a file whose *)
(* checksum is not the package's is removed and downloaded again; in a     *)
(* source checkout, a file older than the source is refused; a file named  *)
(* by FBCHAT_E2EE_BIN is used as it is.  "bad" stands for what the mode    *)
(* does not accept.                                                        *)
(***************************************************************************)

CONSTANT Users  \* processes that want a bridge

VARIABLES
  mode,    \* "package", "source" or "override"
  binary,  \* the file: "none", "good" or "bad"
  upc,     \* where a process is
  fetched, \* its temporary file
  ran,     \* what it ran
  spoiled  \* the file was spoiled since it began

cacheVars == <<mode, binary, upc, fetched, ran, spoiled>>

CacheInit ==
  /\ mode \in {"package", "source", "override"} /\ binary \in {"none", "good", "bad"}
  /\ upc = [p \in Users |-> "begin"] /\ fetched = [p \in Users |-> "none"]
  /\ ran = [p \in Users |-> "none"] /\ spoiled = [p \in Users |-> FALSE]

Step(p, pc) == upc' = [upc EXCEPT ![p] = pc]

\* The first test of the file
Examine(p) ==
  /\ upc[p] = "begin"
  /\ Step(p, IF binary = "none" \/ mode = "override" THEN "again" ELSE "verify")
  /\ UNCHANGED <<mode, binary, fetched, ran, spoiled>>

\* mutant: a wrong checksum is only reported
WarnsOnly(p) == Step(p, "again")

\* A package's file is to be removed; a checkout's ends the start
Rejected(p) == Step(p, IF mode = "package" THEN "unlink" ELSE "failed")

\* _verify_managed_binary or _source_bridge_is_stale, which read the file as it
\* is now
Verify(p) ==
  /\ upc[p] = "verify"
  /\ IF binary = "good" THEN Step(p, "again") ELSE Rejected(p)
  /\ UNCHANGED <<mode, binary, fetched, ran, spoiled>>

\* candidate.unlink(): removes what is there now, and raises if nothing is
Unlink(p) ==
  /\ upc[p] = "unlink" /\ binary' = "none"
  /\ Step(p, IF binary = "none" THEN "failed" ELSE "again")
  /\ UNCHANGED <<mode, fetched, ran, spoiled>>

\* The second test of the file
ExamineAgain(p) ==
  /\ upc[p] = "again"
  /\ Step(p, IF binary # "none" THEN "run" ELSE IF mode = "override" THEN "failed" ELSE "download")
  /\ UNCHANGED <<mode, binary, fetched, ran, spoiled>>

\* _download_bridge: the release, the asset, its URL and size; anything wrong
\* ends the start
Download(p) ==
  /\ upc[p] = "download"
  /\ \/ Step(p, "checksum") /\ \E f \in {"good", "bad"} : fetched' = [fetched EXCEPT ![p] = f]
     \/ Step(p, "failed") /\ UNCHANGED fetched
  /\ UNCHANGED <<mode, binary, ran, spoiled>>

\* The checksum of what came, then temporary_path.replace
Install(p) ==
  /\ upc[p] = "checksum" /\ fetched' = [fetched EXCEPT ![p] = "none"]
  /\ IF fetched[p] = "good" THEN binary' = "good" /\ Step(p, "run")
                            ELSE binary' = binary /\ Step(p, "failed")
  /\ UNCHANGED <<mode, ran, spoiled>>

\* _BridgeProcess starts the file that is there now
Run(p) ==
  /\ upc[p] = "run"
  /\ Step(p, IF binary = "none" THEN "failed" ELSE "running")
  /\ ran' = [ran EXCEPT ![p] = binary]
  /\ UNCHANGED <<mode, binary, fetched, spoiled>>

\* Somebody damages the file or, in a checkout, edits the source
Spoil ==
  /\ binary = "good" /\ binary' = "bad" /\ spoiled' = [p \in Users |-> upc[p] # "begin"]
  /\ UNCHANGED <<mode, upc, fetched, ran>>

\* The cache is cleaned, or the bridge is built
Remove == binary # "none" /\ binary' = "none" /\ UNCHANGED <<mode, upc, fetched, ran, spoiled>>
Build  == mode = "source" /\ binary' = "good" /\ UNCHANGED <<mode, upc, fetched, ran, spoiled>>

CacheNext ==
  \/ Spoil \/ Remove \/ Build
  \/ \E p \in Users :
       \/ Examine(p) \/ Verify(p) \/ Unlink(p) \/ ExamineAgain(p)
       \/ Download(p) \/ Install(p) \/ Run(p)

CacheSpec == CacheInit /\ [][CacheNext]_cacheVars

\* Whatever other processes verify, remove and download meanwhile, a process
\* runs a file that the package or the source does not vouch for only if the
\* file was spoiled after the process had begun to look for it.
RunsVerifiedBridge ==
  \A p \in Users : mode # "override" /\ ran[p] = "bad" => spoiled[p]

==============================================================================
