------------------------------ MODULE ConfigFile ------------------------------
(***************************************************************************)
(* The configuration file of the bot: load_config and main of src/main.py, *)
(* create_private_json_file of src/_core/_permissions.py and               *)
(* FileSessionStorage of src/_core/_storage.py.                            *)
(*                                                                         *)
(* The file holds the cookie and the settings.  Several processes start,   *)
(* save or clear the cookie while the user edits the same file.  Nothing   *)
(* locks it: an owner reads it, changes what it read and replaces it.      *)
(***************************************************************************)
EXTENDS Integers

CONSTANTS Owners,   \* processes that use the file
          MaxEdits, \* bound: edits of the user
          MaxJobs   \* bound: operations of the owners

ASSUME ConfigAssumption == MaxEdits \in Nat /\ MaxJobs \in Nat

VARIABLES
  file,    \* the file
  opc,     \* where an owner is
  data,    \* what it has read
  edits, jobs,
  readAt,  \* the edits that were made before it read it
  kept,    \* the last edit, if it left a file that parses, else 0
  crossed  \* a save or clear that had read before the last edit replaced the file

ghosts == <<readAt, kept, crossed>>
configVars == <<file, opc, data, edits, jobs, ghosts>>

Json(cookie, rest) == [form |-> "json", cookie |-> cookie, rest |-> rest]
None     == [form |-> "none", cookie |-> "absent", rest |-> 0]
Broken   == [form |-> "broken", cookie |-> "absent", rest |-> 0]
Template == Json("paste", 0)

ConfigInit ==
  /\ file = None /\ edits = 0 /\ jobs = 0
  /\ opc = [p \in Owners |-> "idle"] /\ data = [p \in Owners |-> None]
  /\ readAt = [p \in Owners |-> 0] /\ kept = 0 /\ crossed = FALSE

Goto(p, pc) == opc' = [opc EXCEPT ![p] = pc]

Look(p) ==
  /\ data' = [data EXCEPT ![p] = file] /\ readAt' = [readAt EXCEPT ![p] = edits]
  /\ UNCHANGED <<kept, crossed>>

Begin(p) ==
  /\ opc[p] = "idle" /\ jobs < MaxJobs /\ jobs' = jobs + 1
  /\ \E j \in {"exists", "save", "clear"} : Goto(p, j)
  /\ UNCHANGED <<file, data, edits, ghosts>>

----------------------------------------------------------------------------
(* The bot starts                                                           *)

Exists(p) ==
  /\ opc[p] = "exists" /\ Goto(p, IF file.form = "none" THEN "create" ELSE "open")
  /\ UNCHANGED <<file, data, edits, jobs, ghosts>>

\* mutant: the template is moved into place whatever is there
CreateReplaces(p) == file' = Template /\ Goto(p, "idle")

\* create_private_json_file: os.link fails when another has created the file.
\* The template once made, the start ends and asks for the cookie
CreateLinks(p) ==
  IF file.form = "none" THEN file' = Template /\ Goto(p, "idle")
                        ELSE file' = file /\ Goto(p, "open")

Create(p) ==
  /\ opc[p] = "create" /\ CreateLinks(p)
  /\ UNCHANGED <<data, edits, jobs, ghosts>>

\* The rest of load_config: a file that is gone, does not parse or holds a
\* setting of the wrong type ends the start
Open(p) ==
  /\ opc[p] = "open"
  /\ \/ file.form = "json" /\ Goto(p, "load")
     \/ Goto(p, "idle")
  /\ UNCHANGED <<file, data, edits, jobs, ghosts>>

\* FileSessionStorage.load, for dataGetHome, reads the file again
Load(p) ==
  /\ opc[p] = "load" /\ Look(p)
  /\ Goto(p, IF file.cookie = "absent" THEN "idle" ELSE "home")
  /\ UNCHANGED <<file, edits, jobs>>

\* dataGetHome and is_valid_datafb: the tokens are complete, or the start ends
Home(p) ==
  /\ opc[p] = "home"
  /\ \/ data[p].cookie # "paste" /\ Goto(p, "running")
     \/ Goto(p, "idle")
  /\ UNCHANGED <<file, data, edits, jobs, ghosts>>

----------------------------------------------------------------------------
(* FileSessionStorage.save and clear                                        *)

\* The data saved: what does not parse counts as empty
Saved(p, f) == Json(p, IF f.form = "json" THEN f.rest ELSE 0)

SaveReads(p) ==
  /\ opc[p] = "save" /\ Look(p) /\ Goto(p, "write")
  /\ UNCHANGED <<file, edits, jobs>>

ClearReads(p) ==
  /\ opc[p] = "clear" /\ Look(p)
  /\ Goto(p, IF file.cookie = "absent" THEN "idle" ELSE "rewrite")
  /\ UNCHANGED <<file, edits, jobs>>

\* The data without a cookie
Cleared(f) == [f EXCEPT !.cookie = "absent"]

\* _write_data: a temporary file is written and moved into place
WriteData(p) ==
  /\ Goto(p, "idle")
  /\ \/ opc[p] = "write" /\ file' = Saved(p, data[p])
     \/ opc[p] = "rewrite" /\ file' = Cleared(data[p])
  /\ crossed' = (crossed \/ readAt[p] < edits)
  /\ UNCHANGED <<data, edits, jobs, readAt, kept>>

\* A write fails, or the process ends: the temporary file is not moved
Stops(p) ==
  /\ opc[p] # "idle" /\ Goto(p, "idle")
  /\ UNCHANGED <<file, data, edits, jobs, ghosts>>

----------------------------------------------------------------------------

\* The user fills the file in, removes it, or leaves it half written
UserEdits ==
  /\ edits < MaxEdits /\ edits' = edits + 1
  /\ \E f \in {Json("user", edits + 1), None, Broken} :
       file' = f /\ kept' = f.rest
  /\ crossed' = FALSE
  /\ UNCHANGED <<opc, data, jobs, readAt>>

ConfigNext ==
  \/ UserEdits
  \/ \E p \in Owners :
       \/ Begin(p) \/ Exists(p) \/ Create(p) \/ Open(p) \/ Load(p) \/ Home(p)
       \/ SaveReads(p) \/ ClearReads(p) \/ WriteData(p) \/ Stops(p)

ConfigSpec == ConfigInit /\ [][ConfigNext]_configVars

\* What the user has written into the file stays there, whatever starts, saves
\* and clears go on at the time or follow, in any number and cut short or not:
\* the template never takes its place, a save or clear that reads it keeps it, and
\* only one that had read the file before the edit can undo it (nothing locks it).
EditSurvives == kept # 0 /\ ~crossed => file.form = "json" /\ file.rest = kept

==============================================================================
