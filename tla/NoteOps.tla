------------------------------- MODULE NoteOps -------------------------------
(***************************************************************************)
(* The notes of an account: src/_messaging/_createNotes.py.                *)
(*                                                                         *)
(* Every operation is one GraphQL request, sent again as it was when it    *)
(* timed out or failed, whether or not the server has carried it out; and  *)
(* recreate is a deletion followed by a creation.  The functions exist     *)
(* twice, blocking and async, and the two read an answer differently.      *)
(***************************************************************************)
EXTENDS Integers

CONSTANT Retries  \* GRAPHQL_RETRIES

ASSUME NoteAssumption == Retries \in Nat

VARIABLES
  variant,   \* "blocking" or "async"
  wish,      \* "create", "delete", "recreate" or "check"
  request,   \* the request being made, "none" at first, "over" at last
  attempt,   \* times it was sent again
  note,      \* the old note is there
  made,      \* notes the server has made
  unheard,   \* creations carried out whose answer did not arrive
  noted      \* what the caller was told

noteVars == <<variant, wish, request, attempt, note, made, unheard, noted>>

NoteInit ==
  /\ variant \in {"blocking", "async"} /\ wish \in {"create", "delete", "recreate", "check"}
  /\ request = "none" /\ attempt = 0 /\ note = TRUE /\ made = 0 /\ unheard = 0 /\ noted = "none"

Tell(answer) == request' = "over" /\ noted' = answer /\ attempt' = 0

\* func, and the functions it calls
Ask ==
  /\ request = "none"
  /\ request' = CASE wish = "recreate" -> "delete" [] OTHER -> wish
  /\ UNCHANGED <<variant, wish, attempt, note, made, unheard, noted>>

\* The server carries the request out
CarriedOut ==
  /\ note' = (note /\ request # "delete")
  /\ made' = IF request = "create" THEN made + 1 ELSE made

\* mutant: the blocking functions trust an answer without a status
NoStatusIsFine == TRUE

\* An answer without errors, but without the status asked for: the blocking
\* mutations take it for an error
AcceptsNoStatus == variant = "async" \/ request = "check"

\* re_createNote: only a deletion that succeeded is followed by the creation
Succeeded ==
  IF wish = "recreate" /\ request = "delete"
  THEN request' = "create" /\ attempt' = 0 /\ noted' = noted
  ELSE Tell("success")

\* _post_graphql: the answer arrives
Answered ==
  /\ request \in {"create", "delete", "check"} /\ CarriedOut /\ Succeeded
  /\ UNCHANGED <<variant, wish, unheard>>

WithoutStatus ==
  /\ request \in {"create", "delete", "check"}
  /\ IF AcceptsNoStatus THEN Succeeded ELSE Tell("error")
  /\ UNCHANGED <<variant, wish, note, made, unheard>>

RefusedByServer ==
  /\ request \in {"create", "delete", "check"} /\ Tell("error")
  /\ UNCHANGED <<variant, wish, note, made, unheard>>

Again ==
  IF attempt < Retries
  THEN attempt' = attempt + 1 /\ UNCHANGED <<request, noted>>
  ELSE Tell("error")

\* _parse_graphql_text: what does not parse is an error
GarbledAnswer == Tell("error")

Garbled ==
  /\ request \in {"create", "delete", "check"} /\ GarbledAnswer
  /\ CarriedOut \/ UNCHANGED <<note, made>>
  /\ UNCHANGED <<variant, wish, unheard>>

\* A timeout or an HTTP error: the same request again, or an error
NoAnswer ==
  /\ request \in {"create", "delete", "check"} /\ Again
  /\ \/ CarriedOut /\ unheard' = IF request = "create" THEN unheard + 1 ELSE unheard
     \/ UNCHANGED <<note, made, unheard>>
  /\ UNCHANGED <<variant, wish>>

NoteNext ==
  \/ Ask \/ Answered \/ WithoutStatus \/ RefusedByServer \/ Garbled \/ NoAnswer

NoteSpec == NoteInit /\ [][NoteNext]_noteVars

\* A note is made a second time only when the answer to the first was lost.
\* What the blocking functions call a success has happened, and a note that is
\* to be replaced is gone before the new one is made.  (The async ones also
\* take an answer without a status for a success.)
NotesAgree ==
  /\ made <= 1 + unheard
  /\ variant = "blocking" =>
       /\ noted = "success" => /\ wish \in {"create", "recreate"} => made > 0
                               /\ wish \in {"delete", "recreate"} => ~note
       /\ wish = "recreate" /\ made > 0 => ~note

==============================================================================
