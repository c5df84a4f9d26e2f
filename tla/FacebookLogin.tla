---------------------------- MODULE FacebookLogin ----------------------------
(***************************************************************************)
(* The login with a password and a second factor: loginFacebook of         *)
(* src/_core/_facebookLogin.py.                                            *)
(*                                                                         *)
(* Up to four requests: the password, the code, the code with the password,*)
(* and a new code when the time has brought one.  The server accepts a code*)
(* once, while it is fresh, and an answer that is lost looks like a refusal*)
(***************************************************************************)
EXTENDS Integers

CONSTANT MaxClock  \* bound: steps of the TOTP clock

ASSUME LoginAssumption == MaxClock \in Nat

VARIABLES
  factor,    \* twoTokenAccess: "secret", a "code" in use at first, "none", "invalid"
  step,      \* the request being made, "start" or "end"
  clock,     \* the time, in TOTP steps
  code,      \* token_2fa, or retry_token
  used,      \* codes the server accepted
  sessions,  \* requests by which it made a session
  unheardOf, \* those whose answer was lost
  login      \* the result: the request whose session is returned, "empty" for a
             \* success without a session, or "error"

loginVars == <<factor, step, clock, code, used, sessions, unheardOf, login>>

Requests == {"password", "code", "codeWithPassword", "newCode"}

LoginInit ==
  /\ factor \in {"secret", "code", "none", "invalid"} /\ step = "start" /\ clock = 0 /\ code = 0
  /\ used = {} /\ sessions = {} /\ unheardOf = {} /\ login = "none"

Tick ==
  /\ clock < MaxClock /\ clock' = clock + 1
  /\ UNCHANGED <<factor, step, code, used, sessions, unheardOf, login>>

LoginBegins ==
  /\ step = "start" /\ step' = "password"
  /\ UNCHANGED <<factor, clock, code, used, sessions, unheardOf, login>>

Result(r) == step' = "end" /\ login' = r

\* The server accepts the password of an account without a second factor, and
\* a code that is fresh and was not used
Accepts(r) ==
  \/ r = "password" /\ used' = used
  \/ r # "password" /\ code \notin used /\ code \in {clock - 1, clock} /\ used' = used \cup {code}

\* _get_token_2fa_local: the code as given, or the one of this moment
CurrentCode == IF factor = "secret" THEN clock ELSE 0

\* The password is right and a code is wanted; without a usable factor, or with
\* incomplete metadata, the login ends here
TwoFactorAsked ==
  /\ step = "password"
  /\ \/ /\ factor \in {"secret", "code"}
        /\ code' = CurrentCode /\ step' = "code" /\ login' = login
     \/ Result("error") /\ code' = code
  /\ UNCHANGED <<factor, clock, used, sessions, unheardOf>>

\* What follows an error: the code with the password, then a new code if there
\* is one, then the first error is returned
NextStep ==
  CASE step = "code" -> "codeWithPassword"
    [] step = "codeWithPassword" /\ factor = "secret" /\ CurrentCode # code -> "newCode"
    [] OTHER -> "end"

Fails ==
  /\ step' = NextStep
  /\ login' = IF step' = "end" THEN "error" ELSE login
  /\ code' = IF step' = "newCode" THEN CurrentCode ELSE code

\* mutant: the answer to the code with the password is not looked at
FallbackIgnored == IF step = "codeWithPassword" THEN Fails ELSE Result(step) /\ code' = code

\* A request that succeeds ends the login
Completed == Result(step) /\ code' = code

Success ==
  /\ step \in Requests /\ Accepts(step)
  /\ sessions' = sessions \cup {step} /\ Completed
  /\ UNCHANGED <<factor, clock, unheardOf>>

\* The server refuses
Refusal ==
  /\ step \in Requests /\ Fails
  /\ UNCHANGED <<factor, clock, used, sessions, unheardOf>>

\* The program gets no session, whether the server has made one or not
Unheard ==
  \/ Accepts(step) /\ sessions' = sessions \cup {step} /\ unheardOf' = unheardOf \cup {step}
  \/ UNCHANGED <<used, sessions, unheardOf>>

\* _post_json: no answer, an HTTP error or no JSON is an error like a refusal
Unanswered ==
  /\ step \in Requests /\ Fails /\ Unheard
  /\ UNCHANGED <<factor, clock>>

\* An answer of HTTP 200 with neither an error nor a session ({}, or with an
\* error_code of its own) passes for a success, with no cookies in it; JSON that
\* is no object raises
OddAnswer ==
  /\ step \in Requests /\ code' = code /\ Unheard
  /\ Result("empty") \/ Result("error")
  /\ UNCHANGED <<factor, clock>>

LoginNext ==
  \/ Tick \/ LoginBegins \/ TwoFactorAsked
  \/ Success \/ Refusal \/ Unanswered \/ OddAnswer

LoginSpec == LoginInit /\ [][LoginNext]_loginVars

\* No session the server has answered with is thrown away, whatever the order of
\* requests, refusals, lost and odd answers: the login returns it, and makes
\* none behind it.  So a login that reports an error, or a success without a
\* session, has left at most sessions whose answer was lost.
LoginAgrees == login # "none" => sessions \ unheardOf = {login} \cap Requests

==============================================================================
