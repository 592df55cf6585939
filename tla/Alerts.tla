-------------------------------- MODULE Alerts --------------------------------
(***************************************************************************)
(* The alerts of the curator signer: verbs.js raiseAlert, clearAlert and   *)
(* GET /alerts, and the listener who asks for them.                        *)
(*                                                                         *)
(* An alert lives in memory under its key.  Building the answer of         *)
(* GET /alerts marks it delivered; the answer is heard later, or lost.     *)
(* Codes, messages and counts are left out; time is counted in ticks, and  *)
(* an entry's age (the time since lastAlertedAt) stops at Realert.         *)
(* A definition whose name ends in _Mutant is the next one with a bug the  *)
(* code could have.                                                        *)
(***************************************************************************)
EXTENDS Naturals

CONSTANTS
  None,      \* JavaScript's undefined
  Keys,      \* the keys alerts are raised under
  Realert    \* REALERT_SECS, in ticks

ASSUME RealertAssumption == Realert \in Nat \ {0}

VARIABLES
  alerts,    \* ctx.state.alerts: None or an entry per key
  answer,    \* an answer of GET /alerts on its way, None when there is none
  heard      \* what the listener last heard of each key

alertVars == <<alerts, answer, heard>>

Entry   == [delivered |-> FALSE, resolved |-> FALSE, age |-> 0]
Entries == [delivered : BOOLEAN, resolved : BOOLEAN, age : 0..Realert]
News    == {"nothing", "raised", "resolved"}

AlertsInit ==
  /\ alerts = [k \in Keys |-> None]
  /\ answer = None
  /\ heard = [k \in Keys |-> "resolved"]

Standing(e) == e # None /\ ~e.resolved

Raised_Mutant(e) ==
  IF Standing(e) THEN IF e.age < Realert THEN e ELSE [e EXCEPT !.age = 0]
  ELSE Entry
\* A standing alert is left as it is until it is Realert old; then it is due
\* for delivery again, as a new one is.
Raised(e) == IF Standing(e) /\ e.age < Realert THEN e ELSE Entry

Cleared(e) ==
  IF ~Standing(e) THEN e
  ELSE IF e.delivered THEN [e EXCEPT !.resolved = TRUE, !.delivered = FALSE]
  ELSE None

\* What an answer built now says of an entry, and what it leaves of it.
Told(e) ==
  IF e = None \/ e.delivered THEN "nothing"
  ELSE IF e.resolved THEN "resolved" ELSE "raised"
Served(e) ==
  CASE Told(e) = "nothing"  -> e
    [] Told(e) = "resolved" -> None
    [] Told(e) = "raised"   -> [e EXCEPT !.delivered = TRUE]

Older(e) == IF Standing(e) /\ e.age < Realert THEN [e EXCEPT !.age = @ + 1] ELSE e

GetAlerts ==
  /\ answer = None
  /\ \E k \in Keys : Told(alerts[k]) # "nothing"
  /\ answer' = [k \in Keys |-> Told(alerts[k])]
  /\ alerts' = [k \in Keys |-> Served(alerts[k])]
  /\ UNCHANGED heard

AnswerHeard ==
  /\ answer # None
  /\ heard' = [k \in Keys |-> IF answer[k] = "nothing" THEN heard[k] ELSE answer[k]]
  /\ answer' = None
  /\ UNCHANGED alerts

AnswerLost ==
  /\ answer # None
  /\ answer' = None
  /\ UNCHANGED <<alerts, heard>>

AlertsTypeOK ==
  /\ alerts \in [Keys -> {None} \union Entries]
  /\ answer \in {None} \union [Keys -> News]
  /\ heard \in [Keys -> {"raised", "resolved"}]
=============================================================================
