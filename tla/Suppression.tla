------------------------------ MODULE Suppression ------------------------------
(***************************************************************************)
(* Bounded suppression learning (gateway/app.py and agents/triage).  A     *)
(* human who calls an incident a false alarm leaves a suppression rule for *)
(* the fingerprint of its alert; Triage, before it suppresses an alert     *)
(* with that fingerprint, counts the suppression against the rule.  All    *)
(* alerts of this module have one fingerprint: there is never more than    *)
(* one active rule for it, and nothing in the code ever deactivates one.   *)
(*                                                                         *)
(* Triage handles one message at a time.  How far it is in the room of an  *)
(* incident is in its memory, so after a restart every message comes again *)
(* and the guards against work done before (three look-ups that fail open) *)
(* decide.  A room may have several messages with its one AlertCard, from  *)
(* a Recorder that posted it again; each gives a decision a key of its own.*)
(***************************************************************************)
EXTENDS Naturals, FiniteSets

CONSTANTS Incidents,        \* one alert each
          Copies,           \* messages with that alert, in the incident's room
          Critical,         \* those with a P1 or a security-relevant alert
          NoIncident,       \* Triage has no alert in hand
          MaxSuppressions,  \* max_suppressions of a rule
          MaxFaults         \* bound on crashes, lost requests and lost answers

ASSUME SuppressionAssumption ==
  /\ Critical \subseteq Incidents
  /\ NoIncident \notin Incidents
  /\ Copies \in Nat \ {0}
  /\ MaxSuppressions \in Nat \ {0}
  /\ MaxFaults \in Nat

VARIABLES state,     \* of each incident
          rule,      \* there is a rule for the fingerprint
          count,     \* suppression_count of that rule
          wire,      \* increments on their way that nobody waits for
          job, pc,   \* the incident Triage has in hand, and what it does next
          decision,  \* what Triage is about to decide
          heard,     \* messages of a room delivered since Triage was started
          sealed,    \* the TriageDecision sealed for a message, if any
          charged,   \* messages with a suppression on an answered increment
          silenced,  \* incidents suppressed since there is a rule
          faults

ruleVars   == <<rule, count, wire>>
triageVars == <<job, pc, decision, heard>>
ghosts     == <<charged, silenced>>
vars == <<state, ruleVars, triageVars, sealed, ghosts, faults>>

\* The messages, and the one in hand.
Messages == Incidents \X (1..Copies)
InHand   == <<job, heard[job]>>

Fault == faults < MaxFaults /\ faults' = faults + 1

Init == /\ state = [i \in Incidents |-> "DETECTED"]
        /\ rule = FALSE /\ count = 0 /\ wire = 0
        /\ job = NoIncident /\ pc = "poll" /\ decision = "route"
        /\ heard = [i \in Incidents |-> 0]
        /\ sealed = [m \in Messages |-> "none"]
        /\ charged = {} /\ silenced = {}
        /\ faults = 0

-------------------------------------------------------------------------------
(* The Gateway.                                                                *)

\* A human dismisses an incident on the approval page: a rule is created unless
\* an active one exists, be it exhausted.  What lies between TRIAGED and that
\* decision is CardLedger's.
DismissAsFalseAlarm(i) ==
  /\ state[i] = "TRIAGED"
  /\ state' = [state EXCEPT ![i] = "CLOSED_FALSE_ALARM"]
  /\ rule' = TRUE
  /\ UNCHANGED <<count, wire, triageVars, sealed, ghosts, faults>>

\* GET /suppression-rules answers with active rules that are not exhausted.
RuleOffered == rule /\ count < MaxSuppressions

\* Fault: the update does not look at the bound.
IncrementAlways == rule

\* POST /suppression-rules/{id}/increment updates a row only within its bound.
IncrementAccepted == rule /\ count < MaxSuppressions

LateIncrement ==
  /\ wire > 0
  /\ wire' = wire - 1
  /\ count' = IF IncrementAccepted THEN count + 1 ELSE count
  /\ UNCHANGED <<state, rule, triageVars, sealed, ghosts, faults>>

-------------------------------------------------------------------------------
(* Triage.                                                                     *)

Finish == job' = NoIncident /\ pc' = "poll" /\ decision' = "route"

\* Fault: the deterministic guards are left out.
TrustLLM(i, d) == d

\* Guard 3: a P1 or security-relevant alert is routed, whatever the LLM says.
Guarded(i, d) == IF i \in Critical THEN "route" ELSE d

\* The next message of an incident's room is delivered.
Hear(i) ==
  /\ pc = "poll"
  /\ heard[i] < Copies
  /\ heard' = [heard EXCEPT ![i] = @ + 1]

\* An alert that was triaged before is passed over ...
PassOver(i) ==
  /\ Hear(i)
  /\ state[i] # "DETECTED"
  /\ UNCHANGED <<state, ruleVars, job, pc, decision, sealed, ghosts, faults>>

\* ... unless the look-ups that would tell so fail: they fail open.
TakeAlert(i) ==
  /\ Hear(i)
  /\ IF state[i] = "DETECTED" THEN UNCHANGED faults ELSE Fault
  /\ job' = i
  /\ \E d \in {"route", "suppress"} : decision' = Guarded(i, d)
  /\ pc' = IF decision' = "suppress" THEN "lookup" ELSE "submit"
  /\ UNCHANGED <<state, ruleVars, sealed, ghosts>>

\* Without a rule on offer the decision of the LLM stands.
LookUpRule ==
  /\ pc = "lookup"
  /\ pc' = IF RuleOffered THEN "increment" ELSE "submit"
  /\ UNCHANGED <<state, ruleVars, job, decision, heard, sealed, ghosts, faults>>

\* An answer other than 200 is read as an empty list, so it stands then too.
LookUpRefused ==
  /\ pc = "lookup"
  /\ Fault
  /\ pc' = "submit"
  /\ UNCHANGED <<state, ruleVars, job, decision, heard, sealed, ghosts>>

RouteInstead == pc' = "submit" /\ decision' = "route"

\* No answer, or none that can be read.
LookUpFails ==
  /\ pc = "lookup"
  /\ Fault
  /\ RouteInstead
  /\ UNCHANGED <<state, ruleVars, job, heard, sealed, ghosts>>

Increment ==
  /\ pc = "increment"
  /\ IncrementAccepted
  /\ count' = count + 1
  /\ charged' = charged \union {InHand}
  /\ pc' = "submit"
  /\ UNCHANGED <<state, rule, wire, job, decision, heard, sealed, silenced, faults>>

\* 409: the rule was exhausted since it was looked up.
IncrementRefused ==
  /\ pc = "increment"
  /\ ~IncrementAccepted
  /\ RouteInstead
  /\ UNCHANGED <<state, ruleVars, job, heard, sealed, ghosts, faults>>

\* Fault: an increment without an answer counts as accepted.
SuppressUnanswered == pc' = "submit" /\ charged' = charged \union {InHand} /\ UNCHANGED decision

RouteUnanswered == RouteInstead /\ UNCHANGED charged

\* The request is lost, or its answer, or the answer is an error.
IncrementUnanswered ==
  /\ pc = "increment"
  /\ Fault
  /\ count' \in IF IncrementAccepted THEN {count, count + 1} ELSE {count}
  /\ RouteUnanswered
  /\ UNCHANGED <<state, rule, wire, job, heard, sealed, silenced>>

\* /prepare, the room message and /confirm.  The idempotency key is the message's
\* and the alert's, so a decision sealed before stands in the way of another one.
SubmitDecision ==
  /\ pc = "submit"
  /\ state[job] = "DETECTED"
  /\ sealed[InHand] \in {"none", decision}
  /\ sealed' = [sealed EXCEPT ![InHand] = decision]
  /\ state' = [state EXCEPT ![job] = IF decision = "suppress" THEN "SUPPRESSED"
                                                                ELSE "TRIAGED"]
  /\ silenced' = IF rule /\ decision = "suppress" THEN silenced \union {job} ELSE silenced
  /\ Finish
  /\ UNCHANGED <<ruleVars, heard, charged, faults>>

\* 409: the incident is further on, or the key has another decision, or the same one
\* with another reasoning of the LLM.
SubmitRefused ==
  /\ pc = "submit"
  /\ state[job] # "DETECTED" \/ sealed[InHand] # "none"
  /\ Finish
  /\ UNCHANGED <<state, ruleVars, heard, sealed, ghosts, faults>>

\* The saga breaks off, before or after the card is sealed.
SubmitFails ==
  /\ pc = "submit"
  /\ Fault
  /\ \/ UNCHANGED sealed
     \/ /\ state[job] = "DETECTED" /\ sealed[InHand] = "none"
        /\ sealed' = [sealed EXCEPT ![InHand] = decision]
  /\ Finish
  /\ UNCHANGED <<state, ruleVars, heard, ghosts>>

\* The process starts again; an increment it had sent may still arrive.
Restart ==
  /\ Fault
  /\ \E i \in Incidents : heard[i] # 0
  /\ heard' = [i \in Incidents |-> 0]
  /\ Finish
  /\ \/ UNCHANGED wire
     \/ pc = "increment" /\ wire' = wire + 1
  /\ UNCHANGED <<state, rule, count, sealed, ghosts>>

Next ==
  \/ \E i \in Incidents : DismissAsFalseAlarm(i) \/ PassOver(i) \/ TakeAlert(i)
  \/ LateIncrement
  \/ LookUpRule \/ LookUpRefused \/ LookUpFails
  \/ Increment \/ IncrementRefused \/ IncrementUnanswered
  \/ SubmitDecision \/ SubmitRefused \/ SubmitFails
  \/ Restart

Spec == Init /\ [][Next]_vars

-------------------------------------------------------------------------------
(* Properties.                                                                 *)

TypeOK ==
  /\ state \in [Incidents -> {"DETECTED", "TRIAGED", "SUPPRESSED", "CLOSED_FALSE_ALARM"}]
  /\ rule \in BOOLEAN
  /\ count \in 0..MaxSuppressions
  /\ wire \in 0..MaxFaults
  /\ job \in Incidents \union {NoIncident}
  /\ pc \in {"poll", "lookup", "increment", "submit"}
  /\ pc = "poll" <=> job = NoIncident
  /\ decision \in {"route", "suppress"}
  /\ heard \in [Incidents -> 0..Copies]
  /\ job \in Incidents => InHand \in Messages
  /\ sealed \in [Messages -> {"none", "route", "suppress"}]
  /\ charged \subseteq Messages /\ silenced \subseteq Incidents
  /\ faults \in 0..MaxFaults

\* A suppression that was charged to the rule is in its count, whatever is lost,
\* repeated or late, or comes of another message with the same alert, so a rule is never
\* charged for more than its bound.
ChargesAreCounted == Cardinality(charged) <= count

\* No alert that is P1 or security-relevant is suppressed, and no such suppression is
\* even sealed for a later confirmation.
CriticalIsRouted ==
  \A i \in Critical :
     state[i] # "SUPPRESSED" /\ \A k \in 1..Copies : sealed[<<i, k>>] # "suppress"

\* Why: what Triage has in hand went through its guards, an increment on its way was
\* sent by a process that has died, and the charges are finitely many.
InHandIsGuarded == job \in Critical => decision = "route"
SuppressInv ==
  /\ TypeOK /\ ChargesAreCounted /\ CriticalIsRouted
  /\ InHandIsGuarded
  /\ wire <= faults
  /\ IsFiniteSet(charged)

\* triage/__init__.py: "409 = exhausted, or error: route normally", and the schema's
\* "bounded: max 3 suppressions per rule".  So once there is a rule for a fingerprint,
\* no more than its bound of alerts with it are suppressed.
RuleBoundsSuppression == Cardinality(silenced) <= MaxSuppressions
===============================================================================
