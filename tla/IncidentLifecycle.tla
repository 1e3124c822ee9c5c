-------------------------- MODULE IncidentLifecycle --------------------------
(***************************************************************************)
(* What the Gateway promises about one incident, with no cards, rooms,     *)
(* retries or crashes in it: a state machine, and a count of the CHALLENGE *)
(* verdicts spent, in which a challenge is possible only while the budget  *)
(* lasts.  CardLedger implements it: there the budget is checked when a    *)
(* verdict is prepared, long before the step that spends it.               *)
(***************************************************************************)
EXTENDS Naturals

CONSTANT MaxChallenges

VARIABLES state,       \* the incident's state, "NONE" before its row exists
          challenges   \* CHALLENGE verdicts accepted so far

lifecycleVars == <<state, challenges>>

LifecycleInit == state = "NONE" /\ challenges = 0

\* A move that costs no challenge.
Move(from, to) == /\ state \in from
                  /\ state' = to
                  /\ UNCHANGED challenges

Open     == Move({"NONE"}, "DETECTED")
Route    == Move({"DETECTED"}, "TRIAGED")
Suppress == Move({"DETECTED"}, "SUPPRESSED")
Assess   == Move({"TRIAGED", "CHALLENGED"}, "ASSESSED")
Confirm  == Move({"ASSESSED"}, "REVIEWED")
Escalate == Move({"ASSESSED"}, "ESCALATED_HUMAN")
Dismiss  == Move({"ASSESSED", "PLANNED"}, "CLOSED_FALSE_ALARM")
Plan     == Move({"REVIEWED", "REJECTED", "ESCALATED_HUMAN"}, "PLANNED")
Reject   == Move({"PLANNED"}, "REJECTED")
Approve  == Move({"PLANNED"}, "APPROVED")
Authorize == Move({"PLANNED"}, "AUTHORIZED")
Execute  == Move({"APPROVED", "AUTHORIZED"}, "EXECUTED")
Resolve  == Move({"EXECUTED"}, "RESOLVED")

Challenge == /\ state = "ASSESSED"
             /\ challenges < MaxChallenges
             /\ state' = "CHALLENGED"
             /\ challenges' = challenges + 1

LifecycleNext ==
  \/ Open \/ Route \/ Suppress \/ Assess \/ Confirm \/ Escalate \/ Dismiss
  \/ Plan \/ Reject \/ Approve \/ Authorize \/ Execute \/ Resolve \/ Challenge

LifecycleSpec == LifecycleInit /\ [][LifecycleNext]_lifecycleVars
===============================================================================
