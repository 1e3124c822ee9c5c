------------------------------ MODULE Remediation ------------------------------
(***************************************************************************)
(* What the Operator promises about one authorized plan, with no messages, *)
(* crashes or retries in it: nothing happens to the production system      *)
(* before the plan is authorized and nothing that is not in it, each of    *)
(* its actions takes effect at most once, and the incident counts as       *)
(* executed only when all of them have.                                    *)
(* Module Execution implements it.                                         *)
(***************************************************************************)
EXTENDS Naturals

CONSTANT Actions

VARIABLES approved, \* the actions of the plan
          phase,    \* "waiting", "authorized" or "executed"
          effects   \* how often each action took effect

remediationVars == <<approved, phase, effects>>

RemediationInit ==
  approved \subseteq Actions /\ phase = "waiting" /\ effects = [a \in Actions |-> 0]

Grant == /\ phase = "waiting"
         /\ phase' = "authorized"
         /\ UNCHANGED <<approved, effects>>

Apply(a) == /\ phase = "authorized"
            /\ a \in approved /\ effects[a] = 0
            /\ effects' = [effects EXCEPT ![a] = 1]
            /\ UNCHANGED <<approved, phase>>

Close == /\ phase = "authorized"
         /\ \A a \in approved : effects[a] = 1
         /\ phase' = "executed"
         /\ UNCHANGED <<approved, effects>>

RemediationNext == Grant \/ (\E a \in Actions : Apply(a)) \/ Close

RemediationSpec == RemediationInit /\ [][RemediationNext]_remediationVars
===============================================================================
