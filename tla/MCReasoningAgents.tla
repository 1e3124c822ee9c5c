--------------------------- MODULE MCReasoningAgents ---------------------------
(* Instances of the reasoning agents for TLC. *)
EXTENDS ReasoningAgents

Weak   == [severity |-> "P1", runbook |-> 1, weak |-> TRUE]
Vague  == [severity |-> "P3", runbook |-> 1, weak |-> TRUE]
Severe == [severity |-> "P1", runbook |-> 3, weak |-> FALSE]
Urgent == [severity |-> "P2", runbook |-> 1, weak |-> FALSE]
Minor  == [severity |-> "P3", runbook |-> 3, weak |-> FALSE]
Load   == [severity |-> "P3", runbook |-> 2, weak |-> FALSE]

MixedReports == {Weak, Urgent, Minor}
EveryPlan    == {Vague, Severe, Minor, Load}

\* The bound of agents_plans: faults meet in the review, and one fault meets a decision on
\* a plan that was not challenged.
Decided == \E i \in DOMAIN cards : cards[i] \in GatewayCards
FewTroubles == Decided => faults = 0 \/ (faults = 1 /\ PublishedChallenges = {})
================================================================================
