------------------------------ MODULE MCApproval ------------------------------
EXTENDS Approval

\* An incident that was triaged, investigated and reviewed without a detour.
Plainly(type, decision) ==
  [type |-> type, decision |-> decision, body |-> NoBody, risk |-> "low"]

ReviewedInit ==
  /\ cards = <<Plainly("AlertCard", "none"), Plainly("TriageDecision", "route"),
               Plainly("Assessment", "none"), Plainly("Verdict", "CONFIRM")>>
  /\ state = "REVIEWED"
  /\ room = 1..4
  /\ published = 1..4
  /\ ApprovalInit

ReviewedSpec == ReviewedInit /\ [][Next]_vars
===============================================================================
