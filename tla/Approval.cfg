SPECIFICATION ReviewedSpec
CONSTANTS
  Bodies = {p, q}
  HumanOnly = {q}
  NoBody = NoBody
  MaxChallenges = 1
  MaxCards = 8
  MaxNonces = 2
  RoomAttempts = 2
INVARIANTS
  ApprovalTypeOK
  NonceDecidesOnce
  LifecycleConsistent
  HighRiskNeedsHuman
  ConsumedIsCurrentPlan
  PageApprovalIsForCurrentPlan
PROPERTY PlanFrozen
