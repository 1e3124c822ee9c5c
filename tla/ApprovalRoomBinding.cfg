SPECIFICATION ReviewedSpec
CONSTANTS
  Bodies = {p}
  HumanOnly = {}
  NoBody = NoBody
  MaxChallenges = 1
  MaxCards = 8
  MaxNonces = 2
  RoomAttempts = 1
INVARIANT ApprovalIsForCurrentPlan
