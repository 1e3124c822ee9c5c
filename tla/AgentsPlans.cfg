CONSTANTS
  Bodies = {1, 2, 3, 4, 5, 6}
  HumanOnly = {2, 5}
  NoBody = 0
  MaxChallenges = 2
  MaxCards = 12
  Reports <- EveryPlan
  MaxMessages = 14
  MaxFaults = 2
  Wishes = {0, 4}
  MaxRefusals = 1
SPECIFICATION Spec
INVARIANTS
  OneAnswerPerQuestion
  ChangesRunbook
  ConfirmsEvidenceInForce
  PlansFollowReview
CONSTRAINT FewTroubles
