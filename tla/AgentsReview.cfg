CONSTANTS
  Bodies = {1, 2, 3, 4, 5, 6}
  HumanOnly = {2, 5}
  NoBody = 0
  MaxChallenges = 2
  MaxCards = 12
  Reports <- MixedReports
  MaxMessages = 14
  MaxFaults = 1
  Wishes = {0}
  MaxRefusals = 0
SPECIFICATION FairSpec
INVARIANTS
  AgentsTypeOK
  OneAnswerPerQuestion
  ConfirmsSoundEvidence
  EscalatedWhenSpent
  PolicyIsForMinor
PROPERTY ReviewCompletes
