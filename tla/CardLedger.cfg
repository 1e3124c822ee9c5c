SPECIFICATION LedgerSpec
CONSTANTS
  Bodies = {p, q}
  HumanOnly = {q}
  NoBody = NoBody
  MaxChallenges = 1
  MaxCards = 6
INVARIANTS
  TypeOK
  ChallengeBudget
  SingleAuthorization
  AuthorizedByCard
  ReviewCoversAssessment
PROPERTY ImplementsLifecycle
\* An incident that is closed and whose chain is full does stop.
CHECK_DEADLOCK FALSE
