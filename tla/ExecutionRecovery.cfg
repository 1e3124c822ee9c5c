SPECIFICATION FairSpec
CONSTANTS
  heal1 = heal1
  heal2 = heal2
  page = page
  Plans <- ShortPlans
  Simulated = {page}
  MaxMessages = 2
  MaxFaults = 1
PROPERTY RecoveryCompletes
CHECK_DEADLOCK FALSE
