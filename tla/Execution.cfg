SPECIFICATION FairSpec
CONSTANTS
  heal1 = heal1
  heal2 = heal2
  page = page
  Plans <- VariousPlans
  Simulated = {page}
  MaxMessages = 3
  MaxFaults = 5
INVARIANTS
  TypeOK
  NoEffectUnauthorized
  EffectsOnce
  ReceiptIsExact
PROPERTIES
  ImplementsRemediation
  RestartsRecover
\* An expired authorization is the end of it.
CHECK_DEADLOCK FALSE
