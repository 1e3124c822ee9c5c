CONSTANTS
  ListLimit = 2
  PageSize = 2
  MaxFailures = 2
  MaxRooms = 3
  MaxMessages = 3
  MaxFaults = 2
SPECIFICATION FairSpec
INVARIANTS
  RuntimeTypeOK
  HeardOnce
  NothingPassedOver
PROPERTIES
  MessagesAreHeard
  SupervisorGivesUp
