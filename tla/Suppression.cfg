SPECIFICATION Spec
CONSTANTS
  Incidents = {i1, i2, i3, i4}
  Copies = 2
  Critical = {i4}
  NoIncident = NoIncident
  MaxSuppressions = 2
  MaxFaults = 2
INVARIANTS
  TypeOK
  ChargesAreCounted
  CriticalIsRouted
\* Once every alert is decided, nothing is left to do.
CHECK_DEADLOCK FALSE
