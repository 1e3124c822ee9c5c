SPECIFICATION Spec
CONSTANTS
  Incidents = {i1, i2, i3}
  Copies = 1
  Critical = {}
  NoIncident = NoIncident
  MaxSuppressions = 1
  MaxFaults = 0
INVARIANT RuleBoundsSuppression
CHECK_DEADLOCK FALSE
