SPECIFICATION Spec
CONSTANTS
  Steps = {s1, s2}
  Orphans = {s2}
  Callers = {c1, c2}
  MaxItems = 3
  MaxCrashes = 1
  Keep = 1
  NoCall = NoCall
  NoFile = NoFile
INVARIANT ApprovedAtMostOnce
CHECK_DEADLOCK FALSE
