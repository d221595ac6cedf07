SPECIFICATION Spec
CONSTANTS
  Keys = {"visa", "stretch"}
  Urgency <- MCUrgency
  Budget = 2
  Window = 2
  Wait = 1
  Keep = 2
  Never = Never
  MaxClock = 4
  MaxDays = 1
  MaxLines = 3
  MaxFaults = 1
INVARIANTS TypeOK NoEarlyRepeat BudgetHolds SpentMeansHeard ReraisedOnce AtMostOneLate
