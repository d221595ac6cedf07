SPECIFICATION Spec
CONSTANTS
  Sessions = {laptop, phone}
  Direct = Direct
  MaxTurns = 3
  MaxSentences = 1
  MaxNudges = 0
  MaxCrashes = 0
  SavesFail = TRUE
  None = None
SYMMETRY SessionSymmetry
INVARIANTS TypeOK RunnerOwnsThread OneLiveTurnPerSession GuardAnswers SnapshotEndsAnswered
CHECK_DEADLOCK FALSE
