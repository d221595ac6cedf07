SPECIFICATION Spec
CONSTANTS
  Actions = {a1, a2, a3}
  MaxIters = 4
  MaxBatch = 2
  MaxTurns = 5
  None = None
SYMMETRY ActionSymmetry
CHECK_DEADLOCK FALSE
INVARIANT TypeOK
PROPERTIES OnlyAfterUnbrokenYes NoSecondUse ImplementsConsent
