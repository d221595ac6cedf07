SPECIFICATION Spec
CONSTANTS
  Workers = {alice, bob}
  Briefs  = {cost, summary}
  Results = {nineteen, twentyone}
  Nothing = Nothing
  NoClaim = NoClaim
  MaxJobs = 2
  MaxUnits = 2
SYMMETRY Interchangeable
CHECK_DEADLOCK FALSE
INVARIANTS TypeOK HandedOnce AnswersStand DisagreementSurfaces
PROPERTIES NeverMissingAgain ImplementsLedger
