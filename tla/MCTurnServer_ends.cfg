SPECIFICATION FairSpec
CONSTANTS
  Sessions = {laptop, phone}
  Direct = Direct
  MaxTurns = 2
  MaxSentences = 1
  MaxNudges = 1
  MaxCrashes = 1
  SavesFail = FALSE
  None = None
PROPERTIES EveryTurnEnds
CHECK_DEADLOCK FALSE
