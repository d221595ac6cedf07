SPECIFICATION FairSpec
CONSTANTS
  Jobs = {report, errand, question}
  Fleet = {report, question}
  Blocking = {question}
  Timeout = 1
  WsMargin = 1
  CliMargin = 1
  Slack = 2
  MaxFaults = 2
INVARIANTS TypeOK NoGhosts StatusTrue UnitsClosed LateMeansGone
PROPERTIES EveryJobEnds
