SPECIFICATION FairSpec
CONSTANTS
  Calls = {look, commit}
  RepoCalls = {commit}
  Sockets = {first, second}
  None = None
CHECK_DEADLOCK FALSE
INVARIANTS TypeOK AnswersMatch NoWaiterForgotten RegisteredIsServed
PROPERTIES OldLinkFailsNobody EveryCallEnds ImplementsCall
