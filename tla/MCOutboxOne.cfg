\* One dispatcher task: two messages, the second an in-chat command.
SPECIFICATION FairSpec
CONSTANTS
  Ids = {1, 2}
  Commands = {2}
  Loops = {d1}
  NoLoop = NoLoop
  MaxUndecodable = 1
  MaxRetries = 1
  MaxFaults = 1
INVARIANTS Bookkeeping
PROPERTIES EveryRowSettles
CHECK_DEADLOCK FALSE
