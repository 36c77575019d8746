\* Failures and crashes, three messages.
SPECIFICATION FairSpec
CONSTANTS
  MaxSeq = 3
  Own = {}
  Long = {}
  History = 0
  Run = run
  Handlers = {}
  Engine = engine
  NoTask = NoTask
  MaxFaults = 2
INVARIANTS InOrderOnce
PROPERTIES LeftoverIsHandled
CHECK_DEADLOCK FALSE
