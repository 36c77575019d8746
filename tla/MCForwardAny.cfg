\* Everything at once: failures, a handler's /sync, own and long messages, history.
SPECIFICATION Spec
CONSTANTS
  MaxSeq = 3
  Own = {2}
  Long = {1}
  History = 1
  Run = run
  Handlers = {h1}
  Engine = engine
  NoTask = NoTask
  MaxFaults = 2
INVARIANTS TypeOK UnderLock CopiesArePaid DisorderIsPaid
PROPERTIES BookmarkAdvances
CHECK_DEADLOCK FALSE
