\* Two dispatcher tasks over one store: a stop() that overlaps a start().
SPECIFICATION Spec
CONSTANTS
  Ids = {1}
  Commands = {}
  Loops = {d1, d2}
  NoLoop = NoLoop
  MaxUndecodable = 2
  MaxRetries = 1
  MaxFaults = 2
SYMMETRY LoopSymmetry
INVARIANTS TypeOK ConfirmedIsPosted
PROPERTIES ConfirmedIsFinal ImplementsStatus
CHECK_DEADLOCK FALSE
