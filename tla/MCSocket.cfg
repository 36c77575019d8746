\* The run loop's stop and another one, an event channel that overflows, waits of 1, 2 and 4 at most.
SPECIFICATION FairSpec
CONSTANTS
  Loops = {l1, l2}
  NoLoop = NoLoop
  Session = session
  Others = {remove}
  Buffer = 2
  Outbound = 1
  Base = 1
  Cap = 4
  MaxAttempt = 2
INVARIANTS QuietAfterStop UpdateIsShown
PROPERTIES UpdateSticks DelaysGrow StopEnds RevokedGoesQuiet
CHECK_DEADLOCK FALSE
