\* The socket may never connect, and events may be overwritten; the outbound channel is large enough.
SPECIFICATION FairSpec
CONSTANTS
  MaxSeq = 2
  Loop = loop
  Handlers = {h1}
  Buffer = 4
  Outbound = 4
  Failing = {"drop", "crash", "rest", "removed"}
  MaxFaults = 1
PROPERTIES EveryMessageArrives
CHECK_DEADLOCK FALSE
