\* A channel of one event, into which another event comes; the socket comes back in the end.
SPECIFICATION StableSpec
CONSTANTS
  MaxSeq = 2
  Loop = loop
  Handlers = {}
  Buffer = 1
  Outbound = 1
  Failing = {"other"}
  MaxFaults = 1
PROPERTIES EveryMessageArrives
CHECK_DEADLOCK FALSE
