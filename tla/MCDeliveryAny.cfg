\* Everything at once, each kind of failure alone.
SPECIFICATION Spec
CONSTANTS
  MaxSeq = 2
  Loop = loop
  Handlers = {h1}
  Buffer = 2
  Outbound = 1
  Failing = {"drop", "crash", "store", "ack", "rest", "other", "removed"}
  MaxFaults = 1
INVARIANTS AcksAreEarned AnnouncedOnce
PROPERTIES ImplementsMailbox
CHECK_DEADLOCK FALSE
