\* A chat and the Mini App, two identities, a failed call, and a crash or a stop that gives up.
SPECIFICATION FairSpec
CONSTANTS
  Chat = chat
  Mini = {m}
  Identities = {a, b}
  Nobody = Nobody
  MaxRows = 2
  MaxSessions = 2
  Runtimes = {r1, r2, r3}
  NoRuntime = NoRuntime
  MaxFaults = 1
  MaxBreaks = 1
INVARIANTS NoStray StatusIsTrue
PROPERTIES ExpiredIsReported
CHECK_DEADLOCK FALSE
