\* The numbers of the code are made small: one request for a code and two codes in two ticks.
SPECIFICATION Spec
SYMMETRY Sym
CONSTANTS
  Accounts = {a, b}
  Nobody = Nobody
  TTL = 1
  Hour = 2
  Limit <- Limits
  MaxFailures = 2
  Parts = 2
  Texts = {1}
  MaxTime = 2
  MaxFlows = 2
INVARIANTS SignInIsLimited DoneOnce OwnGroupOnly
PROPERTIES StaleNeverResumes ReplaceIsAsked
CHECK_DEADLOCK FALSE
