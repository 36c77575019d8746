\* Two changes by other admins, a command, and a lost connection or a failed request.
SPECIFICATION Spec
CONSTANTS
  Others = {a, b}
  Me = me
  First = {a}
  BadPhones = {x}
  MinMembers = 3
  MaxChanges = 2
  MaxFaults = 1
  MaxCommands = 1
INVARIANTS MembersConverge TooSmallIsRetried
PROPERTIES GoodNumbersAreAdded
CHECK_DEADLOCK FALSE
