\* Two changes by others, a lost connection, a crash or a deleted topic, a failed call, a command.
SPECIFICATION Spec
CONSTANTS
  Names = {0, 1}
  MaxChanges = 2
  MaxLosses = 1
  MaxFaults = 1
  MaxCommands = 1
  MaxTopics = 4
INVARIANTS OneConversation OneTopic HealedByConnect RemovedIsClosed
PROPERTIES MessageRestoresTopic
CHECK_DEADLOCK FALSE
