SPECIFICATION Spec
CONSTANTS
  Procs = {cli, app}
  Apps = {app}
  FaultPoints = {"create", "sync", "app_model"}
  PromptLens = {2}
  Models = {"a", "b"}
  KeepTurns = 1
  MaxMessages = 3
  MaxCompactions = 1
  MaxFaults = 1
  NoProc = NoProc
  NoRow = NoRow
  NoSession = NoSession
  NoWriter = NoWriter
  NoTail = NoTail
  Torn = Torn
  BadLine = BadLine
  NoChat = NoChat
INVARIANTS TypeOK OneWriter SyncedMeansSaved OnlyTailInvalid 
PROPERTIES RecentTurnsKept KeepsPromise
CHECK_DEADLOCK FALSE
