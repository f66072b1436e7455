SPECIFICATION Spec
CONSTANTS
  Procs = {cli, app}
  Apps = {app}
  FaultPoints = {"cli_model"}
  PromptLens = {2}
  Models = {"a", "b"}
  KeepTurns = 1
  MaxMessages = 3
  MaxCompactions = 1
  MaxFaults = 1
  NoProc = NoProc
  NoRow = NoRow
  NoSession = NoSession
  NoWriter = NoWriter
  NoTail = NoTail
  Torn = Torn
  BadLine = BadLine
  NoChat = NoChat
INVARIANT SyncedMeansSaved
CHECK_DEADLOCK FALSE
