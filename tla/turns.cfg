\* Three turns of a chat and a few unread lines of a CLI; two MCP servers with a call each; one
\* turn of the agent; two turns at a terminal and three presses; a program
\* in a terminal with two chunks of output and one of input.
SPECIFICATION MCSpec
CONSTANTS
  Models = {m1, m2}
  m1 = m1
  m2 = m2
  OneModel = {m1}
  OneUnread = 1
  VendorTurns = 3
  MaxUnread = 2
  MaxRotations = 1
  Servers = {1, 2}
  Calls = {1}
  Tty = TRUE
  KeyTurns = 2
  MaxPresses = 3
  Room = 1
  MaxChunks = 2
  MaxTyped = 1
  Later = {1}
  Rules = {r1}
  Kinds <- MCKinds
  ApprovalMode = "read_only"
  Enforced = TRUE
  AsksUser = TRUE
  StoredRules = {r1}
  KeepTurns = 1
  MaxSteps = 2
  MaxCalls = 2
  MaxTurns = 1
  MaxIds = 2
  Capacity = 1
  r1 = r1
  NoRule = NoRule
  BadCall = BadCall
  NoPrompt = NoPrompt
  NoAnswer = NoAnswer
INVARIANTS HistoryWellFormed Authorized FeedComplete VendorFollowsChat RunsOnYes
  OneTurnPerPress SeesEveryByte
PROPERTIES CancelEndsTurn CancelClosesPrompt StopsEnd TermReturns
CHECK_DEADLOCK FALSE
