\* Two calls of one response, a death between two appends of a sync, and the resumed chat.
SPECIFICATION SavedSpec
CONSTANTS
  Rules = {}
  NoRule = NoRule
  BadCall = BadCall
  NoPrompt = NoPrompt
  NoAnswer = NoAnswer
  Kinds = {BadCall}
  ApprovalMode = "auto"
  Enforced = TRUE
  AsksUser = TRUE
  StoredRules = {}
  KeepTurns = 1
  MaxSteps = 2
  MaxCalls = 2
  MaxTurns = 2
  MaxIds = 2
  Capacity = 1
INVARIANTS RequestAfterResume
CHECK_DEADLOCK FALSE
