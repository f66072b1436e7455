\* A chat of three turns with one Codex model and another provider's.
SPECIFICATION Spec
CONSTANTS
  Models = {m1}
  m1 = m1
  MaxTurns = 3
  MaxUnread = 2
INVARIANT KnowsChatAfterOtherModel
CHECK_DEADLOCK FALSE
