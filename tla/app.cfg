\* Two prompts and a call of a conversation; two overlapping calls under the pill; one project,
\* two chats and two inputs in the window.
SPECIFICATION MCSpec
CONSTANTS
  Idle = Idle
  MaxPrompts = 2
  MaxCalls = 1
  Calls = {1, 2}
  MinDwell = 2
  MaxTime = 3
  Projects = {p1}
  NoProject = NoProject
  Sessions = {s1, s2}
  NoSession = NoSession
  Models = {m1, m2}
  MaxThreads = 2
  MaxInputs = 2
INVARIANTS ThreadShowsTurn PillShowsCalls 
PROPERTIES DeletedStaysDeleted RequestsEnd PillNoFlicker
CHECK_DEADLOCK FALSE
