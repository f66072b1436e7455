\* A line typed ahead and two Ctrl-C: the second one reaches the next turn.
SPECIFICATION Spec
CONSTANTS
  Tty = TRUE
  MaxTurns = 2
  MaxPresses = 2
INVARIANT SecondPressExits
CHECK_DEADLOCK FALSE
