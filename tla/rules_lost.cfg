\* The same two processes: what one saves, the other overwrites.
SPECIFICATION Spec
CONSTANTS
  NoCall = NoCall
  Procs = {chat, serve}
  Rules = {build, test}
  MaxFaults = 1
INVARIANT FromNowOn
