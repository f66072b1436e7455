\* One turn's parts at a time, each with the bounds of its instance in MCTools.
SPECIFICATION MCSpec
CONSTANTS
  NoCall = NoCall
  Procs = {chat, serve}
  Rules = {build, test}
  MaxFaults = 1
  r1 = r1
  NoRule = NoRule
  CliRules = {r1}
  BadCall = BadCall
  NoPrompt = NoPrompt
  NoAnswer = NoAnswer
  Children = {"child"}
  Timeout = 1
  DrainGrace = 2
  Slack = 3
  Half = 1
  MaxChunks = 2
  Items = {1, 2}
  Pieces = 2
  StreamTurns = 3
  MaxTotal = 2
  PathNames = {"o", "a", "b", "u", "w", "etc", "hosts", "link", "f"}
  LinkTargets <- MCLinkTargets
  AskedPaths <- MCAskedPaths
  WrittenPaths <- MCWrittenPaths
  EvalKeys = 2
  EvalFaults = 2
  ModelSpecs <- MCModelSpecs
  ChatEfforts = {"low"}
  KeyProviders = {"openai", "xai"}
  KeyTexts <- MCKeyTexts
  MaxLines = 2
  Unread = 0
  Calls = {"c", "d"}
  HttpPieces = 2
  MaxRetries = 2
  MaxDelay = 3
  Moves = 2
INVARIANTS HistoryAccepted CallsAccountedFor OnlyGranted FromNowOnUnshared
  CliAsksTheUser SaidOnce CommandsUnderstood EditsAreWhole 
  CallIsOver AnswerOnce ModelAsChosen TextsAreTrue NoKeyLogged 
PROPERTIES WritesStayInside
CHECK_DEADLOCK FALSE
