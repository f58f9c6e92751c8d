\* Both seats act at once, each may resume once, and game code raises once.
SPECIFICATION Spec
CONSTANTS
  MaxConns = 2
  TurnIds = {}
  Fresh = fresh
  RetryBudget = 0
  MaxProtocolErrors = 1
  TurnCap = 1
  MaxChance = 0
  Rounds = {{0, 1}}
  HasDeadline = TRUE
  MaxFaults = 1
INVARIANTS TerminalFrameOnce CleanExit
PROPERTIES NoCommitAfterAbort StepsAsLifecycle DriverExits
