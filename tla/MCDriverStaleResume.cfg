\* A slow resume hands the driver a connection already replaced.
SPECIFICATION Spec
CONSTANTS
  MaxConns = 3
  TurnIds = {}
  Fresh = fresh
  RetryBudget = 0
  MaxProtocolErrors = 1
  TurnCap = 1
  MaxChance = 0
  Rounds = {{0}}
  HasDeadline = TRUE
  MaxFaults = 0
PROPERTY InstallsLatest
