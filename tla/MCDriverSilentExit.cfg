\* An abort whose broadcast raised is swallowed with the round.
SPECIFICATION Spec
CONSTANTS
  MaxConns = 1
  TurnIds = {}
  Fresh = fresh
  RetryBudget = 0
  MaxProtocolErrors = 1
  TurnCap = 1
  MaxChance = 0
  Rounds = {{0, 1}}
  HasDeadline = TRUE
  MaxFaults = 1
INVARIANT ExitTellsEverySeat
