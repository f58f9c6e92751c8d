\* A heartbeat ping, and an observation_request, follow match_aborted.
SPECIFICATION Spec
CONSTANTS
  MaxConns = 2
  TurnIds = {}
  Fresh = fresh
  RetryBudget = 0
  MaxProtocolErrors = 1
  TurnCap = 1
  MaxChance = 0
  Rounds = {{0, 1}}
  HasDeadline = TRUE
  MaxFaults = 0
INVARIANTS NoPingAfterTerminal NoRequestAfterTerminal
