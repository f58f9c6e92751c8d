\* Seats act one at a time: turn ids, retries, chance turns, the turn cap, one fault.
SPECIFICATION Spec
CONSTANTS
  MaxConns = 2
  TurnIds = {t1}
  Fresh = fresh
  RetryBudget = 1
  MaxProtocolErrors = 1
  TurnCap = 2
  MaxChance = 1
  Rounds = {{0}, {1}}
  HasDeadline = TRUE
  MaxFaults = 1
INVARIANTS TypeOK ExitTellsEverySeat
PROPERTY TurnIdsDecidedOnce
