\* An outbox that is exactly full when the match ends.
SPECIFICATION Safety
CONSTANTS
  p = p
  Spectators = {p}
  MaxConns = 2
  Casts <- Released
  OutboxMax = 3
  MaxTurns = 2
  MaxChance = 0
  MaxNotes = 0
  MaxFaults = 0
INVARIANTS NotCutShort
CHECK_DEADLOCK FALSE
