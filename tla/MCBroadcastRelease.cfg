\* Pairs of connections; no socket ever has to take a frame.
SPECIFICATION Spec
CONSTANTS
  p = p
  Spectators = {p}
  MaxConns = 2
  Casts <- Released
  OutboxMax = 2
  MaxTurns = 0
  MaxChance = 0
  MaxNotes = 0
  MaxFaults = 0
PROPERTIES EverySocketShut
CHECK_DEADLOCK FALSE
