\* A seat that resumes, or a spectator: two turns, an exception.
SPECIFICATION Safety
CONSTANTS
  p = p
  Spectators = {p}
  MaxConns = 2
  Casts <- Readers
  OutboxMax = 2
  MaxTurns = 2
  MaxChance = 1
  MaxNotes = 1
  MaxFaults = 1
INVARIANTS CaughtUp FramesInOrder TerminalDrained
PROPERTIES ImplementsFeed
CHECK_DEADLOCK FALSE
