\* One seat drops and resumes twice, a rejection between; no
\* deadline ends the turn, and the old connection may stay open.
SPECIFICATION Spec
CONSTANTS
  MaxConns = 3
  TurnIds = {}
  Fresh = fresh
  RetryBudget = 1
  MaxProtocolErrors = 1
  TurnCap = 1
  MaxChance = 0
  Rounds = {{0}}
  HasDeadline = FALSE
  MaxFaults = 0
INVARIANTS HeartbeatFollowsReader
PROPERTIES ResumedSeatIsKept ResumeIsRead
