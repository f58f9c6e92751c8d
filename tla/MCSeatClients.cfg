SPECIFICATION Spec
CONSTANTS
  MaxTurns = 2
  RetryBudget = 1
  MaxSends = 3
  MaxIdle = 1
CHECK_DEADLOCK FALSE
INVARIANTS ActionsAnswerTheirTurn MoveConfirmsItself OutcomeIsTheMatchs
PROPERTIES PingsAnswered ConnectReturns
