\* Two matches, one read at a time, up to three faults.
SPECIFICATION Spec
CONSTANTS
  m1 = m1
  m2 = m2
  m3 = m3
  r1 = r1
  NoMatch = none
  Matches <- Matches2
  Readers <- OneReader
  Backends <- AllBackends
  Weights <- TwoWeights
  MaxEntries = 2
  MaxBytes = 2
  RecordLimit = 2
  TTL = 2
  Slack = 0
  ReadSlots = 1
  MaxClock = 2
  MaxMishaps = 3
CONSTRAINT Explored
SYMMETRY Interchangeable
INVARIANTS StoreInOrder ReadsLinearize AnswersHold
CHECK_DEADLOCK FALSE
