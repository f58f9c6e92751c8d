\* Three matches for two places, three addresses; the dict of windows is scanned at one.
SPECIFICATION Spec
CONSTANTS
  a = a
  b = b
  c = c
  m1 = m1
  m2 = m2
  m3 = m3
  Ids <- ThreeIds
  Ips <- ThreeIps
  MaxMatches = 2
  Retention = 1
  MaxAge = 2
  Unstarted = 1
  CreationCap = 1
  CreationSpan = 1
  ActionCap = 2
  ActionSpan = 2
  PruneThreshold = 1
  MaxClock = 4
  MaxSlots = 6
  MaxPosts = 3
CONSTRAINT Explored
SYMMETRY Interchangeable
INVARIANTS CreationRate WindowsBounded
PROPERTIES LimitsAreMinima ActionsKeepTheirSlots
CHECK_DEADLOCK FALSE
