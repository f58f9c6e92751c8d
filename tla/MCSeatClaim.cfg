\* Two clients, a third one, a second connection of the first; one socket too many.
SPECIFICATION Spec
CONSTANTS
  c1 = c1
  c2 = c2
  c3 = c3
  c4 = c4
  alice = alice
  bob = bob
  carol = carol
  NoConn = none
  Conns <- FourConns
  Clients <- Everyone
  ClientOf <- ClientsOf
  Asks <- AsksOf
  PerIp = 3
  SeatCap = 2
  SpectatorCap = 1
INVARIANTS NothingRevived GaugesExact EndedMatchHoldsNothing
PROPERTIES SeatKeepsItsClient NobodyWaitsForEver
CHECK_DEADLOCK FALSE
