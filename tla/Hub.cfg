SPECIFICATION FairSpec
CONSTANTS
  Riders = {r1}
  DriverConns = {d1}
  Writers = {u1}
  SendCap = 1
  BroadcastCap = 1
  MaxStatuses = 1
  MaxPositions = 1
  Lag = 0
INVARIANTS
  NoPositionMissed
  ListedIsOpen
  OneHub
  NoGaps
PROPERTIES
  BroadcastsEnd
  ConnectionsEnd
CHECK_DEADLOCK FALSE
