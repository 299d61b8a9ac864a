SPECIFICATION AskedSpec
CONSTANTS
  Clients = {x, y}
  Requests = {r1, r2}
  Buckets = {b1, b2, b3}
  None = None
  Burst = 2
  Interval = 2
  Stall = 3
  MaxWatch = 6
  Pairs = {p1, p2}
  Lookups = {l1, l2}
  NoPair = NoPair
  RouteTtl = 2
  SaveStall = 1
SYMMETRY FrontSymmetry
INVARIANTS
  OneBucket
  NeverOverRate
  RoadsReturn
PROPERTIES
  ImplementsBucket
  RoadsAreKept
