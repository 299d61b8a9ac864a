SPECIFICATION Spec
CONSTANTS
  Users = {u1, u2}
  Plates = {p1, p2}
  Handlers = {h1, h2}
  Veterans = {u1}
  SearchLimit = 2
  MaxRequests = 4
  MaxFaults = 1
  NoUser = NoUser
  NoPlate = NoPlate
INVARIANTS
  DriversHaveAccounts
  AnsweredIsWhole
  NoStrayDrivers
  SearchHonoursOffline
  OfflineLeavesIndex
SYMMETRY SupplySymmetry
CHECK_DEADLOCK FALSE
