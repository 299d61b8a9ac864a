SPECIFICATION Spec
CONSTANTS
  Trips = {t1}
  Users = {u1}
  Handlers = {h1}
  RiderOf <- MCRiderOf
  Targets = {"completed"}
  TopUps = {2}
  MaxBalance = 4
  MaxMoves = 2
  Deployments <- ShippedServices
  Faulty = FALSE
INVARIANT JudgedOnPrimary
CHECK_DEADLOCK FALSE
