SPECIFICATION Spec
CONSTANTS
  Trips = {t1}
  Users = {u1}
  Handlers = {h1, h2}
  RiderOf <- MCRiderOf
  Targets = {"requested", "accepted", "arriving", "completed", "cancelled"}
  TopUps = {2}
  MaxBalance = 4
  MaxMoves = 3
  Deployments <- ShippedOrPriced
  Faulty = TRUE
INVARIANT RewardsAreEarned
INVARIANT ChargeFollowsCompletion
INVARIANT ToldCompletions
INVARIANT SettledOnce
CHECK_DEADLOCK FALSE
