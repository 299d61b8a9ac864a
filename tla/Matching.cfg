SPECIFICATION FairSpec
CONSTANTS
  Trips = {t1, t2}
  Drivers = {d1, d2}
  Workers = {w1, w2}
  NoTrip = NoTrip
  NoDriver = NoDriver
  Deployments <- EveryDeployment
  TripsWired = TRUE
  MaxFaults = 3
INVARIANTS
  AtMostOnce
  EventsHaveTrips
  NothingLost
PROPERTIES
  EveryEventAnswered
CHECK_DEADLOCK FALSE
