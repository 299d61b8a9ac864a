SPECIFICATION FairSpec
CONSTANTS
  Trips = {t1}
  Drivers = {d1}
  Workers = {w1}
  NoTrip = NoTrip
  NoDriver = NoDriver
  Deployments <- SqsDeployment
  TripsWired = FALSE
  MaxFaults = 0
PROPERTIES
  EveryEventAnswered
CHECK_DEADLOCK FALSE
