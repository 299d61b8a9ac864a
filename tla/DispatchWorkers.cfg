SPECIFICATION Spec
CONSTANTS
  Drivers = {d1, d2}
  Trips = {t1, t2}
  Handlers = {h1, h2}
  Ops = {"next"}
  NoDriver = NoDriver
  NoTrip = NoTrip
  TripsWired = TRUE
  Faulty = FALSE
SYMMETRY Symmetry
INVARIANT NoDoubleBooking
