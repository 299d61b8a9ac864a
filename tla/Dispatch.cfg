SPECIFICATION WorldsSpec
CONSTANTS
  Drivers = {d1, d2}
  Trips = {t1}
  Handlers = {h1, h2}
  Ops = {"assign", "next", "accept", "decline", "update", "patch", "availability"}
  NoDriver = NoDriver
  NoTrip = NoTrip
  TripsWired = TRUE
  Faulty = TRUE
SYMMETRY Symmetry
INVARIANT RowBeforeDriver
INVARIANT AcceptanceIsOwn
INVARIANT TablesAgree
PROPERTY StatusIsOwn
