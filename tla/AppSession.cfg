SPECIFICATION FairSpec
CONSTANTS
  Calls = {c1, c2}
  MaxFaults = 2
  None = None
INVARIANTS
  OneRefresh
  SessionKept
  LogoutSticks
PROPERTIES
  CallsEnd
CHECK_DEADLOCK FALSE
