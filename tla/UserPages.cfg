SPECIFICATION PagesSpec
CONSTANTS
  Promotions = promotions
  News = news
  NewsKeys = {five}
  Procs = {p1}
  Calls = {c1, c2}
  NoProc = NoProc
  Ttl = 2
  Stall = 1
  MaxWrites = 2
  Users = {u1, u2}
  Tokens = {k1, k2}
  Jobs = {c1, c2}
  NoUser = NoUser
  NoToken = NoToken
  ChunkSize = 1
  MaxNotes = 2
SYMMETRY PagesSymmetry
INVARIANTS
  SettledIsSeen
  StaleOnlyForTtl
  DeviceHasItsOwner
  PushesReachOwners
