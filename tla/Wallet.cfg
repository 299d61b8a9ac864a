SPECIFICATION FairSpec
CONSTANTS
  Users = {u1}
  Sessions = {s1, s2}
  Amounts = {1, 2}
  MinTopUp = 2
  MaxTopUp = 2
  MaxBooked = 2
  NoUser = NoUser
  NoSession = NoSession
INVARIANTS
  BooksBalance
  NoOverdraft
PROPERTIES
  ImplementsLedger
  RequestsEnd
