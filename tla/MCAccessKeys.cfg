SPECIFICATION FairSpec
CONSTANTS
  p1 = p1
  p2 = p2
  k1 = k1
  k2 = k2
  Requests = {p1, p2}
  KeyIDs = {k1, k2}
  Assertions <- Brought
  Ttl = 2
  Timeout = 1
  ClockSkew = 1
  MaxTime = 4
  MaxDocuments = 2
  NoRequest = NoRequest
  NoAssertion = NoAssertion
PROPERTIES
  GroundsAreRecent
  UnknownIsTrue
  NoStepBack
  AccessCompletes
