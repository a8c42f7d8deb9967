SPECIFICATION EdgeSpec
CONSTANTS
  c1 = c1
  c2 = c2
  p1 = p1
  p2 = p2
  r1 = r1
  r2 = r2
  ua = ua
  Clients = {c1, c2}
  Proxies = {p1, p2}
  Agents = {ua}
  Features = {"comments", "likes"}
  Routes <- ProxyRoutes
  Headers <- ForgedHeaders
  Garbage = Garbage
  Handlers = {r1, r2}
  PerMinute <- Allowances
  TableSize = 2
  NoCall = NoCall
SYMMETRY Symmetry
INVARIANTS
  OneAllowance
  SpentOnService
PROPERTIES
  DenialDeserved
  ImplementsLimiters
