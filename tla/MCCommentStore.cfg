SPECIFICATION Spec
CONSTANTS
  a = a
  b = b
  p1 = p1
  p2 = p2
  site = site
  post = post
  Slugs = {a, b}
  Sources = {site}
  Kinds = {post}
  Requests = {p1, p2}
  Jobs = {sync}
  NoRow = NoRow
  NoJob = NoJob
  NoRequest = NoRequest
  NoSlug = NoSlug
  NoComment = NoComment
  LockKeys = {0}
  Hash <- OneKey
  EnvRows <- OpenOrClosed
  MaxVisible = 1
  MaxConns = 2
  MaxComments = 2
  MaxEvents = 2
SYMMETRY Symmetry
INVARIANTS
  VisibleCap
  AuditExplainsStatus
PROPERTIES
  PolicyAtCommit
  ImplementsBoard
