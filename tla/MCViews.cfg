SPECIFICATION FairSpec
CONSTANTS
  a = a
  p1 = p1
  p2 = p2
  v = v
  w = w
  site = site
  post = post
  Slugs = {a}
  Visitors = {v, w}
  Sources = {site}
  Kinds = {post}
  Requests = {p1, p2}
  Jobs = {sync}
  NoRow = NoRow
  NoJob = NoJob
  NoRequest = NoRequest
  NoKey = NoKey
  Never = Never
  Window = 2
  MaxTime = 2
  EnvRows <- OpenOrArchived
  MaxConns = 2
INVARIANTS
  ViewsAddUp
  RollingWindow
PROPERTY
  KnownForAReason
  ViewsComplete
