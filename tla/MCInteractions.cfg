SPECIFICATION FairSpec
CONSTANTS
  a = a
  b = b
  site = site
  post = post
  Slugs = {a, b}
  Sources = {site}
  Kinds = {post}
  Requests = {p1, p2}
  Jobs = {j1}
  NoRow = NoRow
  NoJob = NoJob
  NoRequest = NoRequest
  NoSlug = NoSlug
  NoComment = NoComment
  NoSnapshot = NoSnapshot
  Omitted = Omitted
  LockKeys = {0, 1}
  Hash <- KeyOf
  Manifests <- Files
  SeedRows <- Seeds
  MaxVisible = 1
  MaxConns = 1
  MaxComments = 1
  MaxEvents = 1
PROPERTIES
  ImplementsStore
  ImplementsSync
  RequestsComplete
  SyncsComplete
