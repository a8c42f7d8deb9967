SPECIFICATION Spec
CONSTANTS
  a = a
  b = b
  c = c
  site = site
  docs = docs
  post = post
  Slugs = {a, b, c}
  Sources = {site, docs}
  Kinds = {post}
  Requests = {p1}
  Jobs = {j1, j2, j3}
  NoRow = NoRow
  NoJob = NoJob
  NoSnapshot = NoSnapshot
  Omitted = Omitted
  Manifests <- Files
  SeedRows <- Seeds
INVARIANT
  SnapshotInForce
PROPERTY
  ImplementsRegistry
