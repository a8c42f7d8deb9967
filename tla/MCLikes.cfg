SPECIFICATION FairSpec
CONSTANTS
  a = a
  p1 = p1
  p2 = p2
  p3 = p3
  v = v
  site = site
  post = post
  Slugs = {a}
  Visitors = {v}
  Sources = {site}
  Kinds = {post}
  Requests = {p1, p2, p3}
  Jobs = {sync}
  NoRow = NoRow
  NoJob = NoJob
  NoRequest = NoRequest
  NoKey = NoKey
  EnvRows <- OpenRow
  MaxConns = 2
PROPERTIES
  DesiredStateReached
  LikesComplete
