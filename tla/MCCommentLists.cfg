SPECIFICATION FairSpec
CONSTANTS
  a = a
  b = b
  Slugs = {a, b}
  NoComment = NoComment
  MaxComments = 3
  DefaultPageSize = 2
  MaximumPageSize = 2
  Limits = {0, 1, 2, 3}
INVARIANTS
  PagesDescend
  NoneMissed
  NothingNewer
  PagesNeedPolicy
PROPERTY
  WalkEnds
