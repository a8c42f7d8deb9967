SPECIFICATION ProcessSpec
CONSTANTS
  p1 = p1
  p2 = p2
  p3 = p3
  Unset = Unset
  Blank = Blank
  Malformed = Malformed
  Text = Text
  Environments <- Defaults
  Files <- NoDotenv
  Connections = {p1}
PROPERTY
  PoolClosedAfterDraining
CHECK_DEADLOCK FALSE
