SPECIFICATION ProcessFairSpec
CONSTANTS
  p1 = p1
  p2 = p2
  p3 = p3
  Unset = Unset
  Blank = Blank
  Malformed = Malformed
  Text = Text
  Environments <- Started
  Files <- Dotenv
  Connections = {p1, p2, p3}
INVARIANTS
  SettingsSuit
  NilMeansAnswered
  PoolOutlivesClients
PROPERTY
  SignalStops
CHECK_DEADLOCK FALSE
