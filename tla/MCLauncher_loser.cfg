\* Three builds, one of them configured otherwise.  They end: CHECK_DEADLOCK
\* is off because nothing is left to do then.
SPECIFICATION Spec
CONSTANTS
  c1 = c1
  c2 = c2
  c3 = c3
  mine = mine
  other = other
  None = None
  Build = {c1, c2, c3}
  Settings = {mine, other}
  settings <- MCSettings
CHECK_DEADLOCK FALSE
PROPERTY LoserUsesWinner
