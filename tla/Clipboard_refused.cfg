SPECIFICATION FairSpec
CONSTANTS
  c1 = c1
  c2 = c2
  small = small
  large = large
  Client = {c1, c2}
  Manager = Manager
  NoWindow = NoWindow
  Target = {small, large}
  Large = {large}
  Parts = 2
  MaxTime = 2
CONSTRAINT Few
CHECK_DEADLOCK FALSE
PROPERTY RefusedOnlyWhenBusy
