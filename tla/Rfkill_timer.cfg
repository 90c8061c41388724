SPECIFICATION Spec
CONSTANTS
  bt = bt
  wlan = wlan
  t1 = t1
  t2 = t2
  Switch = {bt, wlan}
  BtSwitch = {bt}
  Task = {t1, t2}
  NoTask = NoTask
  MaxChanges = 2
CONSTRAINT Bound
CHECK_DEADLOCK FALSE

INVARIANT AssertionHolds
