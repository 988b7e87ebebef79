CONSTANTS
  Ids = {1, 2, 3}
  Waits = {w1}
  Limits = {0, 2}
  MaxTime = 3
  None = None
SPECIFICATION Spec
PROPERTIES OnlyTwinsAreMissed SleepersWake
CHECK_DEADLOCK FALSE
