SPECIFICATION FairSpec
CONSTANTS
  Timers = {t1}
  Cancelers = {c1}
  Interval <- IntervalOf
  NoTimer = NoTimer
  Millisecond = 2
  MaxTime = 4
PROPERTIES CanceledGetsReleased
CHECK_DEADLOCK FALSE
