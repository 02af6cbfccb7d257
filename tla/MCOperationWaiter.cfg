SPECIFICATION OpFairSpec
CONSTANTS
  Timers = {tt, t2}
  Cancelers = {c1, cd}
  Timeout_timer = tt
  Done_thread = cd
  Interval <- IntervalOf
  NoTimer = NoTimer
  Millisecond = 2
  MaxTime = 5
INVARIANTS OpTypeOK TreeSound FireCompletes NoTimeoutLeft
PROPERTIES NotEarly ImplementsTimer ArmedGetsCalled
CHECK_DEADLOCK FALSE
