\* Two timers and two waits; a wait may need three sleeps.
SPECIFICATION FairSpec
CONSTANTS
  Timers = {t1, t2}
  Waits = {w1, w2}
  MaxTime = 2
  MaxWait = 1
  Followed = {}
  Null = Null
PROPERTY WaitsAndShutdownEnd
CHECK_DEADLOCK FALSE
