\* Three timers and three waits; every property excepts what a harmful move does.
SPECIFICATION Spec
CONSTANTS
  Timers = {t1, t2, t3}
  Waits = {w1, w2, w3}
  MaxTime = 1
  MaxWait = 2
  Followed = {}
  Null = Null
SYMMETRY Symmetry
INVARIANTS QueueIsExact OnTimeUnlessMoved DefinedUnlessMoved
PROPERTY ImplementsPendingWaits
CHECK_DEADLOCK FALSE
