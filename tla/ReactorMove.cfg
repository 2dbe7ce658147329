\* Three timers and two waits, and what follows a move of an expired timer.
SPECIFICATION Spec
CONSTANTS
  Timers = {t1, t2, t3}
  Waits = {w1, w2}
  MaxTime = 1
  MaxWait = 2
  Followed = {"index"}
  Null = Null
SYMMETRY Symmetry
INVARIANT OnTime
CHECK_DEADLOCK FALSE
