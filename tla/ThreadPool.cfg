\* A pool of one or two threads, its owner and a client, three functions.
SPECIFICATION PoolSpec
CONSTANTS
  Threads = {t1, t2, owner, client}
  Pool = {t1, t2}
  Owner = owner
  Ops = {o1, o2, o3}
  Works = {poolwork}
  PoolWork = poolwork
  Calls = {"post", "defer", "dispatch", "run", "stop", "work"}
  Hints = {TRUE, FALSE}
  NoOp = NoOp
  StopCall = StopCall
INVARIANTS NoLostWakeup PoolStaysUp JoinDrainsUnlessReused
PROPERTIES JoinTerminates SubmittedRuns
CHECK_DEADLOCK FALSE
