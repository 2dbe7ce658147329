\* A pool of two threads and functions that only post: join must drain it.
SPECIFICATION PoolSpec
CONSTANTS
  Threads = {t1, t2, owner}
  Pool = {t1, t2}
  Owner = owner
  Ops = {o1, o2, o3}
  Works = {poolwork}
  PoolWork = poolwork
  Calls = {"post", "run", "stop", "work"}
  Hints = {FALSE}
  NoOp = NoOp
  StopCall = StopCall
INVARIANT JoinDrains
CHECK_DEADLOCK FALSE
