\* Every entry point, three threads, three operations, one work object.
SPECIFICATION Spec
CONSTANTS
  Threads = {t1, t2, t3}
  Ops = {o1, o2, o3}
  Works = {w1}
  Calls = {"post", "defer", "dispatch", "run", "run_one", "run_until",
           "run_one_until", "poll", "poll_one", "stop", "restart", "work",
           "throw"}
  Hints = {TRUE, FALSE}
  NoOp = NoOp
  StopCall = StopCall
SYMMETRY Symmetry
INVARIANTS TypeOK WorkAccounting NoSleeperWhileStopped
PROPERTY ImplementsExecutor
CHECK_DEADLOCK FALSE
