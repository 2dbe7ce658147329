\* Two threads, one in run, one calling run_one: a deferred function.
SPECIFICATION Spec
CONSTANTS
  Threads = {t1, t2}
  Ops = {o1, o2}
  Works = {w1}
  Calls = {"post", "defer", "run", "run_one"}
  Hints = {FALSE}
  NoOp = NoOp
  StopCall = StopCall
INVARIANT NoLostWakeup
CHECK_DEADLOCK FALSE
