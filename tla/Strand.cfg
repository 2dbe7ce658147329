\* Two strands over an executor of two threads, four functions.
SPECIFICATION Spec
CONSTANTS
  Threads = {t1, t2}
  Strands = {s1, s2}
  Ops = {o1, o2, o3, o4}
  NoOp = NoOp
  NoCall = NoCall
  Idle = Idle
INVARIANTS MutualExclusion OneInvoker
PROPERTIES ImplementsSerialQueue AcceptedRuns
CHECK_DEADLOCK FALSE
