\* Up to three heads; a chain of two or three functions over one loop; three
\* threads and two operations of a coroutine; two callers, three calls of a
\* registry; three variables and five operations of polymorphic executors;
\* three blocks of three sizes, the largest too large for its byte; four
\* continuations, one of any signature; a tree of six forks on two threads, with
\* functions executed at once when two are queued; pipelines of two to four
\* functions; a ring of three actors; two
\* strand variables, three implementations and a function; a heap of six timers and two times.
SPECIFICATION FacilitiesSpec
CONSTANTS
  MaxHeads = 3
  Wrap = 8
  Loops = {"l1"}
  MaxStages = 3
  YieldThreads = {y1, y2, y3}
  MaxYields = 2
  AwaitThreads = {a1, a2, a3}
  MaxAwaits = 2
  Callers = {t1, t2}
  Keys = {"reactor", "timer"}
  Uses <- TimerUsesReactor
  MaxCalls = 3
  Holders = {h1, h2, h3}
  Objects = {o1, o2}
  Targets = {"pool"}
  Submitted = {f1}
  Budget = 5
  RecyclingThreads = {r1, r2}
  Blocks = {b1, b2, b3}
  Sizes = {1, 2, 4}
  ByteMax = 2
  TimedCalls = {c1, c2, c3}
  Continuations = {v1, v2, v3, v4}
  Signatures = {"s1", "s2"}
  Untyped = v1
  Second = v2
  TypeOf <- TwoSignatures
  Impls = {i1, i2}
  PoolThreads = {w1, w2}
  Jobs = {"r", "a", "b", "c", "d", "e", "z"}
  Root = "r"
  Forks <- TreeOfForks
  Delayed = {"z"}
  LoadLimit = 1
  MaxFunctions = 4
  Pooled = {3}
  Lines = 3
  Ring = 3
  TokenValue = 1
  StrandVars = {q1, q2}
  StrandImpls = {p1, p2, p3}
  StrandFunctions = {g1}
  HeapSize = 6
  HeapTimes = {0, 1}
INVARIANTS FacilitiesTypeOK PendingCountsHeads ChainSound AwaitSound ServicesKept SharesExact BlockFits TimedCallsKept OwnedOnce JoinsAll LinesInOrder TokensKept StrandsListed
PROPERTIES ImplementsForkJoin ResumedOnlySuspended CoroutinesKeepPromise Settles HeapKept
CHECK_DEADLOCK FALSE
