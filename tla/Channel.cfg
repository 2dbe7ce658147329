\* Two channels of capacity 0, 1 or 2, or two channels of void of capacity 0 or
\* 2, with three puts and two gets.
SPECIFICATION Spec
CONSTANTS
  Chans = {c1, c2}
  Puts = {p1, p2, p3}
  Gets = {g1, g2}
  Capacities = {0, 1, 2}
  VoidCapacities = {0, 2}
  NoValue = NoValue
SYMMETRY Symmetry
INVARIANTS StatesMatchContents NobodyWaitsInVain DefinedUnlessReset
PROPERTY ImplementsBoundedQueue
CHECK_DEADLOCK FALSE
