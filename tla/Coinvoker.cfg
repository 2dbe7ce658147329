\* Up to three heads; one may be dropped before the last one ends.
SPECIFICATION CoinvokerSpec
CONSTANTS
  MaxHeads = 3
  Wrap = 8
INVARIANT EveryValueIsThere
CHECK_DEADLOCK FALSE
