\* Two members, whose tokens take one step.
SPECIFICATION ActorSpec
CONSTANTS
  Ring = 2
  TokenValue = 1
INVARIANT InitDeregistered
CHECK_DEADLOCK FALSE
