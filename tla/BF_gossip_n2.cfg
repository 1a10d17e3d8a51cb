\* Two validators, blocks and acknowledgements only, fair delivery.
SPECIFICATION GossipSpec
CONSTANTS
  N = 2
  M = 0
  Restartable = {}
  MaxRestarts = 0
  SeenCap = 100
  SeenKeep = 50
  AckCap = 100
  NoBlock = NoBlock
  Variant = {a}
  TopHeight = 2
  Block <- MCBlock
  Height <- MCHeight
  Prev <- MCPrev
CHECK_DEADLOCK FALSE
INVARIANT NoReadyBlockLeft
PROPERTY EveryBlockFinal
