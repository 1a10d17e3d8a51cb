\* Three validators, the leader may restart once.
SPECIFICATION Spec
CONSTANTS
  N = 3
  M = 0
  Restartable = {0}
  MaxRestarts = 1
  SeenCap = 100
  SeenKeep = 50
  AckCap = 100
  NoBlock = NoBlock
  Variant = {a, b}
  TopHeight = 0
  Block <- MCBlock
  Height <- MCHeight
  Prev <- MCPrev
CHECK_DEADLOCK FALSE
SYMMETRY Symmetry
VIEW View
INVARIANT Agreement
