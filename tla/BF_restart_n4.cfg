\* Four validators, one height, the leader may restart once.
SPECIFICATION CrashSpec
CONSTANTS
  N = 4
  M = 0
  Restartable = {0}
  MaxRestarts = 1
  SeenCap = 100
  SeenKeep = 50
  AckCap = 100
  NoBlock = NoBlock
  Variant = {a, b}
  TopHeight = 0
  Block <- MCBlock
  Height <- MCHeight
  Prev <- MCPrev
CHECK_DEADLOCK FALSE
SYMMETRY Symmetry
VIEW View
INVARIANTS
  Agreement
  OneVotePerHeight
  FinalIsCertified
