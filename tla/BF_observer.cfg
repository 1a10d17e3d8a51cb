\* Rival blocks and an observer, small maps, one restart.
SPECIFICATION ObserverSpec
CONSTANTS
  N = 2
  M = 1
  Restartable = {0, 2}
  MaxRestarts = 1
  SeenCap = 1
  SeenKeep = 1
  AckCap = 1
  NoBlock = NoBlock
  Variant = {a, b}
  TopHeight = 2
  Block <- MCBlock
  Height <- MCHeight
  Prev <- MCPrev
CHECK_DEADLOCK FALSE
SYMMETRY Symmetry
VIEW MCView
INVARIANTS
  TypeOK
  SavedIsServed
  Agreement
PROPERTIES
  NeverRewinds
  ImplementsFinalLog
  ArchiveAppendOnly
