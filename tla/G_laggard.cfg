\* Two producers, nothing fails but a block that does not arrive live.
SPECIFICATION MCSpec
CONSTANTS
  Producer = {"v0", "v1"}
  Observer = {}
  Bootstrap <- MCBootstrap
  MaxBatch = 2
  LineBlocks = 2
  LineStates = {}
  MaxChain = 2
  MaxCrashes = 0
  MaxBreaks = 0
  MaxDrops = 0
CHECK_DEADLOCK FALSE
PROPERTY LaggardsCatchUp
