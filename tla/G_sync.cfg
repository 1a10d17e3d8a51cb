\* A producer and an observer that dials it; a crash and a dropped line.
SPECIFICATION OneServerSpec
CONSTANTS
  Producer = {"v0"}
  Observer = {"o"}
  Bootstrap <- MCBootstrap
  MaxBatch = 2
  LineBlocks = 1
  LineStates = {1}
  MaxChain = 2
  MaxCrashes = 1
  MaxBreaks = 1
  MaxDrops = 1
CHECK_DEADLOCK FALSE
INVARIANT TypeOK
PROPERTIES UnheardIsServed NeverRewinds
