\* Two validators: rival transactions, and tips that must be included.
SPECIFICATION MCSpec
CONSTANTS
  kV = kV
  kW = kW
  kA = kA
  kB = kB
  r1 = r1
  NoKey = NoKey
  NoPq = NoPq
  NoAccount = NoAccount
  Key <- MCKey
  PqKey = {}
  Ref = {r1}
  ShortId <- MCShortId
  ShortIdOf <- MCShortIdOf
  Validators <- MCValidators
  Minters = {}
  Allocation <- MCAllocation
  Sent <- MCSent
  TxId <- MCTxId
  MaxTxs = 2
  MaxPool = 2
  MaxBlocks = 4
  MaxNonce = 9
  MaxU64 = 99
  PqRequiredAbove = 99
  BlockReward = 1
CHECK_DEADLOCK FALSE
INVARIANTS TypeOK BlocksApply SupplyIsBalances TakeIsGreedy
PROPERTY EverywhereIsSettled
