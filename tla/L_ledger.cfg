\* One node, two sets of transactions.
SPECIFICATION MCSpec
CONSTANTS
  kV = kV
  kA = kA
  kB = kB
  kC = kC
  p1 = p1
  p2 = p2
  r1 = r1
  r2 = r2
  NoKey = NoKey
  NoPq = NoPq
  NoAccount = NoAccount
  ColdHistory = 4
  Key <- MCKey
  PqKey = {p1, p2}
  Ref = {r1, r2}
  ShortId <- MCShortId
  ShortIdOf <- MCShortIdOf
  Validators <- MCValidators
  Minters <- MCMinters
  Allocation <- MCAllocation
  Sent <- MCSent
  MaxTxs = 2
  MaxHistory = 12
  MaxHeight = 4
  MaxNonce = 2
  MaxU64 = 99
  PqRequiredAbove = 6
  BlockReward = 1
CHECK_DEADLOCK FALSE
INVARIANTS TypeOK NothingCreated OneTxPerNonce OneMintPerRef BoundKeyHolds
PROPERTY LedgerGrows
