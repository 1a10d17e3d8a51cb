\* Two deposits for two wallets, faucet drips, a crash of the relayer.
SPECIFICATION MCSpec
CONSTANTS
  kA = kA
  kB = kB
  kR = kR
  Key <- MCKey
  Attestor <- MCAttestor
  Careful <- MCCareful
  Witnesses <- MCWitnesses
  BurnId <- MCBurnId
  MeshId = {"a", "b"}
  Mint = {"usdc"}
  Sol = "sol"
  MaxU64 = 60000
  MinRent = 1
  MaxAttestors = 2
  Amount = {4, 12}
  Bps = {2500}
  MaxDeposits = 2
  MaxUnlocks = 2
  Drip = {100}
  DripAmount = 4
  MaxNonce = 1
  MaxLosses = 1
  MaxCrashes = 1
CHECK_DEADLOCK FALSE
PROPERTY DepositIsSent
INVARIANTS TypeOK Solvent WithinNet UnlockIsBurned DepositMintedOnce 
