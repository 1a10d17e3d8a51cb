\* Two deposits of one wallet in one poll of the relayer.
SPECIFICATION Spec
CONSTANTS
  Key = {"k"}
  Attestor = {}
  Careful = {}
  Witnesses = {}
  BurnId = {}
  MeshId = {"a"}
  Mint = {}
  Sol = "sol"
  MaxU64 = 60000
  MinRent = 1
  MaxAttestors = 2
  Amount = {4}
  Bps = {2500}
  MaxDeposits = 2
  Drip = {}
  DripAmount = 4
  MaxNonce = 0
  MaxLosses = 0
  MaxCrashes = 0
CHECK_DEADLOCK FALSE
INVARIANT ProcessedIsMinted
