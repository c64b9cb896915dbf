SPECIFICATION FairSpec
CONSTANTS
  Backends <- BothBackends
  NumThreads = 2
  Iters = 4
  Batch = 2
  MaxLaunches = 2
  ScalarMod = 8192
  ClampBase = 2048
  CombReach = 4320
  RandomDraws <- MCRandomDraws
  Kernels = {TRUE, FALSE}
  Mult <- MCMult
  Add8B <- MCAdd8B
  Hit <- MCHit
INVARIANTS
  GInv
  FreshTerritory
  RejectedOnlyAfterLoss
PROPERTIES
  ImplementsContract
  LaunchEnds
