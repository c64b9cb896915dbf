SPECIFICATION FFairSpec
CONSTANTS
  A = A
  B = B
  Prefixes <- MCPrefixes
  Mult <- MCMult
  Add8B <- MCAdd8B
  Matches <- MCMatches
  ShouldSkip <- MCShouldSkip
  RandomDraws <- FewDraws
  ScalarMod = 256
  ClampTop = 128
  ClampBase = 64
  CombReach = 160
  ChainLimit = 160
  ChainBatch = 2
  BatchSize = 4
  GpuBatchKeys = 3
  MaxThreads = 2
  Requests <- MCRequests
  RngMayFail = TRUE
  StaleReads = TRUE
  Clis <- MCClis
  Machines <- MCMachines
  AllCores = AllCores
  IoMayFail = TRUE
INVARIANTS
  FInv
  ExitCodeHonest
  KeyDelivered
  ScreenRestored
  NeverBlocksOnSearch
  ModeHonoured
PROPERTIES
  HitEndsProgram
  JsonEnds
