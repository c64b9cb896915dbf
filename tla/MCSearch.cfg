SPECIFICATION FairSpec
CONSTANTS
  A = A
  B = B
  Prefixes <- MCPrefixes
  Mult <- MCMult
  Add8B <- MCAdd8B
  Matches <- MCMatches
  ShouldSkip <- MCShouldSkip
  RandomDraws <- MCRandomDraws
  ScalarMod = 256
  ClampTop = 128
  ClampBase = 64
  CombReach = 160
  ChainLimit = 160
  ChainBatch = 2
  BatchSize = 4
  GpuBatchKeys = 5
  MaxThreads = 2
  Requests <- SmallRequests
  RngMayFail = TRUE
  StaleReads = TRUE
INVARIANTS
  IInv
  GenuineResult
  FoundNotLost
  ReportedAttempts
  NothingOverlooked
  KeyNearDraw
  ProgressLag
PROPERTIES
  ImplementsVanitySearch
  StopsAfterHit
  FinishReturns
