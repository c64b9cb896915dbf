SPECIFICATION FairSpec
CONSTANTS
  All = All
  AllCores = All
  Modes <- MCModes
  Machines <- MCMachines
  ThreadArgs <- ThreadChoices
  GpuFeature = TRUE
  WriteMayFail = TRUE
  RngMayFail = TRUE
  StaleReads = TRUE
  ChainBatch = 2
  FlushEvery = 4
  GpuBatchKeys = 3
  MaxHits = 1
  MaxTested = 4
  MaxKeys = 6
  MaxWorkers = 3
INVARIANTS
  ModesIsolated
  BInv
PROPERTIES
  TotalsExact
  BenchEnds
