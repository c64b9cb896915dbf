SPECIFICATION Spec
CONSTANTS
  P = 101
  D = 42
  BaseX = 6
  BaseY = 40
  TopBit = 128
  Multiples <- Multiples101
  Bytes = 2
  Inputs <- MCInputs
  VANITY_BATCH = 4
  Iters = 8
  VerifyCount = 5
  Starts <- MCStarts
  Reserved = {9}
  WantedSets <- MCWantedSets
INVARIANTS
  DigitsMakeTheScalar
  PartialProduct
  LanesAreChainPoints
  FirstMatchIsEmitted
  NothingSkipped
  VerifierSeesTheChain
