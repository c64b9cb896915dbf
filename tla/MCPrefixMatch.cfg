SPECIFICATION Spec
CONSTANTS
  Radix = 2
  KeyBytes = 3
  WordBytes = 2
  WordMod = 256
  Commands <- MCCommands
INVARIANTS
  TestsAgree
  WalkEndsAtBuffer
  AcceptedCanBeFound
  EstimateIsRate
