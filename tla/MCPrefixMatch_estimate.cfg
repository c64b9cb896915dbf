SPECIFICATION Spec
CONSTANTS
  Radix = 2
  KeyBytes = 3
  WordBytes = 2
  WordMod = 8
  Commands <- SingleCommands
INVARIANTS
  EstimateIsDifficulty
