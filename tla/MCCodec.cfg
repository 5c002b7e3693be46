SPECIFICATION Spec
CONSTANTS
  Inputs <- MCInputs
  Res <- MCRes
  MantissaBits <- MCMantissaBits
CHECK_DEADLOCK FALSE
INVARIANTS BoundHolds NonFiniteIsExact EncodersAgree StatsAreTrue ChunkIndependent
