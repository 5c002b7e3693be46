SPECIFICATION Spec
CONSTANTS
  Payloads <- MCPayloads
  Margins <- MCMargins
  Bandwidths <- MCBandwidths
  SecondUnits = 6
  Profiles <- MCProfiles
  Size <- MCSize
  Bf16Bytes = 12
  CorpusSets <- MCCorpusSets
  CGrid <- MCCGrid
  Kernels <- MCKernels
  Knobs <- MCKnobs
CHECK_DEADLOCK FALSE
INVARIANTS MarginOnlyBypasses RegretIsFlips HandicapIsFair
