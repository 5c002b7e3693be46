SPECIFICATION Spec
CONSTANTS
  Sizes <- MCSizes
  Configs <- MCConfigs
  Reps = 1
  Faults = TRUE
INVARIANTS AckedIsDurable ReturnedIsWhole TableIsComplete
PROPERTIES Terminates
