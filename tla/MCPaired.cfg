SPECIFICATION Spec
CONSTANTS
  Sizes <- MCSizes
  Pairs = 4
  Segments = 2
  Warmup = 1
  Failures = TRUE
  Depth = 2
  FillLandsFirst = TRUE
INVARIANTS EveryCheckPasses RunsDeliver StagedPrefix OrdersBalanced
