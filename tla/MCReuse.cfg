SPECIFICATION Spec
CONSTANTS
  Tensors = 1
  Passes = 20
  MaxFaults = 2
INVARIANTS PassedMeansNoFault FailedMeansFault ObservedIsKept HardCasesMet
