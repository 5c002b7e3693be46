SPECIFICATION Spec
CONSTANTS
  NTensors = 3
  Depth = 2
  Passes = 1
  Compressed = TRUE
  Transport = "HostRing"
  Bytes <- MCBytes
  Payload <- MCPayload
  Payloads <- Tensors
  Failures = FALSE
  ShortWrites = FALSE
  FillLandsFirst = FALSE
INVARIANTS PassDeliversAll
