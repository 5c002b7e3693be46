SPECIFICATION Spec
CONSTANTS
  NTensors = 3
  Depth = 2
  Passes = 1
  Compressed = TRUE
  Transport = "FileConcat"
  Bytes <- MCBytes
  Payload <- MCPayload
  Payloads <- Tensors
  Failures = FALSE
  ShortWrites = TRUE
  FillLandsFirst = TRUE
INVARIANTS NeverWrong
