SPECIFICATION ModesSpec
CONSTANTS
  NTensors = 4
  Depth = 3
  Passes = 2
  Compressed = TRUE
  Transport = "HostRing"
  Bytes <- MCBytes
  Payload <- MCPayload
  Payloads <- Tensors
  Failures = TRUE
  ShortWrites = FALSE
  FillLandsFirst = TRUE
INVARIANTS TypeOK SlotExclusive NothingReusedWhileHeld NeverWrong PassDeliversAll
PROPERTIES ImplementsDelivery Terminates
