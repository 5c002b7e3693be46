SPECIFICATION Spec
CONSTANTS
  Files = 2
  Scripts <- ProtocolOnly
  MaxSessions = 2
  MaxCrashes = 1
INVARIANT GateCoversCorpus
