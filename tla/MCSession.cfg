SPECIFICATION Spec
CONSTANTS
  Files = 2
  Scripts <- BothScripts
  MaxSessions = 2
  MaxCrashes = 2
INVARIANTS GateHeld LastMeansEarlierWhole GateMissesOnlyLast EnvironmentIsOwn
PROPERTY SessionEnds
