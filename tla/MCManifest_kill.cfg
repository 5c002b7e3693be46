SPECIFICATION Spec
CONSTANTS
  N = 3
  WritesFirst = FALSE
  MaxSessions = 3
  MaxKills = 2
INVARIANT SurvivesKill
