\* The ids made up for the calls of two responses.
SPECIFICATION Spec
CONSTANTS
  Nil = Nil
  Json <- MCJson
  Sessions <- IdSessions
CHECK_DEADLOCK FALSE
INVARIANT IdsUniqueInHistory
