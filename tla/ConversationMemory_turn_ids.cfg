SPECIFICATION Spec
CONSTANTS
  SessionIds = {a}
  Entries = {x}
  Window = 2
  MaxSessions = 1
  MaxTurns = 5
INVARIANT TurnsNumbered
