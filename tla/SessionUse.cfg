SPECIFICATION HSpec
CONSTANTS
  SessionIds = {a, b, c}
  Entries = {x, y}
  Window = 2
  MaxSessions = 2
  MaxTurns = 4
INVARIANTS TypeOK StoreBounded WindowFull IdsSaturate
PROPERTIES DropsLeastRecentlyUsed ImplementsSessionLog
