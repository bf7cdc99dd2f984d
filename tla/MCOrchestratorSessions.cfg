SPECIFICATION Spec
CONSTANTS
  r1 = r1  r2 = r2  r3 = r3
  inventory = inventory  finance = finance  compliance = compliance
  Requests = {r1, r2, r3}
  Privileged = {}
  SessionIds = {s1, s2}
  Domains = {inventory}
  Agents = {inventory}
  Decisions <- PlacedOrNot
  Replies = {"good"}
  Asks = {FALSE}
  HasCompliance = FALSE
  HasValidator = FALSE
  Execute = FALSE
  MaxAttempts = 2
  Window = 1
  MaxSessions = 2
SYMMETRY Symmetry
CONSTRAINT AtMostTwoRunning
INVARIANTS AuditTrail NoTurnLost TurnsAreAnswers CarryOverGrounded
