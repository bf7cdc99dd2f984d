SPECIFICATION FairSpec
CONSTANTS
  r1 = r1  r2 = r2  r3 = r3
  inventory = inventory  finance = finance  compliance = compliance
  Requests = {r1}
  Privileged = {}
  SessionIds = {s1}
  Domains = {inventory, finance, compliance}
  Agents = {inventory, finance}
  Decisions <- TwoDomains
  Replies = {"none", "good", "forbidden", "unparsable", "untokenizable"}
  Asks = {TRUE, FALSE}
  HasCompliance = TRUE
  HasValidator = TRUE
  Execute = TRUE
  MaxAttempts = 3
  Window = 2
  MaxSessions = 1
INVARIANTS TypeOK AnswerSound UsesItsAttempts
PROPERTIES EveryQueryEnds
