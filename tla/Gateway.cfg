SPECIFICATION FairSpec
CONSTANTS
  Tabs = {t1}
  Asks = {a1, a2}
  SessionIds = {s1, s2}
  PlanLengths = {0, 2}
  MaxCalls = 1
  MaxRestarts = 1
INVARIANTS CallsAccounted UsageCovers TurnsMatch OneOnItsWay
PROPERTIES RepliesStay InputComesBack
