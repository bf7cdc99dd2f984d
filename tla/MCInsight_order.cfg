SPECIFICATION InsightSpec
CONSTANTS
  Groups = {"a", "b"}
  Grains <- GrainsOfTime
  BeginsWith <- NamesBegin
  Results <- LateResults
CHECK_DEADLOCK FALSE
INVARIANT ComparesTheLatest
