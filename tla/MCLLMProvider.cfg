SPECIFICATION FairSpec
CONSTANTS
  Models <- ModelNames
  Prefix <- Prefixes
  Configs <- AnyConfig
  MaxRetries = 2
INVARIANTS TypeOK GivesUpLate EffortBounded
PROPERTIES KeepsPromise CallEnds
