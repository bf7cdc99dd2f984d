INIT PartsInit
NEXT PartsNext
CONSTANTS
  Domains <- AllDomains
  Tables <- SchemaTables
  Columns <- ColumnNames
  KeyOrder <- KeysFirst
  Prefixed <- MadeNames
  ForeignKeys <- SharedDimensions
  Fragments <- Outputs
  CrossCutting = {"compliance"}
  PrimaryOf <- Owned
  SharedTables = {"dimproduct"}
  MaxTables = 30
  DomainOrder <- Listed
  Agents = {"demand", "finance"}
  Terms <- AllTerms
  SensesOf <- Meanings
  Questions <- AllQuestions
  Pasts <- AllPasts
  RouterReplies <- AllRouterReplies
  AgentReplies <- AllReplies
  Examples <- DemandExamples
  Texts <- Asked
  Days <- Dates
  Calendars <- FiscalCalendars
  FourDigits <- Fours
  Digits <- Ones
  ValueOf <- Says
  Clients = {c1, c2, c3}
  Products = {p1, p2}
  Quantities = {q}
  None = None
  Known <- KnownTables
  Hits <- SearchHits
  Picks <- ModelPicks
  Statements = {"no statement", "s1", "s2"}
  MaxCorrections = {0, 1, 3}
  Groups = {"a", "b"}
  Grains <- GrainsOfTime
  BeginsWith <- NamesBegin
  Results <- SomeResults
  Keys <- SchemaKeys
  Hops = {1, 2, 4}
  Enough = 3
CHECK_DEADLOCK FALSE
INVARIANTS
  JoinGrounded
  
  ListedShown
  OrderIrrelevant
  AsksTheQuestion
  AsksWhenUnsure
  ReadOnce
  MostSpecificWins
  RelativePeriodsMeet
  FiscalRight
  RaisesOnlyAtTheEdge
  MismatchExplained
  BaselineReturns
  InsightRight
  PathsRight
