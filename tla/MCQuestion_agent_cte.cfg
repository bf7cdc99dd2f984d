CONSTANTS
  Domains <- AllDomains
  Tables <- AllTables
  CrossCutting = {"compliance"}
  PrimaryOf <- Owned
  SharedTables = {"dimproduct"}
  MaxTables = 30
  DomainOrder <- Listed
  Agents = {"demand", "finance"}
  Terms <- AllTerms
  SensesOf <- Meanings
  Questions <- AllQuestions
  Pasts <- AllPasts
  RouterReplies <- AllRouterReplies
  AgentReplies <- AllReplies
  Examples <- DemandExamples
SPECIFICATION QuestionSpec
CHECK_DEADLOCK FALSE
INVARIANT ExamplesAccepted
