SPECIFICATION ComposerSpec
CONSTANTS
  Domains <- ComposedDomains
  Tables <- JoinedTables
  Columns <- ColumnNames
  KeyOrder <- KeysFirst
  Prefixed <- MadeNames
  ForeignKeys <- SharedDimensions
  Fragments <- Outputs
INVARIANT UnknownShown
