\* Two sessions, four requests, three rows; every field type, two parameters;
\* three releases, two commands, two rows.
SPECIFICATION MCSpec
CONSTANTS
  Sessions = {s1, s2}
  Values = {0, 1}
  Null = Null
  Absent = Absent
  MaxRows = 3
  MaxRequests = 4
  Queries <- MCQueries
  Kinds <- MCKinds
  FieldValues <- MCFieldValues
  Raws <- MCRaws
  Precision = 4
  DayLength = 2
  MaxParams = 2
  KitTables = {"users", "roles"}
  ProjectTables = {"items"}
  Releases <- MCReleases
  Commands <- MCCommands
  NoTable = NoTable
  NoTxn = NoTxn
  MaxWritten = 2
  MaxCommands = 2
  MaxRevisions = 4
SYMMETRY Symmetric
INVARIANTS StraysNeedReissue BackendsAgree MemoryQueriesAgree FiltersAreFaithful MigrationsAreExplained
CHECK_DEADLOCK FALSE
