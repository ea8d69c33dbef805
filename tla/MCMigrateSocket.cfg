SPECIFICATION SocketSpec
CONSTANTS
  Clients = {c1, c2}
  NoClient = NoClient
  Tables = {"orders", "tags"}
  Indexed = {"orders"}
  Entities <- MCEntities
  Names <- MCNames
  ModelColumns <- MCModelColumns
  JoinedTo <- MCJoinedTo
  Installations <- MCInstallations
  Servers = {s1}
  Rival = Rival
  NoServer = NoServer
  Prepared <- MCPrepared
  MaxSessions = 2
  MaxFaults = 1
SYMMETRY Symmetry
CHECK_DEADLOCK FALSE
INVARIANTS
  TypeOK
  ClosedMeansStopped
  PathLostToAnother
  SummaryTruthful
  SuccessHasColumns
  NeverAsksTwice
  MissingOnlyWhereCut
PROPERTIES
  NoSilentLoss
  WholeMigrations
