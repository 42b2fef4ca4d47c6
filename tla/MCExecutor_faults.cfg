SPECIFICATION FairSpec
CONSTANTS
  d1 = d1
  t1 = t1
  t2 = t2
  i1 = i1
  DbName <- MCDbName
  TableName <- MCTableName
  IndexName <- MCIndexName
  Value <- MCValue
  Operation <- MCOperation
  Payload <- MCPayload
  Statements <- FaultStatements
  NoTransaction = NoTransaction
  NoName = NoName
  NoLsn = NoLsn
  WalFaults = {"OpenFails", "WriteFails", "FlushFails", "TruncateFails", "TornAppend"}
  StorageFaults = {"SaveFails", "ShortSnapshot"}
  StopsDuringSave = TRUE
  KeepsHistory = FALSE
  MaxLog = 1
  MaxSaveLog = 2
  MaxLsn = 3
  MaxRows = 1
  MaxTransactions = 2
  MaxStops = 1
INVARIANTS
  SnapshotHasTransaction
PROPERTIES
  LogGivenUpForSnapshot
  TornLogIsFinal
  Progress
