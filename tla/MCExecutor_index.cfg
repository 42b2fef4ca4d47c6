SPECIFICATION Spec
CONSTANTS
  d1 = d1
  t1 = t1
  t2 = t2
  i1 = i1
  DbName <- MCDbName
  TableName <- MCTableName
  IndexName <- MCIndexName
  Value <- MCValue
  Operation <- MCOperation
  Payload <- MCPayload
  Statements <- IndexStatements
  NoTransaction = NoTransaction
  NoName = NoName
  NoLsn = NoLsn
  WalFaults = {}
  StorageFaults = {}
  StopsDuringSave = FALSE
  KeepsHistory = TRUE
  MaxLog = 3
  MaxSaveLog = 7
  MaxLsn = 9
  MaxRows = 2
  MaxTransactions = 1
  MaxStops = 2
INVARIANT
  IndexesRecovered
