SPECIFICATION Spec
CONSTANTS
  key = key
  price = price
  name = name
  missing = missing
  t = t
  u = u
  Columns <- MCColumns
  Schema <- MCSchema
  Value <- MCValue
  Valid <- MCValid
  Inserted <- MCInserted
  IndexName = {i1}
  Name = t
  OtherName = u
  OtherSchema <- MCOtherSchema
  OtherTables <- MCOtherTables
  Truth <- matches
  Predicate <- MCPredicate
  OrderPredicate <- MCOrderPredicate
  Limit <- MCLimit
  JoinPredicate <- MCJoinPredicate
  JoinColumns <- MCJoinColumns
  None = None
  NoTransaction = NoTransaction
  NoRow = NoRow
  NoPage = NoPage
  maxKeysPerLeaf_ = 2
  MaxRows = 3
  MaxVersions = 4
INVARIANTS
  TypeOK
  IndexExact
  TreeLayout
  LookupsExact
  RemoveUndoesInsert
  RowsFitSchema
  VersionsAgree
  SelectExact
  TopRows
  TransactionReads
  JoinExact
PROPERTIES
  SnapshotsStable
