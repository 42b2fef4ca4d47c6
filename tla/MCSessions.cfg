SPECIFICATION Spec
CHECK_DEADLOCK FALSE
CONSTANTS
  None = None
  NoJoin = None
  Thread = {c1, c2}
  NoThread = NoThread
  Text <- MCText
  AnyText <- MCAnyText
  Row <- MCRow
  Parse <- MCParse
  Bind <- MCBind
  Fits <- MCFits
  InitialTables <- MCTables
  InitialPrepared <- MCPrepared
  MaxCalls = 2
INVARIANTS
  TypeOK
PROPERTIES
  RefinesSerial
  EveryCallReturns
