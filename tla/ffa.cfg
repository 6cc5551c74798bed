CONSTANTS
  BYTE = 8
  Ids <- MCIds
  Flags <- MCFlags
  Longs <- MCLongs
  Payloads <- MCPayloads
  Record <- MCRecord
  PanicRecord <- MCPanicRecord
SPECIFICATION BoundarySpec
INVARIANTS
  TypeOK PrintedInOrder LayoutHolds 
PROPERTY LogReturns
