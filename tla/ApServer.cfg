SPECIFICATION FairSpec
CONSTANTS
  Clients = {c1, c2, c3}
  NoClient = NoClient
  MaxConnections = 2
  BufferPieces = 6
  Requests <- MCRequests
  NoRequest = NoRequest
INVARIANTS
  TypeOK
  CountMatches
  SlotsOwned
  FormWhole
PROPERTIES
  TableDrains
  
