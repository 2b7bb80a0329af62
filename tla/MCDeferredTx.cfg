SPECIFICATION FairSpec
CONSTANTS
  Conns = {c1, c2}
  NoConn = NoConn
  Spars = {1, 2}
  Requests <- Handlers
  WritesFirst <- WriteFirstHandlers
  Stores <- Store
  InitStore <- EmptyStore
  Effects <- HandlerEffects
INVARIANTS
  LockIsHeld
  WriteIsOfLatest
PROPERTIES
  IsSerial
  BusyMeansProgress
