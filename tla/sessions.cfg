SPECIFICATION FairSpec
CONSTANTS
  Conns = {c1, c2}
  Names = {n1, n2}
  Self = Self
  None = None
  OutCap = 1
INVARIANT StoreIsLive
INVARIANT NodesHaveSessions
PROPERTY HandshakeEnds
PROPERTY BrokenIsClosed
CHECK_DEADLOCK FALSE
