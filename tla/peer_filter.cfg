SPECIFICATION Spec
CONSTANTS
  Width = 4
  Zeros = 2
  Ones = 1
  Ranges <- MCRanges
  MaxSteps = 4
  MaxBack = 1
  Addrs <- MCProgramAddrs
  Ports = {0, 1}
  ScopeModulus = 2
  Peers <- MCPeers
  MaxCalls = 2
INVARIANTS
  TypeOK
  IterationAgrees
  PeerIsKnown
  FilterIsRight
  ConversionsAgree
PROPERTIES
  LoopEnds
CHECK_DEADLOCK FALSE
