CONSTANTS
  h1 = h1
  h2 = h2
  h3 = h3
  h4 = h4
  nic = nic
  bcast = bcast
  NoMac = NoMac
  Mac <- MCMac
  Group <- MCGroup
  NicMac <- MCNicMac
  DriverIfcs <- MCDriverIfcs
  NumIfc = 2
  TableSize = 3
  MaxTime = 1
SPECIFICATION Spec
SYMMETRY StationSymmetry
PROPERTIES
  EvictsNotNewest
  ImplementsBridge
INVARIANTS
  TypeOK
  UniqueMac
  OwnNeverLearned
  SenderReachable
