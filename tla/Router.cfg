CONSTANTS
  any = any
  own1 = own1
  own2 = own2
  host1 = host1
  host2 = host2
  host3 = host3
  net1 = net1
  wide1 = wide1
  net2 = net2
  a = a
  b = b
  c = c
  mac1 = mac1
  mac2 = mac2
  NoMac = NoMac
  AnyMac = AnyMac
  Anywhere = any
  NumIfc = 2
  Ip <- MCIp
  Mac <- MCMac
  IfcIp <- MCIfcIp
  IfcMac <- MCIfcMac
  IfcPrefix <- MCIfcPrefix
  Prefix <- MCPrefix
  Masked <- MCMasked
  TypedMtu <- MCMtu
  Neighbour <- MCNeighbour
  Packet <- MCPacket
  CommandLines <- MCCommandLines
  Beyond <- MCBeyond
  DriverIfcs <- MCDriverIfcs
  MaxRoutes = 3
  CacheSize = 2
  MaxTime = 1
SPECIFICATION Spec
SYMMETRY MacSymmetry
INVARIANTS
  TypeOK
  NeverCrashes
  LargestMaskFirst
  UniqueAddresses
PROPERTIES
  FirstRouteStays
  ImplementsRouteBag
