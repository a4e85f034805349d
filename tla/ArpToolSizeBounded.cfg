CONSTANTS
  ip1 = ip1
  ip2 = ip2
  a = a
  b = b
  c = c
  x = x
  y = y
  z = z
  w = w
  NoIp = NoIp
  NoMac = NoMac
  Ip <- MCIp
  Mac <- MCMac
  IfcIp <- MCIfcIp
  TypedMtu <- MCMtu
  DriverIfcs <- MCDriverIfcs
  Beyond <- MCBeyond
  NumIfc = 2
  CacheSize = 3
  MaxTime = 1
SPECIFICATION Spec
INVARIANT
  SizeBounded
