CONSTANTS
  NumIfc = 2
  FrameLen = 2
  LineLen = 1
  TextLen = 1
  PipeCap = 3
  PipeBuf = 2
  BufCap = 3
  NicCap = 1
  CmdCap = 1
  Arrivals <- TwoFollowed
  Events <- Harmless
  Responses <- FewResponses
SPECIFICATION Spec
INVARIANTS
  TypeOK
  InputStream
  OutputStream
  NoLostWakeup
  MacsFirst
  WriteNeverBlocks
