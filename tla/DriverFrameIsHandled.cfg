CONSTANTS
  NumIfc = 3
  FrameLen = 2
  LineLen = 1
  TextLen = 1
  PipeCap = 2
  PipeBuf = 2
  BufCap = 2
  NicCap = 1
  CmdCap = 1
  Arrivals <- OneFollowed
  Events <- Fatal
  Responses <- ParserResponses
SPECIFICATION FairSpec
PROPERTIES
  FrameIsHandled
