\* The server closes the connection in the middle of its headers.
CONSTANTS
  Requests <- GetOnly
  Responses <- NoBody
  Exchanges <- GetNoBody
  Slots <- AllSlots
  SizeSlots <- FourSizes
  RespHeaderBuffSize = 6
  StreamBuffSize = 5
  HeapBlocks = 2
  TruncatedHead = TRUE
SPECIFICATION FairSpec
PROPERTIES
  PerformReturns
