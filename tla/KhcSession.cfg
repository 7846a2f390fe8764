\* Every response to a request and every request, in any pieces and cut anywhere.
CONSTANTS
  Requests <- AllRequests
  Responses <- AllResponses
  Exchanges <- EveryMessage
  Slots <- AllSlots
  SizeSlots <- FourSizes
  RespHeaderBuffSize = 7
  StreamBuffSize = 3
  HeapBlocks = 2
  TruncatedHead = TRUE
SPECIFICATION FairSpec
INVARIANTS
  TypeOK
  BodyFaithful
  HeadersFaithful
  NoOverflow
  WrittenWithinChunk
  RequestFaithful
  ConnectionPaired
  BuffersSafe
PROPERTIES
  WholeHeadReturns
  ImplementsSession
