\* Bytes that come late and a message that is too long.
CONSTANTS
  Lengths <- TooLong
  MqttBufferSize = 3
  TrashSize = 4
  KeepAlive = 2
  RecvTimeout = 1
  UIntRange = 5000
  LateBytes = TRUE
  ManyPieces = FALSE
  EofCode = "FAIL"
  MaxUnread = 6
SPECIFICATION FairSpec
INVARIANTS
  TypeOK
  SocketPaired
  ElapsedBounded
PROPERTIES
  StopHonoured
  KeepsAlive
\* The task ends when it is told to.
CHECK_DEADLOCK FALSE
