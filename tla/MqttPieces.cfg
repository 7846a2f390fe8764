\* A message that is delivered in three pieces.
CONSTANTS
  Lengths <- ThreeMessages
  MqttBufferSize = 3
  TrashSize = 4
  KeepAlive = 2
  RecvTimeout = 1
  UIntRange = 16000
  LateBytes = FALSE
  ManyPieces = TRUE
  EofCode = "FAIL"
  MaxUnread = 12
SPECIFICATION Spec
INVARIANTS
  PushFaithful
\* The task ends when it is told to.
CHECK_DEADLOCK FALSE
