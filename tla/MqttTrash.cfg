\* A message that is longer than the buffer.
CONSTANTS
  Lengths <- OneTooLong
  MqttBufferSize = 3
  TrashSize = 8
  KeepAlive = 2
  RecvTimeout = 1
  UIntRange = 16000
  LateBytes = FALSE
  ManyPieces = FALSE
  EofCode = "OK"
  MaxUnread = 12
SPECIFICATION Spec
INVARIANTS
  InStep
\* The task ends when it is told to.
CHECK_DEADLOCK FALSE
