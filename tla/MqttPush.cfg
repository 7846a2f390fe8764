\* Messages that fit, each delivered in at most two pieces and in time.
CONSTANTS
  Lengths <- ThreeMessages
  MqttBufferSize = 3
  TrashSize = 4
  KeepAlive = 2
  RecvTimeout = 1
  UIntRange = 16000
  LateBytes = FALSE
  ManyPieces = FALSE
  EofCode = "FAIL"
  MaxUnread = 12
SPECIFICATION PushFairSpec
INVARIANTS
  SubscribedWhenReady
  InStep
  PushFaithful
PROPERTIES
  ImplementsChannel
  Recovers
\* The task ends when it is told to.
CHECK_DEADLOCK FALSE
