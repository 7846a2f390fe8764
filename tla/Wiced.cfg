\* Both receive callbacks, over several connections.
CONSTANTS
  Variants <- Both
  MaxPackets = 3
  MaxSize = 3
SPECIFICATION FairSpec
INVARIANTS
  TypeOK
  PacketOwned
  MqttDeletes
PROPERTIES
  ImplementsStream
  Delivers
