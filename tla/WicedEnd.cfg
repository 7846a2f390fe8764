\* The HTTP callback and the end of the response.
CONSTANTS
  Variants <- Http
  MaxPackets = 3
  MaxSize = 2
SPECIFICATION Spec
INVARIANTS
  NothingAtEnd
