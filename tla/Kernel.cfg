SPECIFICATION FairSpec
CONSTANTS
  BYTE = 2
  MaxLength = 1
  Arrival <- Traffic
  Char = {"a"}
  MaxPackets = 2
  MaxKeys = 1
CHECK_DEADLOCK FALSE
INVARIANTS TypeOK PrintAlone Snapshot NoCircularWait
PROPERTIES ImplementsFilter EveryoneServed
