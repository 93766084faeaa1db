SPECIFICATION Spec
CONSTANTS
  BYTE = 2
  MaxLength = 1
  Arrival <- Aimed
  Char = {}
  MaxPackets = 2
  MaxKeys = 0
CHECK_DEADLOCK FALSE
INVARIANT VulnerableCounted
