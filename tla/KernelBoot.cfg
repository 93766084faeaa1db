SPECIFICATION Spec
CONSTANTS
  BYTE = 2
  MaxLength = 1
  Arrival <- Aimed
  Char = {"t", "s", "x"}
  MaxPackets = 1
  MaxKeys = 1
CHECK_DEADLOCK FALSE
INVARIANT SafeInterrupts
