SPECIFICATION EveryPair
CONSTANTS
  SI_TYPE_SIZE = 4
  B = 4
  DFBits = 6
  SFBits = 3
  XFBits = 8
  TFBits = 12
  UNIT_BITS = 2
  MAX_BITS = 12
  CPU_CYCLES_PER_SECOND = 3
INVARIANTS
  Division
  WordDivision
  Product
  ShiftsAndOrder
  Conversions
  ElapsedTime
  HashTellsApart
CHECK_DEADLOCK FALSE
