SPECIFICATION Spec
CONSTANTS
  SI_TYPE_SIZE = 8
  B = 16
  PRINT_BUF_LEN = 5
  PRINTL_BUF_LEN = 7
  DENOMINATOR = 32
  IntArgument <- MCInt
  LongArgument <- MCLong
  DoubleArgument <- MCDouble
  StringArgument <- MCString
  FormatDigit = {0, 1, 2}
  MaxWidth = 10
  MaxPrecision = 2
  MaxPrinted = 3
  MaxStack = 5
INVARIANTS
  FieldDenotes
  BufferFits
  ArgumentsInStep
  FractionDenotes
CHECK_DEADLOCK FALSE
