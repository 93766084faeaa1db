SPECIFICATION Spec
CONSTANTS
  PAGES = 6
  FIRST_PAGE = 2
  PAGE_SIZE = 8
  KSEG = 192
  MIN_BLOCKSIZE2 = 1
  MAX_BLOCKSIZE2 = 2
  BIGBLOCK_INFO = 2
  TRAP_PAGES = 2
  CORE_DATA = 2
  Requests = {6, 7}
  CallocRequests <- MCCalloc
CHECK_DEADLOCK FALSE
INVARIANT Disjoint
