SPECIFICATION Spec
CONSTANTS
  Value = {13, 99, 2001}
  Hash <- MCHash
  HASHTABLE_SIZE = 2
  BUCKET_SIZE = 1
  WORD = 65536
  MaxEntries = 4
  MaxSize = 8
  MaxCount = 2
PROPERTY DoublesWhenLoaded
