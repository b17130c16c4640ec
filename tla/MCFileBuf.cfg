\* One caller that keeps the switching rule; at most one failing C call.
SPECIFICATION Spec
CONSTANTS
  a = a
  b = b
  U = U
  Chars = {a, b}
  Hole = a
  Null = Null
  Last = Last
  Heap = Heap
  UserBufs = {U}
  BufSiz = 2
  Sizes = {0, 2}
  Modes <- UpdateModes
  Contents <- MCContents
  Strings <- MCStrings
  Counts = {0, 2, 3}
  Offsets <- MCOffsets
  MaxLen = 3
  MaxErrs = 1
  MaxPartial = 1
  Disciplined = TRUE
  UngetDirect = TRUE
INVARIANTS TypeOK MemorySafety StdioContract SyncMakesDurable
PROPERTIES ErrorsReported
