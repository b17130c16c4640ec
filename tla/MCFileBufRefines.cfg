\* A caller that switches direction at will; no C call fails.
SPECIFICATION Spec
CONSTANTS
  a = a
  b = b
  U = U
  Chars = {a, b}
  Hole = a
  Null = Null
  Last = Last
  Heap = Heap
  UserBufs = {U}
  BufSiz = 2
  Sizes = {0, 2}
  Modes <- AllModes
  Contents <- MCContents
  Strings <- MCStrings
  Counts = {0, 2, 3}
  Offsets <- MCOffsets
  MaxLen = 3
  MaxErrs = 0
  MaxPartial = 1
  Disciplined = FALSE
  UngetDirect = FALSE
INVARIANTS GetMirrorsFile
PROPERTIES ImplementsSeekableFile
