\* Two streams of each class; at most one failing C call.
SPECIFICATION Spec
CONSTANTS
  a = a
  b = b
  U = U
  Chars = {a, b}
  Hole = a
  Null = Null
  Last = Last
  Heap = Heap
  Foreign = Foreign
  Nobody = Nobody
  UserBufs = {U}
  BufSiz = 1
  MaxPartial = 0
  Objs = {x1, x2}
  Names = {f1, f2}
  Kinds = {"ifstream", "ofstream", "fstream"}
  ModesOf <- MCModesOf
  Contents <- MCContents
  Strings <- MCStrings
  UserSizes <- MCUserSizes
  MaxLen = 1
  MaxErrs = 1
SYMMETRY Symmetry
INVARIANTS EachMemorySafe TypeOK
PROPERTIES HandsOver ClosedIsComplete ErrorsShow
CHECK_DEADLOCK FALSE
