\* A put area of four bytes, up to five bytes put, writes to the console that may fail.
SPECIFICATION Spec
CONSTANTS
  BufferSize = 4
  Wide = 16
  Chars <- MCChars
  MaxPut <- MCMaxPut
INVARIANTS ChunkIndependent FlushedIsShown EndsShown
PROPERTIES OutputComesFirst TiedIsAlive
CHECK_DEADLOCK FALSE
