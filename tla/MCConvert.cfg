\* Every conversion of short texts, into buffers of several sizes and into strings.
SPECIFICATION Spec
CONSTANTS
  Conversions <- MCConversions
  Texts <- MCTexts
  Sizes <- MCSizes
INVARIANTS WithinBuffer HeapSizeSuffices AlwaysValid TextKept IllFormedShows RefusedOnlyIfTooLong ReadersAgree
CHECK_DEADLOCK FALSE
