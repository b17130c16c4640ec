\* Three objects and one block more than they need.
SPECIFICATION StringSpec
CONSTANTS
  Objects = {o1, o2, o3}
  Inputs = {"empty", "edge", "grows", "over", "shrinks"}
  InLength <- MCInLength
  OutLength <- MCOutLength
  BufferSize = 4
  MaxWidth = 4
  Blocks = {b1, b2, b3, b4}
SYMMETRY MCSymmetry
INVARIANTS OwnsItsMemory HoldsWhatIsMeant
