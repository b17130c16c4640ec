\* Three nested instances; either system call may fail.
SPECIFICATION ArgsSpec
CONSTANTS
  Instances = {i1, i2, i3}
  Strings <- MCStrings
  CommandLines <- MCCommandLines
  Environments <- MCEnvironments
  DriveEntries <- MCDriveEntries
  Torn <- MCTorn
INVARIANTS ArraysInUse
PROPERTIES RestoresWhatWas
SYMMETRY MCSymmetry
