\* A constructor whose second system call fails.
SPECIFICATION ArgsSpec
CONSTANTS
  Instances = {i1, i2}
  Strings <- MCStrings
  CommandLines <- MCCommandLines
  Environments <- MCEnvironments
  DriveEntries <- MCDriveEntries
  Torn <- MCTorn
PROPERTIES UnchangedWhenItThrows
