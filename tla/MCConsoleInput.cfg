\* Lines of up to six units in a buffer for two: every line is read in several chunks.
SPECIFICATION InputSpec
CONSTANTS
  WbufferSize = 2
  Wide = 16
  Inputs <- MCInputs
  Extra = {120}
  MaxBack = 2
  Careful = TRUE
INVARIANTS ReadsWhatIsDue
PROPERTIES EofWhenDue
