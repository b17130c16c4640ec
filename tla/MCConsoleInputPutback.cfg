\* A program that puts a character back in front of unread input.
SPECIFICATION InputSpec
CONSTANTS
  WbufferSize = 2
  Wide = 16
  Inputs <- MCInputs
  Extra = {120}
  MaxBack = 2
  Careful = FALSE
INVARIANTS ReadsWhatIsDue
