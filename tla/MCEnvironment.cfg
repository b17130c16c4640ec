\* Two threads and one variable, with values that fit into a buffer of one exactly, fit after a
\* second call and have grown by then.
SPECIFICATION Spec
CONSTANTS
  Threads = {t1, t2}
  Keys = {k1}
  Values = {"none", "x", "xx"}
  Length <- MCLength
  BufSize = 1
  Disciplines = {TRUE, FALSE}
  Resets = {TRUE, FALSE}
INVARIANTS NullMeansNotSet GetenvAnswers ResultKept
PROPERTIES NoOverwriteKeeps
SYMMETRY MCSymmetry
