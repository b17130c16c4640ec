--------------------------- MODULE MCEnvironment ---------------------------
(* Instances of Environment for TLC. *)
EXTENDS Environment, TLC

\* The strings name the values, the number of letters is their length.
MCLength == [v \in Values |-> CASE v = "none" -> 0 [] v = "x" -> 1 [] v = "xx" -> 2]
MCSymmetry == Permutations(Threads)
=============================================================================
