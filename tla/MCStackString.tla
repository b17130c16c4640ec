--------------------------- MODULE MCStackString ---------------------------
(* Instances of StackString for TLC. *)
EXTENDS StackString, TLC

\* With a buffer of four: short fits; grows fits before it is converted only; edge and over are
\* at the boundary; shrinks fits after it is converted only.
MCInLength == [i \in Inputs |-> CASE i = "empty" -> 0 [] i = "edge" -> 3 [] i = "grows" -> 2
                                  [] i = "over" -> 4 [] i = "shrinks" -> 6]
MCOutLength == [i \in Inputs |-> CASE i = "empty" -> 0 [] i = "edge" -> 3 [] i = "grows" -> 4
                                   [] i = "over" -> 4 [] i = "shrinks" -> 2]
MCSymmetry == Permutations(Objects) \cup Permutations(Blocks)
=============================================================================
