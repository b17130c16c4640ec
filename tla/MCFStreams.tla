----------------------------- MODULE MCFStreams ----------------------------
(* An instance of FStreams for TLC: two streams, two files, a buffer of one byte. *)
EXTENDS FStreams, TLC

CONSTANTS a, b, U

MCModesOf == [ifstream |-> {{"in"}, {"in", "binary"}},
              ofstream |-> {{"out"}, {"in"}},
              fstream |-> {{"in", "out", "binary"}}]
MCContents == {[n \in Names |-> <<a>>]}
MCStrings == {<<b>>}
MCUserSizes == U :> 0

\* The streams are alike, and so are the files.
Symmetry == Permutations(Objs) \cup Permutations(Names)
=============================================================================
