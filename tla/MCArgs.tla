------------------------------- MODULE MCArgs -------------------------------
(* Instances of Args for TLC. *)
EXTENDS Args, TLC

\* T=x and =T: end in an unpaired high surrogate.
MCStrings == {"prog", "x", "y", "A=1", "=C:", "B=2", "T=x", "=T:"}
MCCommandLines == {<<"prog">>, <<"prog", "x", "y">>}
MCEnvironments == {<<>>, <<"=C:", "A=1", "T=x">>, <<"=T:", "B=2", "T=x", "A=1">>}
MCDriveEntries == {"=C:", "=T:"}
MCTorn == {"T=x", "=T:"}
MCSymmetry == Permutations(Instances)
=============================================================================
