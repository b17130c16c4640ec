---------------------------- MODULE MCStdStreams ---------------------------
(* An instance of StdStreams for TLC: bytes that make characters of one, two and four bytes,
   illegal sequences and incomplete ones. *)
EXTENDS StdStreams

\* 'A', the leads of U+00D0 and U+10410, and the trail of both.
MCChars == [s \in Ostreams |-> IF s = "cout" THEN {65, 144, 240}
                               ELSE IF s = "cerr" THEN {195, 144} ELSE {65}]
\* More into cout than its buffer holds.
MCMaxPut == [s \in Ostreams |-> CASE s = "cout" -> 5 [] s = "cerr" -> 1 [] s = "clog" -> 1]
=============================================================================
