-------------------------- MODULE MCConsoleInput ---------------------------
(* Instances of ConsoleInput for TLC: typed lines that are longer than wbuffer_. *)
EXTENDS ConsoleInput

\* 'a', ctrl-Z, U+00E4, the halves of U+1F104.
Typable == {97, 26, 228, 55356, 56580}
Lines(max) == {s \o <<13, 10>> : s \in UNION {[1..n -> Typable] : n \in 0..max}}

\* One line, or a line and a short one.
MCInputs == Lines(4) \cup {s \o <<26, 13, 10>> : s \in Lines(3)} \cup {s \o <<97>> : s \in Lines(3)}
=============================================================================
