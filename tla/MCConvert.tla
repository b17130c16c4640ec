----------------------------- MODULE MCConvert -----------------------------
(* Instances of Convert for TLC: short texts of the units at which utf_traits changes its mind. *)
EXTENDS Convert

MCConversions == {<<8, 16>>, <<16, 8>>, <<8, 32>>, <<32, 8>>}

\* The first and last values of the rows of the UTF-8 table, and what lies just outside.
MCBytes == {65, 128, 160, 191, 194, 224, 237, 240, 244}
MCUnits16 == {65, 2047, 2048, 55295, 55296, 56319, 56320, 57343, 57344}
MCUnits32 == {65, 127, 128, 55295, 55296, 57343, 65535, 65536, 1114111, 1114112}

UpTo(n, S) == UNION {[1..k -> S] : k \in 0..n}
\* Up to three bytes of any kind, and four where the first asks for three more.
MCTexts(w) == CASE w = 8 -> UpTo(3, MCBytes) \cup {<<b>> \o s : b \in {240, 244}, s \in [1..3 -> MCBytes]}
                [] w = 16 -> UpTo(3, MCUnits16)
                [] w = 32 -> UpTo(2, MCUnits32)
MCSizes == {0, 1, 2, 3, 5}
=============================================================================
