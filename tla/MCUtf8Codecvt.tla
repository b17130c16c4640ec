--------------------------- MODULE MCUtf8Codecvt ---------------------------
(* Instances of Utf8Codecvt for TLC: texts of up to two or three characters or parts of them. *)
EXTENDS Utf8Codecvt

Strings(n, S) == UNION {[1..k -> S] : k \in 0..n}
Joined(s) == LET j[k \in 0..Len(s)] == IF k = 0 THEN <<>> ELSE j[k - 1] \o s[k] IN j[Len(s)]
TextsOf(n, S) == {Joined(s) : s \in Strings(n, S)}

\* One, two and four bytes, a truncated, an overlong and an impossible sequence.
MCParts8 == {<<65>>, <<194, 160>>, <<240, 144, 128, 128>>, <<240, 144>>, <<224, 128, 128>>, <<255>>}
\* One and three bytes in UTF-8, a high and a low surrogate, and so pairs and swapped pairs.
MCParts16 == {<<65>>, <<2048>>, <<55296>>, <<56320>>}
MCParts32 == {<<65>>, <<65536>>, <<55296>>, <<1114112>>}

MCJobs ==
    [from : {8}, to : {16, 32}, text : TextsOf(2, MCParts8)]
    \cup [from : {16}, to : {8}, text : TextsOf(3, MCParts16)]
    \cup [from : {32}, to : {8}, text : TextsOf(3, MCParts32)]
MCRooms == {0, 1, 3, 4}
=============================================================================
