----------------------------- MODULE MCFileBuf -----------------------------
(* Instances of FileBuf for TLC: two characters, a buffer of two bytes. *)
EXTENDS FileBuf

CONSTANTS a, b, U

MCContents == {<<a, b, a>>}
MCOffsets == {-1, 0, 1}
MCStrings == {<<>>, <<b, a>>, <<a, b, b>>}
UpdateModes == {{"in", "out", "binary"}, {"in", "out"}, {"in", "app", "binary", "ate"}}
AllModes == {{"in", "out", "binary"}, {"in", "app", "binary", "ate"}, {"out"}, {"trunc"}}
=============================================================================
