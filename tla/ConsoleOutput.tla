--------------------------- MODULE ConsoleOutput ---------------------------
(***************************************************************************)
(* console_output_buffer of src/console_buffer.cpp and src/iostream.cpp,   *)
(* the streambuf of an output stream on a console: bytes go into a put     *)
(* area and whole characters go on to WriteConsoleW.                       *)
(*                                                                         *)
(* A buffer is a record: area, whether setp has been called; buffer, the   *)
(* bytes in [pbase, pptr); shown, the units the console has taken.         *)
(* WriteConsoleW is external: it takes all it is given or fails and takes  *)
(* nothing.                                                                *)
(***************************************************************************)
EXTENDS Console

CONSTANT BufferSize   \* buffer_size, 1024 in the source

\* A character that is not complete leaves room for its next byte.
ASSUME BufferAssumption == BufferSize \in Nat /\ BufferSize > 3

\* Decoding s from its beginning until one of the results in Stops, or its end: the units to
\* show, and how many bytes they stand for.
Scan(s, Stops) ==
    LET at[k \in 0..Len(s)] ==
            LET d == Decode(8, After(s, k))
            IN IF d.cp \in Stops \cup {Incomplete} THEN [units |-> <<>>, decoded |-> k]
               ELSE [at[k + d.used] EXCEPT !.units = Encode(Wide, Repaired(d.cp)) \o @]
    IN at[0]

\* Mutant: the bytes after the last whole character count as written.
Write_DropsTail(s) == [Scan(s, {}) EXCEPT !.decoded = Len(s)]

\* Mutant: an illegal sequence ends the loop as an incomplete one does.
Write_StopsAtIllegal(s) == Scan(s, {Illegal})

Write(s) == Scan(s, {})

\* Whether the console's answer, taken or not, lets overflow succeed.
Succeeds(b, ok) == b.buffer # <<>> => ok

\* The buffer b after a write that succeeded, and with c behind what is left.
Written(b, c) ==
    LET w == IF b.buffer = <<>> THEN [units |-> <<>>, decoded |-> 0] ELSE Write(b.buffer)
    IN [b EXCEPT !.shown = @ \o w.units,
                 !.buffer = After(@, w.decoded) \o (IF c = Eof THEN <<>> ELSE <<c>>),
                 !.area = TRUE]

\* overflow(c), where the console takes what it is given iff ok.
Overflow(b, c, ok) == IF Succeeds(b, ok) THEN Written(b, c) ELSE b

\* sputc stores into the put area and calls overflow when that is full or not there yet.
HasRoom(b) == b.area /\ Len(b.buffer) < BufferSize

\* The units of the whole characters, and of the replacements, in a text.
Recode(s) == Scan(s, {}).units
=============================================================================
