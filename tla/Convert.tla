------------------------------ MODULE Convert ------------------------------
(***************************************************************************)
(* convert_buffer and convert_string of                                    *)
(* include/boost/nowide/utf/convert.hpp, on which narrow, widen and        *)
(* basic_stackstring rest: one conversion, code point by code point, into  *)
(* a buffer of a given size or into a string that grows.                   *)
(***************************************************************************)
EXTENDS Utf, FiniteSets

CONSTANTS Conversions,   \* pairs of encodings, from and to
          Texts(_),      \* the texts the caller converts, by encoding
          Sizes          \* the sizes of the caller's buffers

ASSUME ConversionsAssumption == Conversions \subseteq Encodings \X Encodings
ASSUME TextsAssumption == \A w \in Encodings : Texts(w) \subseteq Seq(Units(w))
ASSUME SizesAssumption == Sizes \subseteq Nat

VARIABLES given,    \* the call: the encodings from and to, the text, the function, the size
          source,   \* the units in [source_begin, source_end)
          output,   \* the units stored in the caller's buffer or in the result
          room,     \* buffer_size, the units that may still be stored
          state     \* "entry", "loop", "full", then "done" or "refused"
vars == <<given, source, output, room, state>>

Calls(p) == [from : {p[1]}, to : {p[2]}, text : Texts(p[1]), into : {"buffer"}, size : Sizes]
            \cup [from : {p[1]}, to : {p[2]}, text : Texts(p[1]), into : {"string"}, size : {0}]

Init ==
    /\ \E p \in Conversions : given \in Calls(p)
    /\ source = given.text
    /\ output = <<>>
    /\ room = given.size
    /\ state = "entry"

\* A buffer without room for the NUL is refused untouched; one unit is kept for the NUL.
Enter ==
    /\ state = "entry"
    /\ IF given.into = "buffer" /\ room = 0
       THEN state' = "refused" /\ UNCHANGED room
       ELSE state' = "loop" /\ room' = IF given.into = "buffer" THEN room - 1 ELSE room
    /\ UNCHANGED <<given, source, output>>

\* Mutant: what is no code point is left out instead of replaced.
Store_NoRepair(c) ==
    /\ output' = IF c \in {Illegal, Incomplete} THEN output ELSE output \o Encode(given.to, c)
    /\ room' = IF given.into = "buffer" THEN room - Width(given.to, Repaired(c)) ELSE room

Store(c) ==
    /\ output' = output \o Encode(given.to, Repaired(c))
    /\ room' = IF given.into = "buffer" THEN room - Width(given.to, Repaired(c)) ELSE room

\* Mutant: the room left is compared with one unit, not with the width of the code point.
Fits_OneUnit(c) == given.into = "buffer" => room >= 1

\* Mutant: a code point that fills the room exactly is refused.
Fits_NotExactly(c) == given.into = "buffer" => room > Width(given.to, Repaired(c))

Fits(c) == given.into = "buffer" => room >= Width(given.to, Repaired(c))

\* One round of the loop.
Transcode ==
    LET d == Decode(given.from, source)
    IN /\ state = "loop" /\ source # <<>>
       /\ source' = After(source, d.used)
       /\ IF Fits(d.cp) THEN Store(d.cp) /\ UNCHANGED state
          ELSE state' = "full" /\ UNCHANGED <<output, room>>
       /\ UNCHANGED given

\* The NUL at the end of the buffer, whether or not the text fitted.
Terminate ==
    /\ state = "full" \/ (state = "loop" /\ source = <<>>)
    /\ output' = IF given.into = "buffer" THEN Append(output, 0) ELSE output
    /\ state' = IF state = "full" THEN "refused" ELSE "done"
    /\ UNCHANGED <<given, source, room>>

Next == Enter \/ Transcode \/ Terminate

Spec == Init /\ [][Next]_vars
----------------------------------------------------------------------------
\* What a text is, from the tables of the Unicode standard rather than from the source.

Span(l, h) == l..h
Any == Span(128, 191)
Rows8 == {<<Span(0, 127)>>, <<Span(194, 223), Any>>,
          <<{224}, Span(160, 191), Any>>, <<Span(225, 236), Any, Any>>,
          <<{237}, Span(128, 159), Any>>, <<Span(238, 239), Any, Any>>,
          <<{240}, Span(144, 191), Any, Any>>, <<Span(241, 243), Any, Any, Any>>,
          <<{244}, Span(128, 143), Any, Any>>}
Rows16 == {<<Span(0, 55295)>>, <<Span(57344, 65535)>>, <<Span(55296, 56319), Span(56320, 57343)>>}
Rows32 == {<<Span(0, 55295)>>, <<Span(57344, 1114111)>>}
Rows(w) == CASE w = 8 -> Rows8 [] w = 16 -> Rows16 [] w = 32 -> Rows32

\* u is one character.
IsChar(w, u) == \E r \in Rows(w) : Len(r) = Len(u) /\ \A i \in DOMAIN u : u[i] \in r[i]

\* The number a character stands for: what its leading unit adds to the weights of the units.
Offset(w, u) == CASE w = 8 -> <<0, 12416, 925824, 63447168>>[Len(u)]
                  [] w = 16 -> <<0, 56613888>>[Len(u)]
                  [] w = 32 -> 0
Radix(w) == CASE w = 8 -> 64 [] w = 16 -> 1024 [] w = 32 -> 1
Number(w, u) ==
    LET n[i \in 0..Len(u)] == IF i = 0 THEN 0 ELSE n[i - 1] * Radix(w) + u[i]
    IN n[Len(u)] - Offset(w, u)

\* The lengths of the prefixes of s that are texts, and the numbers of their characters.
Texted(w, s) ==
    LET t[k \in 0..Len(s)] ==
            IF k = 0 THEN [is |-> TRUE, numbers |-> <<>>]
            ELSE LET ends == {n \in 1..k : IsChar(w, SubSeq(s, k - n + 1, k)) /\ t[k - n].is}
                 IN IF ends = {} THEN [is |-> FALSE, numbers |-> <<>>]
                    ELSE LET n == CHOOSE n \in ends : TRUE
                         IN [is |-> TRUE,
                             numbers |-> Append(t[k - n].numbers,
                                                Number(w, SubSeq(s, k - n + 1, k)))]
    IN t[Len(s)]
----------------------------------------------------------------------------
\* Properties.

\* What was stored, without the NUL.
Stored == IF given.into = "buffer" /\ state = "done" THEN SubSeq(output, 1, Len(output) - 1)
          ELSE output

\* Types.
TypeOK ==
    /\ \E p \in Conversions : given \in Calls(p)
    /\ source \in Seq(Units(given.from))
    /\ output \in Seq(Units(given.to))
    /\ room \in Nat
    /\ state \in {"entry", "loop", "full", "refused", "done"}

\* convert_buffer never stores past the end of the caller's buffer: at every moment what is
\* stored, the room it counts on and the NUL still to come fit (buffer_size in the loop).
WithinBuffer ==
    given.into = "buffer" =>
        /\ Len(output) <= given.size
        /\ state \in {"loop", "full"} => Len(output) + room + 1 = given.size

\* A buffer of max_width units for each unit of the text, and the NUL, is never refused: the
\* size basic_stackstring::convert allocates on the heap.
HeapSizeSuffices ==
    given.into = "buffer" /\ state \in {"full", "refused"} =>
        given.size < Len(given.text) * MaxWidth(given.to) + 1

\* "always yield valid UTF encoded strings": whatever is passed in, what comes out is a text
\* (decode, encode and the replacement in convert_buffer and convert_string).
AlwaysValid == state = "done" => Texted(given.to, Stored).is

\* A text comes out as the same characters.
TextKept ==
    state = "done" /\ Texted(given.from, given.text).is =>
        Texted(given.to, Stored).numbers = Texted(given.from, given.text).numbers

\* "Any illegal sequences are replaced with the replacement character": what is no text (overlong,
\* truncated, a lone surrogate) never passes for one; the output shows a replacement.
IllFormedShows ==
    state = "done" /\ ~Texted(given.from, given.text).is =>
        \E i \in DOMAIN Texted(given.to, Stored).numbers :
            Texted(given.to, Stored).numbers[i] = Replacement

\* convert_buffer yields what convert_string does, or refuses because that and the NUL do not
\* fit; so its answer does not depend on where in the text the room runs out.
RefusedOnlyIfTooLong ==
    LET w == Whole(given.from, given.to, given.text)
    IN /\ state = "done" => Stored = w
       /\ given.into = "buffer" /\ state = "done" => Len(w) < given.size
       /\ given.into = "buffer" /\ state = "refused" => Len(w) >= given.size

\* Wherever decode finds a code point, decode_valid, which checks nothing, finds the same with as
\* many units, trail_length of the first unit foretells how many follow, and is_trail tells these
\* from the first: the ways of finding the next character agree, at every position the
\* conversion reaches, after broken sequences too.
ReadersAgree ==
    state = "loop" /\ source # <<>> =>
        LET w == given.from
            d == Decode(w, source)
        IN d.cp \in CodePoints =>
               /\ DecodeValid(w, source) = d
               /\ TrailLength(w, source[1]) = d.used - 1
               /\ \A i \in 1..d.used : IsTrail(w, source[i]) <=> i > 1
=============================================================================
