-------------------------------- MODULE Utf --------------------------------
(***************************************************************************)
(* utf_traits of include/boost/nowide/utf/utf.hpp: reading and writing one *)
(* code point in UTF-8, UTF-16 and UTF-32.                                 *)
(*                                                                         *)
(* A text is a sequence of code units; the encoding it is in is named by   *)
(* the bits of a unit.  What decode(p, e) reads from the units in [p, e)   *)
(* is a record: the code point cp, and used, by how much p has advanced.   *)
(* The shifts and masks of the source are products and remainders here.    *)
(***************************************************************************)
EXTENDS Integers, Sequences

Encodings == {8, 16, 32}

\* The results of decode that are no code points: 0xFFFFFFFF and 0xFFFFFFFE in the source.
Illegal == -1
Incomplete == -2
Replacement == 65533           \* BOOST_NOWIDE_REPLACEMENT_CHARACTER, U+FFFD


\* Mutant: the surrogates are not excluded.
IsValidCodepoint_Surrogates(v) == 0 <= v /\ v <= 1114111

IsValidCodepoint(v) == 0 <= v /\ v <= 1114111 /\ ~(55296 <= v /\ v <= 57343)

CodePoints == {v \in Nat : IsValidCodepoint(v)}

Decoded(c, n) == [cp |-> c, used |-> n]
----------------------------------------------------------------------------
\* UTF-8: utf_traits<CharType, 1>.

Bytes == {c \in Nat : c <= 255}

TrailLength8(c) ==
    CASE c < 128 -> 0
      [] 194 <= c /\ c < 224 -> 1
      [] 224 <= c /\ c < 240 -> 2
      [] 240 <= c /\ c <= 244 -> 3
      [] OTHER -> -1

Width8(v) == IF v <= 127 THEN 1 ELSE IF v <= 2047 THEN 2 ELSE IF v <= 65535 THEN 3 ELSE 4

IsTrail8(c) == 128 <= c /\ c <= 191

\* The code point of a lead byte and n trail bytes.
Combine8(s, n) ==
    CASE n = 0 -> s[1]
      [] n = 1 -> ((s[1] % 32) * 64) + (s[2] % 64)
      [] n = 2 -> ((s[1] % 16) * 4096) + ((s[2] % 64) * 64) + (s[3] % 64)
      [] n = 3 -> ((s[1] % 8) * 262144) + ((s[2] % 64) * 4096) + ((s[3] % 64) * 64) + (s[4] % 64)

\* How many of the n >= 1 bytes after the first are there and are trail bytes.
TrailsAt(s, n) ==
    LET trail(i) == Len(s) >= i /\ IsTrail8(s[i])
    IN IF ~trail(2) THEN 0
       ELSE IF n >= 2 /\ ~trail(3) THEN 1
       ELSE IF n >= 3 /\ ~trail(4) THEN 2
       ELSE n

\* Mutant: the check for the most compact representation is missing.
DecodeTrails_Overlong(s, n) ==
    LET k == TrailsAt(s, n)
        v == Combine8(s, n)
    IN CASE k < n /\ Len(s) = k + 1 -> Decoded(Incomplete, k + 1)
         [] k < n /\ Len(s) # k + 1 -> Decoded(Illegal, k + 2)
         [] k = n /\ IsValidCodepoint(v) -> Decoded(v, n + 1)
         [] k = n /\ ~IsValidCodepoint(v) -> Decoded(Illegal, 1)

\* A byte that is no trail byte is consumed with what precedes it; a complete sequence that
\* is no code point, or not its shortest form, gives up its first byte only.
DecodeTrails(s, n) ==
    LET k == TrailsAt(s, n)
        v == Combine8(s, n)
        sound == IsValidCodepoint(v) /\ Width8(v) = n + 1
    IN CASE k < n /\ Len(s) = k + 1 -> Decoded(Incomplete, k + 1)
         [] k < n /\ Len(s) # k + 1 -> Decoded(Illegal, k + 2)
         [] k = n /\ sound -> Decoded(v, n + 1)
         [] k = n /\ ~sound -> Decoded(Illegal, 1)

Decode8(s) ==
    LET n == TrailLength8(s[1])
    IN CASE s = <<>> -> Decoded(Incomplete, 0)
         [] s # <<>> /\ n < 0 -> Decoded(Illegal, 1)
         [] s # <<>> /\ n = 0 -> Decoded(s[1], 1)
         [] s # <<>> /\ n > 0 -> DecodeTrails(s, n)

\* Mutant: leads of three and of four bytes are not told apart.
DecodeValid8_NoFour(s) ==
    LET n == IF s[1] < 192 THEN 0 ELSE IF s[1] < 224 THEN 1 ELSE 2
    IN Decoded(Combine8(s, n), n + 1)

\* decode_valid: the length by the lead alone, and no check of what follows.
DecodeValid8(s) ==
    LET n == IF s[1] < 192 THEN 0 ELSE IF s[1] < 224 THEN 1 ELSE IF s[1] < 240 THEN 2 ELSE 3
    IN Decoded(Combine8(s, n), n + 1)

Encode8(v) ==
    CASE Width8(v) = 1 -> <<v>>
      [] Width8(v) = 2 -> <<192 + (v \div 64), 128 + (v % 64)>>
      [] Width8(v) = 3 -> <<224 + (v \div 4096), 128 + ((v \div 64) % 64), 128 + (v % 64)>>
      [] Width8(v) = 4 -> <<240 + (v \div 262144), 128 + ((v \div 4096) % 64),
                            128 + ((v \div 64) % 64), 128 + (v % 64)>>
----------------------------------------------------------------------------
\* UTF-16: utf_traits<CharType, 2>.

Units16 == {x \in Nat : x <= 65535}

IsSingleCodepoint(x) == x <= 55295 \/ 57344 <= x
IsFirstSurrogate(x) == 55296 <= x /\ x <= 56319
IsSecondSurrogate(x) == 56320 <= x /\ x <= 57343
CombineSurrogate(w1, w2) == ((w1 % 1024) * 1024) + (w2 % 1024) + 65536

Decode16(s) ==
    CASE s = <<>> -> Decoded(Incomplete, 0)
      [] s # <<>> /\ IsSingleCodepoint(s[1]) -> Decoded(s[1], 1)
      [] s # <<>> /\ IsSecondSurrogate(s[1]) -> Decoded(Illegal, 1)
      [] s # <<>> /\ IsFirstSurrogate(s[1]) ->
             IF Len(s) = 1 THEN Decoded(Incomplete, 1)
             ELSE IF ~IsSecondSurrogate(s[2]) THEN Decoded(Illegal, 2)
             ELSE Decoded(CombineSurrogate(s[1], s[2]), 2)

DecodeValid16(s) ==
    IF IsSingleCodepoint(s[1]) THEN Decoded(s[1], 1)
    ELSE Decoded(CombineSurrogate(s[1], s[2]), 2)

TrailLength16(x) == IF IsFirstSurrogate(x) THEN 1 ELSE IF IsSecondSurrogate(x) THEN -1 ELSE 0

Width16(v) == IF v >= 65536 THEN 2 ELSE 1

\* Mutant: the offset of the supplementary planes is not subtracted.
Encode16_NoOffset(v) ==
    IF v <= 65535 THEN <<v>>
    ELSE <<55296 + (v \div 1024), 56320 + (v % 1024)>>

Encode16(v) ==
    IF v <= 65535 THEN <<v>>
    ELSE <<55296 + ((v - 65536) \div 1024), 56320 + ((v - 65536) % 1024)>>
----------------------------------------------------------------------------
\* UTF-32: utf_traits<CharType, 4>.

Decode32(s) ==
    IF s = <<>> THEN Decoded(Incomplete, 0)
    ELSE IF ~IsValidCodepoint(s[1]) THEN Decoded(Illegal, 1)
    ELSE Decoded(s[1], 1)

DecodeValid32(s) == Decoded(s[1], 1)

TrailLength32(x) == IF IsValidCodepoint(x) THEN 0 ELSE -1
----------------------------------------------------------------------------
\* utf_traits<CharType>, for a CharType of w bits.

Decode(w, s) == CASE w = 8 -> Decode8(s) [] w = 16 -> Decode16(s) [] w = 32 -> Decode32(s)
DecodeValid(w, s) ==
    CASE w = 8 -> DecodeValid8(s) [] w = 16 -> DecodeValid16(s) [] w = 32 -> DecodeValid32(s)
TrailLength(w, c) ==
    CASE w = 8 -> TrailLength8(c) [] w = 16 -> TrailLength16(c) [] w = 32 -> TrailLength32(c)
IsTrail(w, c) == CASE w = 8 -> IsTrail8(c) [] w = 16 -> IsSecondSurrogate(c) [] w = 32 -> FALSE
Width(w, v) == CASE w = 8 -> Width8(v) [] w = 16 -> Width16(v) [] w = 32 -> 1
Encode(w, v) == CASE w = 8 -> Encode8(v) [] w = 16 -> Encode16(v) [] w = 32 -> <<v>>
MaxWidth(w) == CASE w = 8 -> 4 [] w = 16 -> 2 [] w = 32 -> 1
Units(w) == CASE w = 8 -> Bytes [] w = 16 -> Units16 [] w = 32 -> Nat

\* What decode reads, with the replacement character for what is no code point.
Repaired(c) == IF c \in {Illegal, Incomplete} THEN Replacement ELSE c

After(s, n) == SubSeq(s, n + 1, Len(s))

\* A text converted in one piece, as convert_string does.
Whole(from, to, s) ==
    LET t[k \in 0..Len(s)] ==
            IF k = Len(s) THEN <<>>
            ELSE LET d == Decode(from, After(s, k))
                 IN Encode(to, Repaired(d.cp)) \o t[k + d.used]
    IN t[0]
=============================================================================
