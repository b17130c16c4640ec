---------------------------- MODULE Utf8Codecvt ----------------------------
(***************************************************************************)
(* utf8_codecvt of include/boost/nowide/utf8_codecvt.hpp: the conversion   *)
(* facet between UTF-8 and UTF-16 or UTF-32 that wide streams and          *)
(* filesystem paths use.                                                   *)
(*                                                                         *)
(* A caller passes the text in windows [from, from_end) and offers room    *)
(* [to, to_end) for each; between the calls it keeps the position          *)
(* from_next and the conversion state, in which the facet for UTF-16 keeps *)
(* half of a surrogate pair.  do_length tells the caller which position    *)
(* belongs to a place in the middle of what a call of do_in wrote; the     *)
(* caller goes on from there.  Every round of a loop is a step.            *)
(***************************************************************************)
EXTENDS Utf

CONSTANTS Jobs,     \* [from, to, text]: one of the encodings is UTF-8
          Rooms,    \* the room that the caller may offer
          Rewinds   \* how often it goes back with the help of do_length

ASSUME FacetAssumption ==
    \A j \in Jobs : /\ <<j.from, j.to>> \in {<<8, 16>>, <<16, 8>>, <<8, 32>>, <<32, 8>>}
                    /\ j.text \in Seq(Units(j.from))
ASSUME RoomsAssumption == Rooms \subseteq Nat
ASSUME RewindsAssumption == Rewinds \in Nat

VARIABLES given,    \* the facet's encodings, the direction and the text
          from,     \* units of the text before from
          end,      \* units of the text before from_end
          room,     \* to_end - to, or max
          out,      \* all that was written before to
          state,    \* mbstate_t: 0 or a surrogate
          at,       \* "idle", "loop" or "stop" in do_in and do_out, "length", "measured"
          result,   \* of the last call, "none" when it does not count
          mark,     \* where the last call of do_in or do_out began
          rewinds   \* how often the caller may still go back
vars == <<given, from, end, room, out, state, at, result, mark, rewinds>>

Inward == given.from = 8                      \* do_in, else do_out
CharSize == IF Inward THEN given.to ELSE given.from
Window == SubSeq(given.text, from + 1, end)

\* Mutant: the width of the longest UTF-8 sequence is one short.
MaxLength_Three == 3

MaxLength == 4

Init ==
    /\ given \in Jobs
    /\ from = 0 /\ end = 0
    /\ room = 0
    /\ out = <<>>
    /\ state = 0
    /\ at = "idle"
    /\ result = "none"
    /\ mark = [from |-> 0, state |-> 0, out |-> 0, room |-> 0]
    /\ rewinds = Rewinds

Looping(where) == at = where /\ room > 0 /\ from < end

Write(u) == out' = out \o u /\ room' = room - Len(u)
----------------------------------------------------------------------------
\* The caller.

\* The last call neither read nor wrote anything.
Stalled == result # "none" /\ mark.from = from /\ mark.out = Len(out)

\* Mutant: the half of the pair that is written stays in the state.
FlushState_Keeps(k) ==
    IF Inward /\ state # 0 /\ k > 0
    THEN out' = Append(out, state) /\ room' = k - 1 /\ UNCHANGED state
    ELSE room' = k /\ UNCHANGED <<out, state>>

\* do_in starts with the second half of a pair that found no room the last time.
FlushState(k) ==
    IF Inward /\ state # 0 /\ k > 0
    THEN out' = Append(out, state) /\ room' = k - 1 /\ state' = 0
    ELSE room' = k /\ UNCHANGED <<out, state>>

\* The next n units and room for k.  A caller that got nowhere offers all it has and room for
\* a character.
Call(n, k) ==
    /\ at = "idle"
    /\ from + n <= Len(given.text)
    /\ Stalled => from + n = Len(given.text) /\ k >= MaxLength
    /\ end' = from + n
    /\ mark' = [from |-> from, state |-> state, out |-> Len(out), room |-> k]
    /\ FlushState(k)
    /\ at' = "loop"
    /\ UNCHANGED <<given, from, result, rewinds>>
----------------------------------------------------------------------------
\* do_in.

InIncomplete ==
    /\ Inward /\ Looping("loop")
    /\ Decode8(Window).cp = Incomplete
    /\ at' = "stop"
    /\ UNCHANGED <<from, room, out, state>>

\* Mutant: a pair waits for room for both halves.
InStep16_NoHalf ==
    LET d == Decode8(Window)
        u == Encode16(Repaired(d.cp))
    IN /\ Inward /\ CharSize = 16 /\ Looping("loop")
       /\ d.cp # Incomplete
       /\ from' = from + d.used
       /\ IF Len(u) <= room THEN Write(u) /\ UNCHANGED at
          ELSE at' = "stop" /\ UNCHANGED <<out, room>>
       /\ UNCHANGED state

\* A pair that does not fit is written to its half; the other half stays in the state.
InStep16 ==
    LET d == Decode8(Window)
        u == Encode16(Repaired(d.cp))
    IN /\ Inward /\ CharSize = 16 /\ Looping("loop")
       /\ d.cp # Incomplete
       /\ from' = from + d.used
       /\ IF Len(u) <= room THEN Write(u) /\ UNCHANGED <<at, state>>
          ELSE Write(<<u[1]>>) /\ state' = u[2] /\ at' = "stop"

InStep32 ==
    LET d == Decode8(Window)
    IN /\ Inward /\ CharSize = 32 /\ Looping("loop")
       /\ d.cp # Incomplete
       /\ from' = from + d.used
       /\ Write(<<Repaired(d.cp)>>)
       /\ UNCHANGED <<at, state>>
----------------------------------------------------------------------------
\* do_out.

\* Mutant: one byte of room is enough for any character.
StoreOut_AnyRoom(c) ==
    IF room >= 1
    THEN Write(Encode8(c)) /\ state' = 0 /\ from' = from + 1 /\ UNCHANGED at
    ELSE at' = "stop" /\ UNCHANGED <<from, room, out, state>>

StoreOut(c) ==
    IF Width8(c) <= room
    THEN Write(Encode8(c)) /\ state' = 0 /\ from' = from + 1 /\ UNCHANGED at
    ELSE at' = "stop" /\ UNCHANGED <<from, room, out, state>>

\* A high surrogate is read into the state and writes nothing.
OutHigh16 ==
    /\ ~Inward /\ CharSize = 16 /\ Looping("loop")
    /\ state = 0 /\ IsFirstSurrogate(Window[1])
    /\ state' = Window[1]
    /\ from' = from + 1
    /\ UNCHANGED <<room, out, at>>

\* With a high surrogate in the state whatever follows belongs to it.
OutStep16 ==
    LET w == Window[1]
    IN /\ ~Inward /\ CharSize = 16 /\ Looping("loop")
       /\ state # 0 \/ ~IsFirstSurrogate(w)
       /\ StoreOut(IF state # 0 /\ IsSecondSurrogate(w) THEN CombineSurrogate(state, w)
                   ELSE IF state = 0 /\ IsSingleCodepoint(w) THEN w
                   ELSE Replacement)

OutStep32 ==
    LET w == Window[1]
    IN /\ ~Inward /\ CharSize = 32 /\ Looping("loop")
       /\ StoreOut(IF IsValidCodepoint(w) THEN w ELSE Replacement)
----------------------------------------------------------------------------
\* The end of do_in and do_out.

\* Mutant: the half that is still in the state does not count.
Result_HalfIsOk == IF from # end THEN "partial" ELSE "ok"

Result == IF from # end \/ state # 0 THEN "partial" ELSE "ok"

Return ==
    /\ at = "stop" \/ (at = "loop" /\ ~Looping("loop"))
    /\ result' = Result
    /\ at' = "idle"
    /\ UNCHANGED <<from, room, out, state>>

Step ==
    /\ \/ (InIncomplete \/ InStep16 \/ InStep32 \/ OutHigh16 \/ OutStep16 \/ OutStep32) /\ UNCHANGED result
       \/ Return
    /\ UNCHANGED <<given, end, mark, rewinds>>
----------------------------------------------------------------------------
\* do_length, with the input of the last call of do_in: how far was the m-th unit it wrote?

Measure(m) ==
    /\ at = "idle" /\ Inward /\ result # "none"
    /\ rewinds > 0
    /\ mark.out + m <= Len(out)
    /\ rewinds' = rewinds - 1
    /\ out' = SubSeq(out, 1, mark.out + m)
    /\ from' = mark.from
    /\ IF mark.state # 0 /\ m > 0 THEN room' = m - 1 /\ state' = 0
       ELSE room' = m /\ state' = mark.state
    /\ at' = "length"
    /\ UNCHANGED <<given, end, result, mark>>

LengthIncomplete ==
    /\ Looping("length")
    /\ Decode8(Window).cp = Incomplete
    /\ at' = "measured"
    /\ UNCHANGED <<from, room, state, result>>

\* Mutant: a pair of which only a half is asked for leaves nothing in the state.
LengthStep16_NoHalf ==
    LET d == Decode8(Window)
        w == Width16(Repaired(d.cp))
    IN /\ CharSize = 16 /\ Looping("length")
       /\ d.cp # Incomplete
       /\ from' = from + d.used
       /\ IF w <= room THEN room' = room - w /\ UNCHANGED at
          ELSE at' = "measured" /\ UNCHANGED room
       /\ UNCHANGED <<state, result>>

LengthStep16 ==
    LET d == Decode8(Window)
        u == Encode16(Repaired(d.cp))
    IN /\ CharSize = 16 /\ Looping("length")
       /\ d.cp # Incomplete
       /\ from' = from + d.used
       /\ IF Width16(Repaired(d.cp)) <= room
          THEN room' = room - Width16(Repaired(d.cp)) /\ UNCHANGED <<at, state>>
          ELSE state' = u[2] /\ at' = "measured" /\ UNCHANGED room
       /\ UNCHANGED result

LengthStep32 ==
    LET d == Decode8(Window)
    IN /\ CharSize = 32 /\ Looping("length")
       /\ d.cp # Incomplete
       /\ from' = from + d.used
       /\ room' = room - 1
       /\ UNCHANGED <<at, state, result>>

\* The caller goes on from there.
LengthReturn ==
    /\ at = "measured" \/ (at = "length" /\ ~Looping("length"))
    /\ at' = "idle"
    /\ result' = "none"
    /\ UNCHANGED <<from, room, state>>

LengthStep ==
    /\ LengthIncomplete \/ LengthStep16 \/ LengthStep32 \/ LengthReturn
    /\ UNCHANGED <<given, end, out, mark, rewinds>>
----------------------------------------------------------------------------
\* do_unshift, which changes nothing.

\* Mutant: a half in the state is no error.
Unshift_Never == IF CharSize = 32 THEN "noconv" ELSE "ok"

Unshift == IF CharSize = 32 THEN "noconv" ELSE IF state # 0 THEN "error" ELSE "ok"

Next ==
    \/ \E n \in 0..Len(given.text), k \in Rooms : Call(n, k)
    \/ \E m \in 0..Len(out) : Measure(m)
    \/ Step
    \/ LengthStep

\* A caller goes on as long as there is something to convert, and every call returns.
Spec == Init /\ [][Next]_vars /\ WF_vars(Next)
----------------------------------------------------------------------------
\* Properties.

Halves == 55296..57343
Mark == [from : Nat, state : {0} \cup Halves, out : Nat, room : Nat]

\* What the text, and what is left of it after n units, becomes in one piece.
WholeOf == [j \in Jobs |-> [n \in 0..Len(j.text) |-> Whole(j.from, j.to, After(j.text, n))]]
All == WholeOf[given][0]
Rest(n) == WholeOf[given][n]

\* Types; the state holds a second half for do_in, a first half for do_out, and for UTF-32 nothing.
TypeOK ==
    /\ given \in Jobs
    /\ from \in 0..Len(given.text) /\ end \in 0..Len(given.text)
    /\ room \in Nat
    /\ out \in Seq(Units(given.to))
    /\ state # 0 => /\ CharSize = 16
                    /\ IF Inward THEN IsSecondSurrogate(state) ELSE IsFirstSurrogate(state)
    /\ state \in Nat
    /\ at \in {"idle", "loop", "stop", "length", "measured"}
    /\ result \in {"none", "ok", "partial"}
    /\ mark \in Mark
    /\ rewinds \in Nat

\* No call reads past from_end or writes past to_end (the loops of do_in and do_out, whose room
\* is checked in one place for one unit and in another for a character).
InsideBuffers ==
    at \in {"loop", "stop"} =>
        /\ from <= end /\ end <= Len(given.text)
        /\ Len(out) <= mark.out + mark.room
        /\ Len(out) + room = mark.out + mark.room

\* The text that was read but not written yet is in the state, so that wherever the caller cuts
\* input and output, and also when it goes on from a place do_length gave it, what is written, what
\* is in the state and what is left to read are together the text converted in one piece.
PieceIndependent ==
    at \in {"idle", "loop", "stop"} =>
        out \o (IF state = 0 THEN Rest(from)
                ELSE IF Inward THEN <<state>> \o Rest(from)
                ELSE Rest(from - 1)) = All

\* "A trailing incomplete sequence will result in a return value of std::codecvt::partial": a call
\* that returns ok has written all that became of what it was given.
OkIsComplete == at = "idle" /\ result = "ok" => out \o Rest(end) = All

\* A caller that ends its output asks do_unshift first: unless it refuses, all that was read is
\* written and the rest can be converted from the initial state.
UnshiftTellsHalf == at = "idle" /\ Unshift # "error" => out \o Rest(from) = All

\* How many units at the end of a text begin a character that is not there to its end.
Unfinished(w, s) ==
    LET u[k \in 0..Len(s)] ==
            IF k = Len(s) THEN 0
            ELSE LET d == Decode(w, After(s, k))
                 IN IF d.cp = Incomplete THEN Len(s) - k ELSE u[k + d.used]
    IN u[0]

Complete(j) == SubSeq(j.text, 1, Len(j.text) - Unfinished(j.from, j.text))
DueOf == [j \in Jobs |-> Whole(j.from, j.to, Complete(j))]

\* The facet is a conversion in pieces, and the text comes out to its last whole character as long
\* as the caller goes on, and offers room for a character (do_max_length) when it got nowhere.
Promise == INSTANCE Transcoding WITH Due <- DueOf
ConvertsTheText == Promise!Spec
=============================================================================
