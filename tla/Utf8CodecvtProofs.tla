------------------------- MODULE Utf8CodecvtProofs -------------------------
(***************************************************************************)
(* For every text, every cutting into calls and every offer of room, the   *)
(* facet stays inside the caller's two buffers and its state is 0 or the   *)
(* half of a pair that belongs to the direction of the conversion (first   *)
(* part), and what is written, what is in the state and what is left to    *)
(* read are together the text converted in one piece (second part).  So    *)
(* every step writes a further piece of what is due or goes back in it     *)
(* (third part).                                                           *)
(***************************************************************************)
EXTENDS Utf8Codecvt, UtfProofs

\* A surrogate fits the state of this facet: none for UTF-32, the second half of a pair for do_in,
\* the first half for do_out.
Holds(s) ==
    /\ s \in Nat
    /\ s # 0 => /\ CharSize = 16
                /\ IF Inward THEN IsSecondSurrogate(s) ELSE IsFirstSurrogate(s)

\* The strengthening: do_length can start where the last call of do_in did.
MarkHolds ==
    /\ mark.from \in 0..Len(given.text) /\ Holds(mark.state)
    /\ at \in {"length", "measured"} => Inward

IInv == TypeOK /\ InsideBuffers /\ MarkHolds

LEMMA Facet ==
    ASSUME given \in Jobs
    PROVE  /\ given.from \in Encodings /\ given.to \in Encodings
           /\ given.text \in Seq(Units(given.from)) /\ Len(given.text) \in Nat
           /\ Inward <=> given.from = 8
           /\ Inward => CharSize = given.to /\ given.to \in {16, 32}
           /\ ~Inward => CharSize = given.from /\ given.from \in {16, 32} /\ given.to = 8
<1>1. /\ <<given.from, given.to>> \in {<<8, 16>>, <<16, 8>>, <<8, 32>>, <<32, 8>>}
      /\ given.text \in Seq(Units(given.from))
  BY FacetAssumption
<1>2. Len(given.text) \in Nat
  BY <1>1
<1> QED BY <1>1, <1>2 DEF Encodings, Inward, CharSize

LEMMA WindowIsText ==
    ASSUME NEW S, NEW s \in Seq(S), NEW a \in Nat, NEW b \in Nat, a < b, b <= Len(s)
    PROVE  /\ SubSeq(s, a + 1, b) \in Seq(S)
           /\ Len(SubSeq(s, a + 1, b)) = b - a
           /\ SubSeq(s, a + 1, b) # <<>>
           /\ SubSeq(s, a + 1, b)[1] \in S
<1>1. \A i \in (a + 1)..b : s[i] \in S
  BY UnitOfText
<1>2. SubSeq(s, a + 1, b) \in Seq(S) /\ Len(SubSeq(s, a + 1, b)) = b - a
  BY SMT, <1>1
<1>3. SubSeq(s, a + 1, b) # <<>>
  BY SMT, <1>2
<1> QED BY <1>2, <1>3, NotEmpty

LEMMA Longer ==
    ASSUME NEW S, NEW a \in Seq(S), NEW b \in Seq(S)
    PROVE  a \o b \in Seq(S) /\ Len(a \o b) = Len(a) + Len(b) /\ Len(a) \in Nat /\ Len(b) \in Nat
OBVIOUS

LEMMA OneLonger ==
    ASSUME NEW S, NEW a \in Seq(S), NEW e \in S
    PROVE  /\ Append(a, e) \in Seq(S) /\ Len(Append(a, e)) = Len(a) + 1 /\ Len(a) \in Nat
           /\ <<e>> \in Seq(S) /\ Len(<<e>>) = 1
OBVIOUS

LEMMA Shorter ==
    ASSUME NEW S, NEW s \in Seq(S), NEW n \in Nat, n <= Len(s)
    PROVE  SubSeq(s, 1, n) \in Seq(S)
<1>1. \A i \in 1..n : s[i] \in S
  BY UnitOfText
<1> QED BY SMT, <1>1

\* The two halves of a pair.
LEMMA PairHalves ==
    ASSUME NEW v \in CodePoints, Len(Encode16(v)) > 1
    PROVE  /\ Len(Encode16(v)) = 2
           /\ Encode16(v)[1] \in Units16
           /\ Encode16(v)[2] \in Nat /\ Encode16(v)[2] # 0 /\ IsSecondSurrogate(Encode16(v)[2])
<1>1. v \in Nat /\ v <= 1114111
  BY CodePointBounds
<1>2. v > 65535
  BY SMT, <1>1 DEF Encode16
<1> DEFINE p == (v - 65536) \div 1024
           q == (v - 65536) % 1024
<1>3. Encode16(v) = <<55296 + p, 56320 + q>>
  BY SMT, <1>1, <1>2 DEF Encode16
<1>4. p \in 0..1023 /\ q \in 0..1023
  BY SMT, <1>1, <1>2
<1> HIDE DEF p, q
<1>5. /\ 55296 + p \in Units16
      /\ 56320 + q \in Nat /\ 56320 + q # 0 /\ IsSecondSurrogate(56320 + q)
  BY SMT, <1>4 DEF Units16, IsSecondSurrogate
<1>6. /\ Len(<<55296 + p, 56320 + q>>) = 2
      /\ <<55296 + p, 56320 + q>>[1] = 55296 + p /\ <<55296 + p, 56320 + q>>[2] = 56320 + q
  OBVIOUS
<1> QED BY <1>3, <1>5, <1>6

\* What a round of do_in or do_length reads.
LEMMA ReadsIn ==
    ASSUME TypeOK, Inward, from < end
    PROVE  /\ Decode8(Window).cp \in Results
           /\ Repaired(Decode8(Window).cp) \in CodePoints
           /\ Decode8(Window).used \in Nat
           /\ from + Decode8(Window).used \in 0..Len(given.text)
           /\ from + Decode8(Window).used <= end
<1>1. /\ given.text \in Seq(Bytes) /\ Len(given.text) \in Nat
      /\ from \in 0..Len(given.text) /\ end \in 0..Len(given.text)
  BY Facet DEF TypeOK, Units
<1>2. Window \in Seq(Bytes) /\ Len(Window) = end - from /\ Window # <<>>
  BY SMT, <1>1, WindowIsText DEF Window
<1>3. Decode8(Window).cp \in Results /\ Decode8(Window).used \in 1..Len(Window)
  BY <1>2, Decode8Progress
<1>4. Repaired(Decode8(Window).cp) \in CodePoints
  BY <1>3, RepairedIsCodePoint
<1> QED BY SMT, <1>1, <1>2, <1>3, <1>4

\* What a round of do_out reads.
LEMMA ReadsOut ==
    ASSUME TypeOK, ~Inward, from < end
    PROVE  /\ Window[1] \in Units(given.from) /\ Window[1] \in Nat
           /\ from + 1 \in 0..Len(given.text) /\ from + 1 <= end
<1>1. /\ given.text \in Seq(Units(given.from)) /\ Len(given.text) \in Nat
      /\ from \in 0..Len(given.text) /\ end \in 0..Len(given.text)
      /\ given.from \in Encodings
  BY Facet DEF TypeOK
<1>2. Window[1] \in Units(given.from)
  BY SMT, <1>1, WindowIsText DEF Window
<1>3. Units(given.from) \subseteq Nat
  BY SMT, <1>1 DEF Units, Encodings, Bytes, Units16
<1> QED BY SMT, <1>1, <1>2, <1>3

\* Storing n units where there is room for them.
LEMMA WriteInside ==
    ASSUME IInv, Looping("loop"), NEW u \in Seq(Units(given.to)), Len(u) <= room,
           Write(u), UNCHANGED <<given, end, mark, rewinds>>,
           from' \in 0..Len(given.text), from' <= end,
           at' \in {"loop", "stop"}, result' = result, Holds(state)' 
    PROVE  IInv'
<1>1. /\ out \in Seq(Units(given.to)) /\ room \in Nat
      /\ Len(out) + room = mark.out + mark.room
      /\ end <= Len(given.text)
      /\ mark \in Mark
  BY DEF IInv, TypeOK, InsideBuffers, Looping
<1>2. out' = out \o u /\ room' = room - Len(u)
  BY DEF Write
<1>3. out' \in Seq(Units(given.to)) /\ Len(out') = Len(out) + Len(u) /\ Len(u) \in Nat /\ Len(out) \in Nat
  BY <1>1, <1>2, Longer
<1>4. room' \in Nat /\ Len(out') + room' = mark.out + mark.room
  BY SMT, <1>1, <1>2, <1>3
<1>5. mark.out + mark.room \in Nat /\ Len(out') <= mark.out + mark.room
  BY SMT, <1>1, <1>3, <1>4 DEF Mark
<1>6. TypeOK'
  BY <1>3, <1>4 DEF IInv, TypeOK, Holds
<1>7. InsideBuffers'
  BY <1>1, <1>4, <1>5 DEF InsideBuffers
<1>8. MarkHolds'
  BY DEF IInv, MarkHolds, Holds, CharSize, Inward
<1> QED BY <1>6, <1>7, <1>8 DEF IInv

\* A round that writes nothing.
LEMMA NothingWritten ==
    ASSUME IInv, at \in {"loop", "stop"}, UNCHANGED <<given, end, room, out, mark, rewinds>>,
           from' \in 0..Len(given.text), from' <= end,
           at' \in {"loop", "stop", "idle"}, result' \in {"none", "ok", "partial"}, Holds(state)'
    PROVE  IInv'
<1>1. TypeOK'
  BY DEF IInv, TypeOK, Holds
<1>2. InsideBuffers'
  BY DEF IInv, InsideBuffers
<1>3. MarkHolds'
  BY DEF IInv, MarkHolds, Holds, CharSize, Inward
<1> QED BY <1>1, <1>2, <1>3 DEF IInv

LEMMA StateHolds == ASSUME TypeOK PROVE Holds(state)
BY DEF TypeOK, Holds

LEMMA InitInv == Init => IInv
<1> SUFFICES ASSUME Init PROVE IInv
  OBVIOUS
<1>1. given \in Jobs /\ given.text \in Seq(Units(given.from)) /\ Len(given.text) \in Nat
  BY Facet DEF Init
<1>2. TypeOK
  BY <1>1, RewindsAssumption DEF Init, TypeOK, Mark, Halves
<1>3. InsideBuffers /\ MarkHolds
  BY <1>1 DEF Init, InsideBuffers, MarkHolds, Holds
<1> QED BY <1>2, <1>3 DEF IInv

LEMMA CallInv ==
    ASSUME IInv, NEW n \in Nat, NEW k \in Rooms, Call(n, k)
    PROVE  IInv'
<1>1. /\ given \in Jobs /\ Len(given.text) \in Nat
      /\ from \in 0..Len(given.text) /\ room \in Nat /\ out \in Seq(Units(given.to))
      /\ k \in Nat /\ Holds(state) /\ Len(out) \in Nat
  BY Facet, StateHolds, RoomsAssumption DEF IInv, TypeOK
<1>2. /\ from + n <= Len(given.text) /\ end' = from + n
      /\ mark' = [from |-> from, state |-> state, out |-> Len(out), room |-> k]
      /\ at' = "loop"
      /\ UNCHANGED <<given, from, result, rewinds>>
  BY DEF Call
<1>3. end' \in 0..Len(given.text) /\ from <= end'
  BY SMT, <1>1, <1>2
<1>4. mark' \in Mark
  <2>1. state \in {0} \cup Halves
    BY SMT, <1>1 DEF Holds, Halves, IsSecondSurrogate, IsFirstSurrogate
  <2> QED BY <2>1, <1>1, <1>2 DEF Mark
<1>5. MarkHolds'
  BY <1>1, <1>2 DEF MarkHolds, Holds, CharSize, Inward
<1>6. /\ room' \in Nat /\ out' \in Seq(Units(given.to))
      /\ Len(out') + room' = Len(out) + k /\ Len(out') <= Len(out) + k
      /\ Holds(state')
  <2>1. CASE Inward /\ state # 0 /\ k > 0
    <3>1. out' = Append(out, state) /\ room' = k - 1 /\ state' = 0
      BY <2>1 DEF Call, FlushState
    <3>2. given.to = 16 /\ state \in Units16
      BY SMT, <2>1, <1>1, Facet DEF Holds, IsSecondSurrogate, Units16
    <3>3. state \in Units(given.to)
      BY SMT, <3>2 DEF Units
    <3>4. out' \in Seq(Units(given.to)) /\ Len(out') = Len(out) + 1
      BY <3>1, <3>3, <1>1, OneLonger
    <3> QED BY SMT, <3>1, <3>4, <2>1, <1>1 DEF Holds
  <2>2. CASE ~(Inward /\ state # 0 /\ k > 0)
    <3>1. out' = out /\ room' = k /\ state' = state
      BY <2>2 DEF Call, FlushState
    <3> QED BY SMT, <3>1, <1>1
  <2> QED BY <2>1, <2>2
<1>7. TypeOK'
  BY <1>1, <1>2, <1>3, <1>4, <1>6 DEF IInv, TypeOK, Holds, CharSize, Inward
<1>8. InsideBuffers'
  BY <1>2, <1>3, <1>6 DEF InsideBuffers
<1> QED BY <1>5, <1>7, <1>8 DEF IInv

LEMMA InIncompleteInv ==
    ASSUME IInv, InIncomplete, UNCHANGED <<given, end, mark, rewinds, result>>
    PROVE  IInv'
<1>1. /\ at = "loop" /\ from \in 0..Len(given.text) /\ from <= end
      /\ result \in {"none", "ok", "partial"}
      /\ Holds(state) /\ state' = state
  BY StateHolds DEF IInv, TypeOK, InsideBuffers, InIncomplete, Looping
<1>2. Holds(state)'
  BY <1>1 DEF Holds, CharSize, Inward
<1> QED BY <1>1, <1>2, NothingWritten DEF InIncomplete

LEMMA InStep16Inv ==
    ASSUME IInv, InStep16, UNCHANGED <<given, end, mark, rewinds, result>>
    PROVE  IInv'
<1> DEFINE d == Decode8(Window)
           u == Encode16(Repaired(d.cp))
<1>1. /\ Inward /\ CharSize = 16 /\ Looping("loop") /\ from' = from + d.used
      /\ at = "loop" /\ room > 0 /\ from < end
  BY DEF InStep16, Looping
<1>2. /\ TypeOK /\ given \in Jobs /\ given.to = 16 /\ room \in Nat
  BY <1>1, Facet DEF IInv, TypeOK
<1>3. Repaired(d.cp) \in CodePoints /\ from' \in 0..Len(given.text) /\ from' <= end
  BY <1>1, <1>2, ReadsIn
<1>4. u \in Seq(Units(given.to)) /\ Len(u) \in Nat
  BY <1>2, <1>3, Encode16Units DEF Units
<1> HIDE DEF u
<1>5. CASE Len(u) <= room
  <2>1. Write(u) /\ UNCHANGED <<at, state>>
    BY <1>5 DEF InStep16, u
  <2>2. Holds(state)'
    BY <2>1, <1>2, StateHolds DEF Holds, CharSize, Inward
  <2> QED BY <2>1, <2>2, <1>1, <1>3, <1>4, <1>5, WriteInside
<1>6. CASE ~(Len(u) <= room)
  <2>1. Write(<<u[1]>>) /\ state' = u[2] /\ at' = "stop"
    BY <1>6 DEF InStep16, u
  <2>2. Len(u) > 1
    BY SMT, <1>1, <1>2, <1>4, <1>6
  <2>3. u[1] \in Units16 /\ u[2] \in Nat /\ IsSecondSurrogate(u[2])
    BY <2>2, <1>3, PairHalves DEF u
  <2>4. <<u[1]>> \in Seq(Units(given.to)) /\ Len(<<u[1]>>) = 1
    BY <2>3, <1>2 DEF Units
  <2>5. Holds(state)'
    BY <2>1, <2>3, <1>1 DEF Holds, CharSize, Inward
  <2>6. Len(<<u[1]>>) <= room
    BY SMT, <2>4, <1>1, <1>2
  <2> QED BY <2>1, <2>4, <2>5, <2>6, <1>1, <1>3, WriteInside
<1> QED BY <1>5, <1>6

LEMMA InStep32Inv ==
    ASSUME IInv, InStep32, UNCHANGED <<given, end, mark, rewinds, result>>
    PROVE  IInv'
<1> DEFINE d == Decode8(Window)
           c == Repaired(d.cp)
<1>1. /\ Inward /\ CharSize = 32 /\ Looping("loop") /\ from' = from + d.used
      /\ at = "loop" /\ room > 0 /\ from < end /\ Write(<<c>>) /\ UNCHANGED <<at, state>>
  BY DEF InStep32, Looping
<1>2. /\ TypeOK /\ given \in Jobs /\ given.to = 32 /\ room \in Nat
  BY <1>1, Facet DEF IInv, TypeOK
<1>3. c \in CodePoints /\ from' \in 0..Len(given.text) /\ from' <= end
  BY <1>1, <1>2, ReadsIn
<1>4. c \in Units(given.to)
  BY SMT, <1>2, <1>3 DEF Units, CodePoints
<1> HIDE DEF c
<1>5. <<c>> \in Seq(Units(given.to)) /\ Len(<<c>>) = 1
  BY <1>4
<1>6. Len(<<c>>) <= room
  BY SMT, <1>1, <1>2, <1>5
<1>7. Holds(state)'
  BY <1>1, <1>2, StateHolds DEF Holds, CharSize, Inward
<1> QED BY <1>1, <1>3, <1>5, <1>6, <1>7, WriteInside

LEMMA StoreOutInv ==
    ASSUME IInv, ~Inward, Looping("loop"), NEW c \in CodePoints, StoreOut(c),
           UNCHANGED <<given, end, mark, rewinds, result>>
    PROVE  IInv'
<1>1. /\ TypeOK /\ at = "loop" /\ room > 0 /\ from < end /\ given \in Jobs /\ given.to = 8
      /\ from \in 0..Len(given.text) /\ from <= end /\ result \in {"none", "ok", "partial"}
      /\ Holds(state)
  BY Facet, StateHolds DEF IInv, TypeOK, InsideBuffers, Looping
<1>2. from + 1 \in 0..Len(given.text) /\ from + 1 <= end
  BY <1>1, ReadsOut
<1>3. Encode8(c) \in Seq(Units(given.to)) /\ Len(Encode8(c)) = Width8(c)
  BY <1>1, Encode8Bytes DEF Units
<1>4. CASE Width8(c) <= room
  <2>1. Write(Encode8(c)) /\ state' = 0 /\ from' = from + 1 /\ at' = at
    BY <1>4 DEF StoreOut
  <2>2. Holds(state)'
    BY <2>1 DEF Holds
  <2> QED BY <2>1, <2>2, <1>1, <1>2, <1>3, <1>4, WriteInside
<1>5. CASE ~(Width8(c) <= room)
  <2>1. at' = "stop" /\ UNCHANGED <<from, room, out, state>>
    BY <1>5 DEF StoreOut
  <2>2. Holds(state)'
    BY <2>1, <1>1 DEF Holds, CharSize, Inward
  <2> QED BY <2>1, <2>2, <1>1, NothingWritten
<1> QED BY <1>4, <1>5

LEMMA OutHigh16Inv ==
    ASSUME IInv, OutHigh16, UNCHANGED <<given, end, mark, rewinds, result>>
    PROVE  IInv'
<1>1. /\ TypeOK /\ at = "loop" /\ from < end /\ ~Inward /\ CharSize = 16
      /\ result \in {"none", "ok", "partial"}
      /\ state' = Window[1] /\ IsFirstSurrogate(Window[1]) /\ from' = from + 1 /\ at' = at
      /\ room' = room /\ out' = out
  BY DEF OutHigh16, Looping, IInv, TypeOK
<1>2. /\ Window[1] \in Nat /\ from + 1 \in 0..Len(given.text) /\ from + 1 <= end
  BY <1>1, ReadsOut
<1>3. Holds(state)'
  BY <1>1, <1>2 DEF Holds, CharSize, Inward
<1> QED BY <1>1, <1>2, <1>3, NothingWritten

LEMMA OutStep16Inv ==
    ASSUME IInv, OutStep16, UNCHANGED <<given, end, mark, rewinds, result>>
    PROVE  IInv'
<1> DEFINE w == Window[1]
           c == IF state # 0 /\ IsSecondSurrogate(w) THEN CombineSurrogate(state, w)
                ELSE IF state = 0 /\ IsSingleCodepoint(w) THEN w
                ELSE Replacement
<1>1. /\ ~Inward /\ CharSize = 16 /\ Looping("loop") /\ from < end /\ StoreOut(c) /\ TypeOK
      /\ state \in Nat
  BY DEF OutStep16, Looping, IInv, TypeOK
<1>2. w \in Nat /\ w <= 65535
  <2>1. given.from = 16 /\ w \in Units(given.from)
    BY <1>1, ReadsOut, Facet DEF TypeOK
  <2> QED BY SMT, <2>1 DEF Units, Units16
<1>3. CombineSurrogate(state, w) \in CodePoints
  BY <1>1, <1>2, SurrogatesCombine
<1>4. IsSingleCodepoint(w) => w \in CodePoints
  BY SMT, <1>2 DEF IsSingleCodepoint, CodePoints, IsValidCodepoint
<1>5. Replacement \in CodePoints
  BY SMT DEF Replacement, CodePoints, IsValidCodepoint
<1>6. c \in CodePoints
  BY <1>3, <1>4, <1>5
<1> QED BY <1>1, <1>6, StoreOutInv

LEMMA OutStep32Inv ==
    ASSUME IInv, OutStep32, UNCHANGED <<given, end, mark, rewinds, result>>
    PROVE  IInv'
<1> DEFINE w == Window[1]
           c == IF IsValidCodepoint(w) THEN w ELSE Replacement
<1>1. /\ ~Inward /\ Looping("loop") /\ from < end /\ StoreOut(c) /\ TypeOK
  BY DEF OutStep32, Looping, IInv
<1>2. w \in Nat
  BY <1>1, ReadsOut
<1>3. c \in CodePoints
  BY SMT, <1>2 DEF Replacement, CodePoints, IsValidCodepoint
<1> QED BY <1>1, <1>3, StoreOutInv

LEMMA ReturnInv ==
    ASSUME IInv, Return, UNCHANGED <<given, end, mark, rewinds>>
    PROVE  IInv'
<1>1. /\ at \in {"loop", "stop"} /\ at' = "idle" /\ UNCHANGED <<from, room, out, state>>
      /\ result' \in {"none", "ok", "partial"}
  BY DEF Return, Result
<1>2. from \in 0..Len(given.text) /\ from <= end /\ Holds(state)
  BY <1>1, StateHolds DEF IInv, TypeOK, InsideBuffers
<1>3. Holds(state)'
  BY <1>1, <1>2 DEF Holds, CharSize, Inward
<1> QED BY <1>1, <1>2, <1>3, NothingWritten

LEMMA StepInv == ASSUME IInv, Step PROVE IInv'
<1>1. UNCHANGED <<given, end, mark, rewinds>>
  BY DEF Step
<1>2. CASE InIncomplete /\ result' = result BY <1>1, <1>2, InIncompleteInv
<1>3. CASE InStep16 /\ result' = result BY <1>1, <1>3, InStep16Inv
<1>4. CASE InStep32 /\ result' = result BY <1>1, <1>4, InStep32Inv
<1>5. CASE OutHigh16 /\ result' = result BY <1>1, <1>5, OutHigh16Inv
<1>6. CASE OutStep16 /\ result' = result BY <1>1, <1>6, OutStep16Inv
<1>7. CASE OutStep32 /\ result' = result BY <1>1, <1>7, OutStep32Inv
<1>8. CASE Return BY <1>1, <1>8, ReturnInv
<1> QED BY <1>2, <1>3, <1>4, <1>5, <1>6, <1>7, <1>8 DEF Step

LEMMA MeasureInv ==
    ASSUME IInv, NEW m \in Nat, Measure(m)
    PROVE  IInv'
<1>1. /\ given \in Jobs /\ out \in Seq(Units(given.to)) /\ mark \in Mark /\ rewinds \in Nat
      /\ mark.from \in 0..Len(given.text) /\ Holds(mark.state) /\ mark.out \in Nat
  BY DEF IInv, TypeOK, MarkHolds, Mark
<1>2. /\ rewinds > 0 /\ rewinds' = rewinds - 1
      /\ mark.out + m <= Len(out) /\ out' = SubSeq(out, 1, mark.out + m)
      /\ from' = mark.from /\ at' = "length"
      /\ UNCHANGED <<given, end, result, mark>>
  BY DEF Measure
<1>3. room' \in Nat /\ Holds(state')
  <2>1. CASE mark.state # 0 /\ m > 0
    BY SMT, <2>1 DEF Measure, Holds
  <2>2. CASE ~(mark.state # 0 /\ m > 0)
    BY <2>2, <1>1 DEF Measure
  <2> QED BY <2>1, <2>2
<1>4. out' \in Seq(Units(given.to)) /\ rewinds' \in Nat
  BY SMT, <1>1, <1>2, Shorter
<1>5. TypeOK'
  BY <1>1, <1>2, <1>3, <1>4 DEF IInv, TypeOK, Holds, CharSize, Inward
<1>6. InsideBuffers' /\ MarkHolds'
  BY <1>1, <1>2 DEF InsideBuffers, MarkHolds, Holds, CharSize, Inward, Measure
<1> QED BY <1>5, <1>6 DEF IInv

\* A round of do_length writes nothing and takes room that is there.
LEMMA Measured ==
    ASSUME IInv, UNCHANGED <<given, end, out, mark, rewinds>>,
           from' \in 0..Len(given.text), room' \in Nat, Holds(state)',
           at' \in {"length", "measured", "idle"}, at' # "idle" => Inward,
           result' \in {"none", "ok", "partial"}
    PROVE  IInv'
<1>1. TypeOK'
  BY DEF IInv, TypeOK, Holds
<1>2. InsideBuffers' /\ MarkHolds'
  BY DEF IInv, InsideBuffers, MarkHolds, Holds, CharSize, Inward
<1> QED BY <1>1, <1>2 DEF IInv

LEMMA LengthIncompleteInv ==
    ASSUME IInv, LengthIncomplete, UNCHANGED <<given, end, out, mark, rewinds>>
    PROVE  IInv'
<1>1. /\ at = "length" /\ at' = "measured" /\ UNCHANGED <<from, room, state, result>>
      /\ from \in 0..Len(given.text) /\ room \in Nat /\ result \in {"none", "ok", "partial"}
      /\ Holds(state) /\ Inward
  BY StateHolds DEF LengthIncomplete, Looping, IInv, TypeOK, MarkHolds
<1>2. Holds(state)'
  BY <1>1 DEF Holds, CharSize, Inward
<1> QED BY <1>1, <1>2, Measured

LEMMA LengthStep16Inv ==
    ASSUME IInv, LengthStep16, UNCHANGED <<given, end, out, mark, rewinds>>
    PROVE  IInv'
<1> DEFINE d == Decode8(Window)
           w == Width16(Repaired(d.cp))
           u == Encode16(Repaired(d.cp))
<1>1. /\ at = "length" /\ CharSize = 16 /\ room > 0 /\ from < end /\ from' = from + d.used
      /\ result' = result /\ result \in {"none", "ok", "partial"} /\ room \in Nat
      /\ Holds(state) /\ Inward /\ TypeOK
  BY StateHolds DEF LengthStep16, Looping, IInv, TypeOK, MarkHolds
<1>2. Repaired(d.cp) \in CodePoints /\ from' \in 0..Len(given.text)
  BY <1>1, ReadsIn
<1>3. Len(u) = w /\ w \in {1, 2}
  <2>1. Len(u) = w
    BY <1>2, Encode16Units
  <2>2. w = 1 \/ w = 2
    BY DEF Width16
  <2> QED BY <2>1, <2>2
<1> HIDE DEF u, w
<1>4. CASE w <= room
  <2>1. room' = room - w /\ UNCHANGED <<at, state>>
    BY <1>4 DEF LengthStep16, w
  <2>2. room' \in Nat
    BY SMT, <2>1, <1>1, <1>3, <1>4
  <2>3. Holds(state)'
    BY <2>1, <1>1 DEF Holds, CharSize, Inward
  <2> QED BY <2>1, <2>2, <2>3, <1>1, <1>2, Measured
<1>5. CASE ~(w <= room)
  <2>1. state' = u[2] /\ at' = "measured" /\ room' = room
    BY <1>5 DEF LengthStep16, u, w
  <2>2. Len(u) > 1
    BY SMT, <1>1, <1>3, <1>5
  <2>3. u[2] \in Nat /\ IsSecondSurrogate(u[2])
    BY <2>2, <1>2, PairHalves DEF u
  <2>4. Holds(state)'
    BY <2>1, <2>3, <1>1 DEF Holds, CharSize, Inward
  <2> QED BY <2>1, <2>4, <1>1, <1>2, Measured
<1> QED BY <1>4, <1>5

LEMMA LengthStep32Inv ==
    ASSUME IInv, LengthStep32, UNCHANGED <<given, end, out, mark, rewinds>>
    PROVE  IInv'
<1> DEFINE d == Decode8(Window)
<1>1. /\ at = "length" /\ room > 0 /\ from < end /\ from' = from + d.used /\ room' = room - 1
      /\ UNCHANGED <<at, state, result>> /\ result \in {"none", "ok", "partial"} /\ room \in Nat
      /\ Holds(state) /\ Inward /\ TypeOK
  BY StateHolds DEF LengthStep32, Looping, IInv, TypeOK, MarkHolds
<1>2. from' \in 0..Len(given.text)
  BY <1>1, ReadsIn
<1>3. room' \in Nat
  BY SMT, <1>1
<1>4. Holds(state)'
  BY <1>1 DEF Holds, CharSize, Inward
<1> QED BY <1>1, <1>2, <1>3, <1>4, Measured

LEMMA LengthReturnInv ==
    ASSUME IInv, LengthReturn, UNCHANGED <<given, end, out, mark, rewinds>>
    PROVE  IInv'
<1>1. /\ at' = "idle" /\ result' = "none" /\ UNCHANGED <<from, room, state>>
      /\ from \in 0..Len(given.text) /\ room \in Nat /\ Holds(state)
  BY StateHolds DEF LengthReturn, IInv, TypeOK
<1>2. Holds(state)'
  BY <1>1 DEF Holds, CharSize, Inward
<1> QED BY <1>1, <1>2, Measured

LEMMA LengthStepInv == ASSUME IInv, LengthStep PROVE IInv'
<1>1. UNCHANGED <<given, end, out, mark, rewinds>>
  BY DEF LengthStep
<1>2. CASE LengthIncomplete BY <1>1, <1>2, LengthIncompleteInv
<1>3. CASE LengthStep16 BY <1>1, <1>3, LengthStep16Inv
<1>4. CASE LengthStep32 BY <1>1, <1>4, LengthStep32Inv
<1>5. CASE LengthReturn BY <1>1, <1>5, LengthReturnInv
<1> QED BY <1>2, <1>3, <1>4, <1>5 DEF LengthStep

LEMMA NextInv == IInv /\ [Next]_vars => IInv'
<1> SUFFICES ASSUME IInv, [Next]_vars PROVE IInv'
  OBVIOUS
<1>1. ASSUME NEW n \in 0..Len(given.text), NEW k \in Rooms, Call(n, k) PROVE IInv'
  <2>1. n \in Nat
    BY SMT, Facet DEF IInv, TypeOK
  <2> QED BY <2>1, <1>1, CallInv
<1>2. ASSUME NEW m \in 0..Len(out), Measure(m) PROVE IInv'
  <2>1. m \in Nat
    BY SMT DEF IInv, TypeOK
  <2> QED BY <2>1, <1>2, MeasureInv
<1>3. CASE Step BY <1>3, StepInv
<1>4. CASE LengthStep BY <1>4, LengthStepInv
<1>5. CASE UNCHANGED vars
  BY <1>5 DEF vars, IInv, TypeOK, InsideBuffers, MarkHolds, Holds, CharSize, Inward, Window
<1> QED BY <1>1, <1>2, <1>3, <1>4, <1>5 DEF Next

LEMMA AlwaysIInv == Spec => []IInv
BY InitInv, NextInv, PTL DEF Spec

\* For every text and every cutting into calls the state that do_in, do_out and do_length leave is 0
\* or the half of a pair that the next call in this direction knows how to complete.
THEOREM CodecvtTypeCorrect == Spec => []TypeOK
<1>1. IInv => TypeOK
  BY DEF IInv
<1> QED BY <1>1, AlwaysIInv, PTL

\* do_in and do_out never read past from_end nor write past to_end, whatever room there is.
THEOREM CodecvtStaysInside == Spec => []InsideBuffers
<1>1. IInv => InsideBuffers
  BY DEF IInv
<1> QED BY <1>1, AlwaysIInv, PTL
----------------------------------------------------------------------------
\* The first m units of a text.
LEMMA Beginning ==
    ASSUME NEW S, NEW s \in Seq(S), NEW m \in 0..Len(s)
    PROVE  LET u == SubSeq(s, 1, m)
           IN /\ u \in Seq(S) /\ Len(u) = m /\ DOMAIN u = 1..m /\ \A i \in 1..m : u[i] = s[i]
              /\ m \in Nat /\ (m = Len(s) => u = s)
  <1>1. \A i \in 1..m : s[i] \in S
    BY UnitOfText
  <1>2. m \in Nat /\ m <= Len(s) /\ Len(s) \in Nat
    OBVIOUS
  <1> DEFINE u == SubSeq(s, 1, m)
  <1>3. u \in Seq(S) /\ Len(u) = m
    BY SMT, <1>1, <1>2
  <1>4. DOMAIN u = 1..m /\ \A i \in 1..m : u[i] = s[i]
    BY SMT, <1>1, <1>2
  <1>5. m = Len(s) => u = s
    BY <1>3, <1>4, SameText
  <1> QED
    BY <1>2, <1>3, <1>4, <1>5

\* The units from a + 1 to b, as a beginning of what is left after a.
LEMMA WindowBegins ==
    ASSUME NEW S, NEW s \in Seq(S), NEW b \in 0..Len(s), NEW a \in 0..b
    PROVE  /\ b - a \in 0..Len(After(s, a))
           /\ SubSeq(s, a + 1, b) = SubSeq(After(s, a), 1, b - a)
  <1>1. a \in Nat /\ b \in Nat /\ a <= b /\ b <= Len(s) /\ Len(s) \in Nat /\ a \in 0..Len(s)
    OBVIOUS
  <1>2. /\ After(s, a) \in Seq(S) /\ Len(After(s, a)) = Len(s) - a
        /\ \A i \in 1..(Len(s) - a) : After(s, a)[i] = s[a + i]
    BY <1>1, RestOfText
  <1> DEFINE r == After(s, a)
             x == SubSeq(s, a + 1, b)
             y == SubSeq(r, 1, b - a)
  <1>3. b - a \in 0..Len(r)
    BY <1>1, <1>2
  <1>4. \A i \in (a + 1)..b : s[i] \in S
    BY <1>1, UnitOfText
  <1>5. x \in Seq(S) /\ Len(x) = b - a /\ \A i \in 1..(b - a) : x[i] = s[a + i]
    BY SMT, <1>1, <1>4
  <1>6. y \in Seq(S) /\ Len(y) = b - a /\ \A i \in 1..(b - a) : y[i] = r[i]
    <2> HIDE DEF r
    <2> QED
      BY <1>2, <1>3, Beginning DEF r
  <1>7. \A i \in 1..(b - a) : r[i] = s[a + i]
    BY <1>1, <1>2
  <1> HIDE DEF x, y, r
  <1>8. x = y
    BY <1>5, <1>6, <1>7, SameText
  <1> QED
    BY <1>3, <1>8 DEF x, y, r

\* After j units of x come e and then r.
Follow(x, j, e, r) == After(x, j) = e \o r

LEMMA Forward ==
    ASSUME NEW S, NEW x \in Seq(S), NEW j \in 0..Len(x), NEW e \in Seq(S), NEW r \in Seq(S),
           Follow(x, j, e, r)
    PROVE  /\ j + Len(e) \in 0..Len(x)
           /\ After(x, j + Len(e)) = r
           /\ SubSeq(x, 1, j) \o e = SubSeq(x, 1, j + Len(e))
  <1> DEFINE k == j + Len(e)
             y == After(x, k)
             z == After(x, j)
  <1>1. /\ j \in Nat /\ Len(x) \in Nat /\ j <= Len(x)
        /\ Len(e) \in Nat /\ Len(r) \in Nat
    OBVIOUS
  <1>2. Len(z) = Len(x) - j /\ \A i \in 1..(Len(x) - j) : z[i] = x[j + i]
    BY RestOfText
  <1>3. /\ Len(e \o r) = Len(e) + Len(r)
        /\ \A i \in 1..Len(e) : (e \o r)[i] = e[i]
        /\ \A i \in 1..Len(r) : (e \o r)[Len(e) + i] = r[i]
    BY JoinedText
  <1>5. z = e \o r
    BY Zenon DEF Follow
  <1>4. y \in Seq(S) /\ Len(y) = Len(x) - k /\ \A i \in 1..(Len(x) - k) : y[i] = x[k + i]
    <2>1. k \in 0..Len(x)
      <3>1. Len(z) = Len(e) + Len(r)
        BY <1>3, <1>5, Zenon
      <3> HIDE DEF z
      <3> QED
        BY <1>1, <1>2, <3>1
    <2> HIDE DEF k, z
    <2> QED
      BY <2>1, RestOfText
  <1> HIDE DEF y, z
  <1>6. Len(x) - j = Len(e) + Len(r) /\ k \in 0..Len(x) /\ Len(x) - k = Len(r)
    BY <1>1, <1>2, <1>3, <1>5
  <1>7. \A i \in 1..Len(e) : x[j + i] = e[i]
    <2>1. ASSUME NEW i \in 1..Len(e) PROVE x[j + i] = e[i]
      <3>1. i \in 1..(Len(x) - j)
        BY <1>1, <1>6
      <3> QED
        BY <1>2, <1>3, <1>5, <3>1, Zenon
    <2> QED
      BY <2>1
  <1>8. \A i \in 1..Len(r) : x[k + i] = r[i]
    <2>1. ASSUME NEW i \in 1..Len(r) PROVE x[k + i] = r[i]
      <3>1. Len(e) + i \in 1..(Len(x) - j) /\ j + (Len(e) + i) = k + i
        BY <1>1, <1>6
      <3>2. z[Len(e) + i] = x[j + (Len(e) + i)]
        BY <1>2, <3>1, Zenon
      <3> QED
        BY <1>3, <1>5, <3>1, <3>2, Zenon
    <2> QED
      BY <2>1
  <1> HIDE DEF k
  <1>9. y = r
    <2>1. Len(y) = Len(r) /\ \A i \in 1..Len(y) : y[i] = r[i]
      BY <1>4, <1>6, <1>8
    <2> QED
      BY <1>4, <2>1, SameText
  <1> DEFINE a == SubSeq(x, 1, j)
             b == SubSeq(x, 1, k)
             c == a \o e
  <1>10. a \in Seq(S) /\ Len(a) = j /\ \A i \in 1..j : a[i] = x[i]
    BY Beginning
  <1>11. b \in Seq(S) /\ Len(b) = k /\ \A i \in 1..k : b[i] = x[i]
    BY <1>6, Beginning
  <1> HIDE DEF a, b
  <1>12. /\ c \in Seq(S) /\ Len(c) = j + Len(e)
         /\ \A i \in 1..j : c[i] = a[i]
         /\ \A i \in 1..Len(e) : c[j + i] = e[i]
    <2>1. /\ c \in Seq(S) /\ Len(c) = Len(a) + Len(e)
          /\ \A i \in 1..Len(a) : c[i] = a[i]
          /\ \A i \in 1..Len(e) : c[Len(a) + i] = e[i]
      <3>1. a \in Seq(S)
        BY <1>10, Zenon
      <3> QED
        BY <3>1, JoinedText
    <2> HIDE DEF c
    <2> QED
      BY <1>10, <2>1, Zenon
  <1> HIDE DEF c
  <1>13. c = b
    <2>1. ASSUME NEW i \in 1..Len(c) PROVE c[i] = b[i]
      <3>1. i \in 1..k
        BY <1>12 DEF k
      <3>2. CASE i <= j
        <4>1. i \in 1..j
          BY <1>1, <3>1, <3>2
        <4> QED
          BY <1>10, <1>11, <1>12, <3>1, <4>1
      <3>3. CASE ~(i <= j)
        <4>1. i - j \in 1..Len(e) /\ j + (i - j) = i
          BY <1>1, <3>1, <3>3 DEF k
        <4>2. c[j + (i - j)] = e[i - j] /\ x[j + (i - j)] = e[i - j]
          BY <1>7, <1>12, <4>1, Zenon
        <4> QED
          BY <1>11, <3>1, <4>1, <4>2
      <3> QED
        BY <3>2, <3>3
    <2>2. Len(c) = Len(b)
      BY <1>11, <1>12 DEF k
    <2> QED
      BY <1>11, <1>12, <2>1, <2>2, SameText
  <1> QED
    BY <1>6, <1>9, <1>13 DEF k, y, a, b, c

\* A text is what comes first and what is left.
LEMMA CutAndJoined ==
    ASSUME NEW S, NEW x \in Seq(S), NEW j \in 0..Len(x)
    PROVE  SubSeq(x, 1, j) \o After(x, j) = x
  <1> DEFINE r == After(x, j)
             e == <<>>
  <1>1. r \in Seq(S) /\ Len(r) = Len(x) - j /\ Len(x) \in Nat /\ j \in Nat
    BY RestOfText
  <1>2. j + Len(r) = Len(x) /\ Len(x) \in 0..Len(x) /\ e \in Seq(S)
    BY <1>1
  <1>3. r = r \o e
    BY <1>1, <1>2, JoinedText
  <1> HIDE DEF e
  <1>4. SubSeq(x, 1, j) \o r = SubSeq(x, 1, j + Len(r))
    <2>1. Follow(x, j, r, e)
      BY <1>3, Zenon DEF Follow
    <2> HIDE DEF r
    <2> QED
      BY <1>1, <1>2, <2>1, Forward
  <1>5. SubSeq(x, 1, Len(x)) = x
    BY <1>2, Beginning, Zenon
  <1> QED
    BY <1>2, <1>4, <1>5, Zenon

\* The part of a text from f + 1 to e.
Part(s, f, e) == SubSeq(s, f + 1, e)

\* A window of the text shows the same character as the text, if it shows one.
LEMMA WindowShows ==
    ASSUME NEW s \in Seq(Bytes), NEW e \in 0..Len(s), NEW f \in 0..e, f < e
    PROVE  /\ Part(s, f, e) \in Seq(Bytes) /\ Len(Part(s, f, e)) = e - f /\ Part(s, f, e) # <<>>
           /\ Decode8(Part(s, f, e)).cp # Incomplete => Decode8(After(s, f)) = Decode8(Part(s, f, e))
  <1> DEFINE r == After(s, f)
             b == SubSeq(r, 1, e - f)
  <1>1. f \in Nat /\ e \in Nat /\ Len(s) \in Nat /\ f \in 0..Len(s) /\ e <= Len(s)
    OBVIOUS
  <1>2. Part(s, f, e) = b /\ e - f \in 0..Len(r)
    BY <1>1, WindowBegins DEF Part
  <1>3. r \in Seq(Bytes)
    BY <1>1, RestOfText
  <1> HIDE DEF r
  <1>4. b \in Seq(Bytes) /\ Len(b) = e - f /\ \A i \in 1..Len(b) : b[i] = r[i]
    BY <1>2, <1>3, Beginning
  <1>5. Begins(b, r)
    BY <1>1, <1>2, <1>3, <1>4 DEF Begins
  <1> HIDE DEF b
  <1>6. b # <<>>
    <2> SUFFICES ASSUME b = <<>> PROVE FALSE
      OBVIOUS
    <2>1. Len(b) = 0
      OBVIOUS
    <2> QED
      BY <1>1, <1>4, <2>1
  <1>7. Decode8(b).cp # Incomplete => Decode8(r) = Decode8(b)
    BY <1>3, <1>4, <1>5, <1>6, DecodeMore
  <1> QED
    BY <1>2, <1>4, <1>6, <1>7 DEF r

\* What is left of the job g after n units, converted in one piece.
Left(g, n) == WholeOf[g][n]

LEMMA JobIsFacet ==
    ASSUME NEW g \in Jobs
    PROVE  /\ g.from \in Encodings /\ g.to \in Encodings
           /\ g.text \in Seq(Units(g.from)) /\ Len(g.text) \in Nat
           /\ g.from = 8 => g.to \in {16, 32} /\ g.text \in Seq(Bytes)
           /\ g.from # 8 => g.from \in {16, 32} /\ g.to = 8
  <1>1. <<g.from, g.to>> \in {<<8, 16>>, <<16, 8>>, <<8, 32>>, <<32, 8>>}
        /\ g.text \in Seq(Units(g.from))
    BY FacetAssumption
  <1>2. /\ g.from \in {8, 16, 32} /\ g.to \in {8, 16, 32}
        /\ g.from = 8 => g.to \in {16, 32}
        /\ g.from # 8 => g.from \in {16, 32} /\ g.to = 8
    BY <1>1
  <1>3. Units(8) = Bytes
    BY DEF Units
  <1> QED
    BY <1>1, <1>2, <1>3 DEF Encodings

LEMMA LeftUnfolds ==
    ASSUME NEW g \in Jobs, NEW n \in 0..Len(g.text)
    PROVE  /\ Left(g, n) \in Seq(Units(g.to))
           /\ n = Len(g.text) => Left(g, n) = <<>>
           /\ n < Len(g.text) =>
                LET d == Decode(g.from, After(g.text, n))
                IN /\ n + d.used \in 0..Len(g.text) /\ d.used \in Nat
                   /\ Repaired(d.cp) \in CodePoints
                   /\ Left(g, n) = Encode(g.to, Repaired(d.cp)) \o Left(g, n + d.used)
  <1> DEFINE s == g.text
             w == g.from
             v == g.to
             r == After(s, n)
             d == Decode(w, r)
  <1>1. w \in Encodings /\ v \in Encodings /\ s \in Seq(Units(w)) /\ Len(s) \in Nat
    BY JobIsFacet
  <1>2. \A m \in 0..Len(s) : Left(g, m) = Whole(w, v, After(s, m))
    BY DEF Left, WholeOf
  <1> HIDE DEF s, w, v
  <1>3. r \in Seq(Units(w)) /\ Len(r) = Len(s) - n
        /\ (n < Len(s) => r # <<>>) /\ (n = Len(s) => r = <<>>)
    <2>1. n \in 0..Len(s) /\ s \in Seq(Units(w))
      BY <1>1 DEF s
    <2>2. r \in Seq(Units(w)) /\ Len(r) = Len(s) - n
      BY <2>1, RestOfText
    <2>3. (n < Len(s) => r # <<>>) /\ (n = Len(s) => r = <<>>)
      BY <2>1, RestOfText
    <2> QED
      BY <2>2, <2>3, Zenon
  <1>4. Left(g, n) = Whole(w, v, r)
    BY <1>2, Zenon DEF s
  <1> HIDE DEF r
  <1>5. Left(g, n) \in Seq(Units(v))
    BY <1>1, <1>3, <1>4, WholeType
  <1>6. n = Len(s) => Left(g, n) = <<>>
    BY <1>1, <1>3, <1>4, WholeUnfolds
  <1>7. ASSUME n < Len(s)
        PROVE  /\ n + d.used \in 0..Len(s) /\ d.used \in Nat
               /\ Repaired(d.cp) \in CodePoints
               /\ Left(g, n) = Encode(v, Repaired(d.cp)) \o Left(g, n + d.used)
    <2>1. r # <<>>
      BY <1>3, <1>7
    <2>2. d.cp \in Results /\ d.used \in 1..Len(r)
      BY <1>1, <1>3, <2>1, DecodeProgress
    <2>3. Repaired(d.cp) \in CodePoints
      BY <2>2, RepairedIsCodePoint
    <2>4. Whole(w, v, r) = Encode(v, Repaired(d.cp)) \o Whole(w, v, After(r, d.used))
      BY <1>1, <1>3, <2>1, WholeUnfolds
    <2> DEFINE a == d.used
    <2> HIDE DEF d, a
    <2>5. a \in 1..Len(r)
      BY <2>2 DEF a
    <2>6. n + a \in 0..Len(s) /\ a \in Nat /\ a \in 0..(Len(s) - n) /\ n \in 0..Len(s)
      BY <1>1, <1>3, <2>5 DEF s
    <2>7. After(r, a) = After(s, n + a)
      BY <1>1, <2>6, RestOfRest DEF r
    <2>8. Left(g, n + a) = Whole(w, v, After(s, n + a))
      BY <1>2, <2>6, Zenon
    <2>9. Left(g, n) = Encode(v, Repaired(d.cp)) \o Left(g, n + a)
      BY <1>4, <2>4, <2>7, <2>8, Zenon DEF a
    <2> QED
      BY <2>3, <2>6, <2>9, Zenon DEF a
  <1> QED
    BY <1>5, <1>6, <1>7, Zenon DEF s, w, v, r, d

\* What do_in makes of one character after k units when from_end is e, and where it goes on: a
\* character that is not there to its end yields nothing, and nothing comes after it.
Gets(g, e) ==
    [k \in 0..(e - 1) |->
        LET d == Decode8(Part(g.text, k, e))
        IN IF d.cp = Incomplete THEN <<>> ELSE Encode(g.to, Repaired(d.cp))]
Goes(g, e) ==
    [k \in 0..(e - 1) |->
        LET d == Decode8(Part(g.text, k, e))
        IN IF d.cp = Incomplete THEN e ELSE k + d.used]

\* All that do_in makes of the text between f and e when there is room.
Yield(g, e, f) ==
    LET y[k \in 0..e] == IF k = e THEN <<>> ELSE Gets(g, e)[k] \o y[Goes(g, e)[k]]
    IN y[f]

\* What Gets and Goes are for an f before e.
LEMMA OneRead ==
    ASSUME NEW g \in Jobs, g.from = 8, NEW e \in 0..Len(g.text), NEW f \in 0..e, f < e
    PROVE  LET d == Decode8(Part(g.text, f, e))
           IN /\ d.cp \in Results /\ Repaired(d.cp) \in CodePoints
              /\ f + d.used \in 0..e /\ d.used \in Nat /\ d.used # 0
              /\ Gets(g, e)[f] \in Seq(Units(g.to))
              /\ Goes(g, e)[f] \in (f + 1)..e
              /\ d.cp = Incomplete => Gets(g, e)[f] = <<>> /\ Goes(g, e)[f] = e
              /\ d.cp # Incomplete => /\ Gets(g, e)[f] = Encode(g.to, Repaired(d.cp))
                                      /\ Goes(g, e)[f] = f + d.used
  <1> DEFINE b == Part(g.text, f, e)
             d == Decode8(b)
  <1>1. g.text \in Seq(Bytes) /\ g.to \in Encodings
    BY JobIsFacet
  <1>2. f \in Nat /\ e \in Nat /\ f \in 0..(e - 1)
    OBVIOUS
  <1>3. b \in Seq(Bytes) /\ Len(b) = e - f /\ b # <<>>
    BY <1>1, WindowShows
  <1> HIDE DEF b
  <1>4. d.cp \in Results /\ d.used \in 1..(e - f)
    BY <1>3, Decode8Progress
  <1>5. Repaired(d.cp) \in CodePoints
    BY <1>4, RepairedIsCodePoint
  <1>6. Encode(g.to, Repaired(d.cp)) \in Seq(Units(g.to))
    BY <1>1, <1>5, EncodeHasItsWidth
  <1>7. /\ Gets(g, e)[f] = IF d.cp = Incomplete THEN <<>> ELSE Encode(g.to, Repaired(d.cp))
        /\ Goes(g, e)[f] = IF d.cp = Incomplete THEN e ELSE f + d.used
    BY <1>2, Zenon DEF Gets, Goes, b
  <1> DEFINE u == d.used
             c == d.cp
             E == Encode(g.to, Repaired(c))
  <1>8. u \in Nat /\ u # 0 /\ f + u \in 0..e /\ f + u \in (f + 1)..e /\ e \in (f + 1)..e
    <2>1. u \in 1..(e - f)
      BY <1>4
    <2> HIDE DEF u
    <2> QED
      BY <1>2, <2>1
  <1>9. <<>> \in Seq(Units(g.to))
    OBVIOUS
  <1> HIDE DEF u, c, E, d
  <1>10. /\ Gets(g, e)[f] = IF c = Incomplete THEN <<>> ELSE E
         /\ Goes(g, e)[f] = IF c = Incomplete THEN e ELSE f + u
    BY <1>7, Zenon DEF u, c, E
  <1>11. E \in Seq(Units(g.to)) /\ c \in Results /\ Repaired(c) \in CodePoints
    BY <1>4, <1>5, <1>6, Zenon DEF E, c
  <1>12. /\ Gets(g, e)[f] \in Seq(Units(g.to))
         /\ Goes(g, e)[f] \in (f + 1)..e
         /\ c = Incomplete => Gets(g, e)[f] = <<>> /\ Goes(g, e)[f] = e
         /\ c # Incomplete => Gets(g, e)[f] = E /\ Goes(g, e)[f] = f + u
    <2>1. CASE c = Incomplete
      BY <1>8, <1>9, <1>10, <2>1, Zenon
    <2>2. CASE c # Incomplete
      BY <1>8, <1>10, <1>11, <2>2, Zenon
    <2> QED
      BY <2>1, <2>2, Zenon
  <1> QED
    BY <1>8, <1>11, <1>12, Zenon DEF u, c, E, d, b

\* The recursion in Yield has a solution.
LEMMA YieldIsTable ==
    ASSUME NEW g \in Jobs, g.from = 8, NEW e \in 0..Len(g.text)
    PROVE  \E t : /\ t = Tails(e, Gets(g, e), Goes(g, e), t, 0)
                  /\ \A f \in 0..e : Yield(g, e, f) = t[f]
  <1> DEFINE h == Gets(g, e)
             u == Goes(g, e)
             y(t) == [k \in 0..e |-> IF k = e THEN <<>> ELSE h[k] \o t[u[k]]]
             t == CHOOSE x : x = y(x)
  <1>1. \A x : y(x) = Tails(e, h, u, x, 0)
    BY Zenon DEF Tails
  <1>2. e \in Nat /\ \A k \in 0..(e - 1) : u[k] \in (k + 1)..e
    <2>1. ASSUME NEW k \in 0..(e - 1) PROVE u[k] \in (k + 1)..e
      <3>1. k \in 0..e /\ k < e
        BY <2>1
      <3> QED
        BY <3>1, OneRead
    <2> QED
      BY <2>1
  <1>3. \A f \in 0..e : Yield(g, e, f) = t[f]
    BY DEF Yield
  <1> HIDE DEF h, u
  <1>4. \E x : x = Tails(e, h, u, x, 0)
    BY <1>2, TailsExist
  <1> HIDE DEF y
  <1>5. t = y(t)
    BY <1>1, <1>4, Zenon
  <1>6. t = Tails(e, h, u, t, 0)
    BY <1>1, <1>5, Zenon
  <1> QED
    BY <1>3, <1>6, Zenon DEF h, u

LEMMA YieldUnfolds ==
    ASSUME NEW g \in Jobs, g.from = 8, NEW e \in 0..Len(g.text)
    PROVE  /\ Yield(g, e, e) = <<>>
           /\ \A f \in 0..e : f < e => Yield(g, e, f) = Gets(g, e)[f] \o Yield(g, e, Goes(g, e)[f])
  <1>1. PICK t : /\ t = Tails(e, Gets(g, e), Goes(g, e), t, 0)
                 /\ \A f \in 0..e : Yield(g, e, f) = t[f]
    BY YieldIsTable
  <1> DEFINE h == Gets(g, e)
             u == Goes(g, e)
  <1>2. \A f \in 0..e : t[f] = IF f = e THEN <<>> ELSE h[f] \o t[u[f]]
    BY <1>1, Zenon DEF Tails
  <1>3. e \in 0..e
    OBVIOUS
  <1>4. Yield(g, e, e) = <<>>
    BY <1>1, <1>2, <1>3, Zenon
  <1>5. ASSUME NEW f \in 0..e, f < e PROVE Yield(g, e, f) = h[f] \o Yield(g, e, u[f])
    <2>1. u[f] \in (f + 1)..e
      BY <1>5, OneRead
    <2>2. u[f] \in 0..e /\ f # e
      BY <1>5, <2>1
    <2> QED
      BY <1>1, <1>2, <2>2, Zenon
  <1> QED
    BY <1>4, <1>5, Zenon

LEMMA YieldType ==
    ASSUME NEW g \in Jobs, g.from = 8, NEW e \in 0..Len(g.text), NEW f \in 0..e
    PROVE  Yield(g, e, f) \in Seq(Units(g.to))
  <1> DEFINE S == Seq(Units(g.to))
             T == {j \in 0..e : Yield(g, e, e - j) \notin S}
  <1>1. e \in Nat
    OBVIOUS
  <1> SUFFICES ASSUME Yield(g, e, f) \notin S PROVE FALSE
    OBVIOUS
  <1>2. T # {} /\ T \in SUBSET Nat
    <2>1. e - f \in 0..e /\ e - (e - f) = f
      BY <1>1
    <2>2. e - f \in T
      BY <2>1
    <2>3. T \in SUBSET Nat
      BY <1>1
    <2> HIDE DEF T
    <2> QED
      BY <2>2, <2>3
  <1>3. PICK j \in T : \A y \in T : j <= y
    BY <1>2, LeastNumber
  <1> DEFINE k == e - j
             h == Gets(g, e)[k]
             n == Goes(g, e)[k]
  <1>4. k \in 0..e /\ Yield(g, e, k) \notin S /\ j \in Nat
    BY <1>1, <1>3
  <1>5. k # e
    <2>1. <<>> \in S
      OBVIOUS
    <2> HIDE DEF S, k
    <2> QED
      BY <1>4, <2>1, YieldUnfolds
  <1>6. k < e
    BY <1>1, <1>4, <1>5
  <1>7. h \in S /\ n \in (k + 1)..e
    <2> HIDE DEF k
    <2> QED
      BY <1>4, <1>6, OneRead
  <1>8. Yield(g, e, k) = h \o Yield(g, e, n)
    <2> HIDE DEF k
    <2> QED
      BY <1>4, <1>6, YieldUnfolds
  <1> HIDE DEF h, n
  <1>9. Yield(g, e, n) \in S
    <2>1. e - n \in 0..e /\ e - n < j /\ e - (e - n) = n
      BY <1>1, <1>4, <1>7
    <2>2. e - n \notin T
      BY <1>3, <2>1
    <2> QED
      BY <2>1, <2>2
  <1> HIDE DEF k
  <1> QED
    BY <1>4, <1>7, <1>8, <1>9, JoinedText

\* What is not yet written when f units of the job g have been read and x is in the state.
ToCome(g, f, x) ==
    IF x = 0 THEN Left(g, f)
    ELSE IF g.from = 8 THEN <<x>> \o Left(g, f)
    ELSE Left(g, f - 1)

\* That is so after j units have been written.
Place(g, j, f, x) == j \in 0..Len(Left(g, 0)) /\ After(Left(g, 0), j) = ToCome(g, f, x)

\* What is written is how the job's text converted in one piece begins.
Prefix(g, o) == Len(o) \in 0..Len(Left(g, 0)) /\ SubSeq(Left(g, 0), 1, Len(o)) = o

LEMMA AllOfJob ==
    ASSUME NEW g \in Jobs
    PROVE  Left(g, 0) \in Seq(Units(g.to)) /\ Len(Left(g, 0)) \in Nat
  <1>1. 0 \in 0..Len(g.text)
    BY JobIsFacet
  <1>2. Left(g, 0) \in Seq(Units(g.to))
    BY <1>1, LeftUnfolds
  <1> QED
    BY <1>2, JoinedText

\* With e written, h units read and y in the state.
Comes(g, f, x, e, h, y) == ToCome(g, f, x) = e \o ToCome(g, h, y)

\* Writing what comes next.
LEMMA PlaceMoves ==
    ASSUME NEW g \in Jobs, NEW j, NEW f, NEW x, Place(g, j, f, x),
           NEW e \in Seq(Units(g.to)), NEW h, NEW y, ToCome(g, h, y) \in Seq(Units(g.to)),
           Comes(g, f, x, e, h, y)
    PROVE  Place(g, j + Len(e), h, y) /\ SubSeq(Left(g, 0), 1, j) \o e = SubSeq(Left(g, 0), 1, j + Len(e))
  <1> DEFINE a == Left(g, 0)
             r == ToCome(g, h, y)
             S == Units(g.to)
  <1>1. a \in Seq(S) /\ j \in 0..Len(a)
    BY AllOfJob DEF Place
  <1>2. Follow(a, j, e, r)
    BY Zenon DEF Place, Follow, Comes
  <1> HIDE DEF a, r, S
  <1>3. e \in Seq(S) /\ r \in Seq(S)
    BY Zenon DEF r, S
  <1>4. j + Len(e) \in 0..Len(a) /\ After(a, j + Len(e)) = r /\ SubSeq(a, 1, j) \o e = SubSeq(a, 1, j + Len(e))
    BY <1>1, <1>2, <1>3, Forward
  <1> QED
    BY <1>4, Zenon DEF a, r, Place

LEMMA WriteMoves ==
    ASSUME NEW g \in Jobs, NEW o \in Seq(Units(g.to)), NEW f, NEW x,
           Prefix(g, o), Place(g, Len(o), f, x),
           NEW e \in Seq(Units(g.to)), NEW h, NEW y, ToCome(g, h, y) \in Seq(Units(g.to)),
           Comes(g, f, x, e, h, y)
    PROVE  Prefix(g, o \o e) /\ Place(g, Len(o \o e), h, y) /\ Len(o \o e) = Len(o) + Len(e)
  <1> DEFINE a == Left(g, 0)
             j == Len(o)
  <1>1. Place(g, j + Len(e), h, y) /\ SubSeq(a, 1, j) \o e = SubSeq(a, 1, j + Len(e))
    <2> HIDE DEF a
    <2>1. Place(g, j, f, x)
      OBVIOUS
    <2> HIDE DEF j
    <2> QED
      BY <2>1, PlaceMoves DEF a
  <1>2. Len(o \o e) = j + Len(e)
    BY JoinedText
  <1>3. SubSeq(a, 1, j) = o
    BY Zenon DEF Prefix
  <1>4. j + Len(e) \in 0..Len(a)
    BY <1>1, Zenon DEF Place
  <1> HIDE DEF a, j
  <1>5. o \o e = SubSeq(a, 1, j + Len(e))
    BY <1>1, <1>3, Zenon
  <1> QED
    BY <1>1, <1>2, <1>4, <1>5, Zenon DEF Prefix, a, j

LEMMA ToComeType ==
    ASSUME NEW g \in Jobs, NEW f \in 0..Len(g.text), NEW x,
           x # 0 => IF g.from = 8 THEN x \in Units(g.to) ELSE f # 0
    PROVE  ToCome(g, f, x) \in Seq(Units(g.to))
  <1>1. \A n \in 0..Len(g.text) : Left(g, n) \in Seq(Units(g.to))
    BY LeftUnfolds
  <1>2. CASE x = 0
    BY <1>1, <1>2, Zenon DEF ToCome
  <1>3. CASE x # 0 /\ g.from = 8
    <2> DEFINE l == Left(g, f)
    <2>1. l \in Seq(Units(g.to)) /\ <<x>> \in Seq(Units(g.to))
      BY <1>1, <1>3
    <2> HIDE DEF l
    <2>2. <<x>> \o l \in Seq(Units(g.to))
      BY <2>1, JoinedText
    <2> QED
      BY <1>3, <2>2, Zenon DEF ToCome, l
  <1>4. CASE x # 0 /\ g.from # 8
    <2>1. f - 1 \in 0..Len(g.text)
      BY <1>4, JobIsFacet
    <2> QED
      BY <1>1, <1>4, <2>1, Zenon DEF ToCome
  <1> QED
    BY <1>2, <1>3, <1>4

\* do_in writes the half that waited.
LEMMA ToComeOfHalf ==
    ASSUME NEW g \in Jobs, g.from = 8, NEW f, NEW x, x # 0
    PROVE  Comes(g, f, x, <<x>>, f, 0)
  BY Zenon DEF ToCome, Comes

\* do_in reads a character.
LEMMA ToComeIn ==
    ASSUME NEW g \in Jobs, g.from = 8, NEW e \in 0..Len(g.text), NEW f \in 0..e, f < e,
           Decode8(Part(g.text, f, e)).cp # Incomplete
    PROVE  LET d == Decode8(Part(g.text, f, e))
           IN Comes(g, f, 0, Encode(g.to, Repaired(d.cp)), f + d.used, 0)
  <1> DEFINE s == g.text
             p == Decode8(Part(s, f, e))
             d == Decode(g.from, After(s, f))
  <1>1. s \in Seq(Bytes) /\ Len(s) \in Nat
    BY JobIsFacet
  <1>2. Decode8(After(s, f)) = p
    BY <1>1, WindowShows
  <1>3. d = p
    BY <1>2 DEF Decode
  <1>4. f \in 0..Len(s) /\ f < Len(s)
    BY <1>1
  <1> HIDE DEF p
  <1>5. Left(g, f) = Encode(g.to, Repaired(d.cp)) \o Left(g, f + d.used)
    BY <1>4, LeftUnfolds
  <1> HIDE DEF d
  <1> QED
    BY <1>3, <1>5, Zenon DEF ToCome, Comes, p

\* do_in reads a character and writes the first half of a pair.
LEMMA ToComeInHalf ==
    ASSUME NEW g \in Jobs, g.from = 8, g.to = 16, NEW e \in 0..Len(g.text), NEW f \in 0..e, f < e,
           Decode8(Part(g.text, f, e)).cp # Incomplete,
           Len(Encode16(Repaired(Decode8(Part(g.text, f, e)).cp))) > 1
    PROVE  LET d == Decode8(Part(g.text, f, e))
               u == Encode16(Repaired(d.cp))
           IN Comes(g, f, 0, <<u[1]>>, f + d.used, u[2])
  <1> DEFINE d == Decode8(Part(g.text, f, e))
             c == Repaired(d.cp)
             u == Encode16(c)
             l == Left(g, f + d.used)
  <1>1. c \in CodePoints /\ f + d.used \in 0..e
    BY OneRead
  <1>2. f + d.used \in 0..Len(g.text)
    BY <1>1, JobIsFacet
  <1>3. l \in Seq(Units16)
    BY <1>2, LeftUnfolds DEF Units
  <1>4. /\ Len(u) = 2 /\ u[1] \in Units16 /\ u[2] \in Units16 /\ u[2] # 0
        /\ u \in Seq(Units16)
    <2> HIDE DEF c
    <2>1. Len(u) = 2 /\ u[1] \in Units16 /\ u[2] # 0 /\ u \in Seq(Units16)
      BY <1>1, PairHalves, Encode16Units DEF c
    <2> HIDE DEF u
    <2>2. u[2] \in Units16
      <3>1. 2 \in 1..Len(u)
        BY <2>1
      <3> QED
        BY <2>1, <3>1, UnitOfText
    <2> QED
      BY <2>1, <2>2
  <1>5. ToCome(g, f, 0) = u \o Left(g, f + d.used)
    <2>1. Comes(g, f, 0, Encode(g.to, c), f + d.used, 0)
      BY ToComeIn
    <2>2. Encode(g.to, c) = u
      BY DEF Encode
    <2> HIDE DEF d, c, u
    <2> QED
      BY <2>1, <2>2, Zenon DEF ToCome, Comes
  <1> HIDE DEF u
  <1>6. u = <<u[1]>> \o <<u[2]>>
    BY <1>4
  <1>7. <<u[1]>> \in Seq(Units16) /\ <<u[2]>> \in Seq(Units16)
    BY <1>4
  <1> DEFINE a == <<u[1]>>
             b == <<u[2]>>
  <1> HIDE DEF a, b, l
  <1>8. (a \o b) \o l = a \o (b \o l)
    BY <1>3, <1>7, JoinAssociates DEF a, b
  <1>9. ToCome(g, f + d.used, u[2]) = b \o l
    BY <1>4, Zenon DEF ToCome, b, l
  <1>10. ToCome(g, f, 0) = a \o ToCome(g, f + d.used, u[2])
    <2>1. u = a \o b
      BY <1>6, Zenon DEF a, b
    <2> HIDE DEF d
    <2> QED
      BY <1>5, <1>8, <1>9, <2>1, Zenon DEF l
  <1> QED
    BY <1>10, Zenon DEF a, u, c, Comes

LEMMA RestStarts ==
    ASSUME NEW S, NEW s \in Seq(S), NEW f \in 0..Len(s), f < Len(s)
    PROVE  /\ After(s, f) \in Seq(S) /\ After(s, f) # <<>> /\ Len(After(s, f)) = Len(s) - f
           /\ After(s, f)[1] = s[f + 1] /\ s[f + 1] \in S
           /\ f + 1 < Len(s) => After(s, f)[2] = s[f + 2]
           /\ f + 1 \in 0..Len(s)
  <1>1. f \in Nat /\ Len(s) \in Nat /\ 1 \in 1..(Len(s) - f) /\ f + 1 \in 1..Len(s)
        /\ (f + 1 < Len(s) => 2 \in 1..(Len(s) - f))
    OBVIOUS
  <1> DEFINE r == After(s, f)
  <1>2. r \in Seq(S) /\ Len(r) = Len(s) - f /\ \A i \in 1..(Len(s) - f) : r[i] = s[f + i]
    BY RestOfText
  <1>3. r # <<>>
    BY RestOfText
  <1>4. s[f + 1] \in S
    BY <1>1, UnitOfText
  <1> HIDE DEF r
  <1> QED
    BY <1>1, <1>2, <1>3, <1>4 DEF r

\* do_out reads the first half of a pair and writes nothing.
LEMMA ToComeOutHigh ==
    ASSUME NEW g \in Jobs, g.from # 8, NEW f \in Nat, NEW x, x # 0
    PROVE  ToCome(g, f + 1, x) = ToCome(g, f, 0)
  <1>1. (f + 1) - 1 = f
    OBVIOUS
  <1> QED
    BY <1>1, Zenon DEF ToCome

\* do_out reads a character of n units, of which all but the last one are in the state.
LEMMA ToComeOut ==
    ASSUME NEW g \in Jobs, g.from # 8, NEW f \in 0..Len(g.text), f < Len(g.text),
           NEW c, NEW n \in {1, 2}, Decode(g.from, After(g.text, f)).used = n,
           Repaired(Decode(g.from, After(g.text, f)).cp) = c
    PROVE  f + n \in 0..Len(g.text) /\ Left(g, f) = Encode8(c) \o Left(g, f + n) /\ c \in CodePoints
  <1> DEFINE d == Decode(g.from, After(g.text, f))
  <1>1. /\ f + d.used \in 0..Len(g.text) /\ Repaired(d.cp) \in CodePoints
        /\ Left(g, f) = Encode(g.to, Repaired(d.cp)) \o Left(g, f + d.used)
    BY LeftUnfolds
  <1>2. g.to = 8
    BY JobIsFacet
  <1>3. Encode(g.to, c) = Encode8(c)
    BY <1>2 DEF Encode
  <1>4. d.used = n /\ Repaired(d.cp) = c
    OBVIOUS
  <1> HIDE DEF d
  <1> QED
    BY <1>1, <1>3, <1>4, Zenon

\* What do_out makes of a unit of UTF-16 when there is no half in the state.
LEMMA ToComeOut16 ==
    ASSUME NEW g \in Jobs, g.from = 16, NEW f \in 0..Len(g.text), f < Len(g.text),
           ~IsFirstSurrogate(g.text[f + 1])
    PROVE  LET w == g.text[f + 1]
               c == IF IsSingleCodepoint(w) THEN w ELSE Replacement
           IN Comes(g, f, 0, Encode8(c), f + 1, 0) /\ c \in CodePoints
  <1> DEFINE w == g.text[f + 1]
             c == IF IsSingleCodepoint(w) THEN w ELSE Replacement
             r == After(g.text, f)
             d == Decode(g.from, r)
  <1>1. g.text \in Seq(Units16)
    BY JobIsFacet DEF Units
  <1>2. r \in Seq(Units16) /\ r # <<>> /\ r[1] = w /\ w \in Units16
    BY <1>1, RestStarts
  <1> HIDE DEF r
  <1>3. d = Decode16(r)
    BY DEF Decode
  <1>4. d = IF IsSingleCodepoint(w) THEN Decoded(w, 1) ELSE Decoded(Illegal, 1)
    <2>1. CASE IsSingleCodepoint(w)
      <3>1. ~IsSecondSurrogate(w) /\ ~IsFirstSurrogate(w)
        BY <1>2, <2>1 DEF IsSecondSurrogate, IsFirstSurrogate, IsSingleCodepoint, Units16
      <3> QED
        BY <1>2, <1>3, <2>1, <3>1 DEF Decode16
    <2>2. CASE ~IsSingleCodepoint(w)
      <3>1. IsSecondSurrogate(w) /\ ~IsFirstSurrogate(w)
        BY <1>2, <2>2 DEF IsSecondSurrogate, IsFirstSurrogate, IsSingleCodepoint, Units16
      <3> QED
        BY <1>2, <1>3, <2>2, <3>1 DEF Decode16
    <2> QED
      BY <2>1, <2>2
  <1>5. d.used = 1 /\ Repaired(d.cp) = c
    <2>1. CASE IsSingleCodepoint(w)
      <3>1. w \notin {Illegal, Incomplete}
        BY <1>2 DEF Units16, Illegal, Incomplete
      <3> QED
        BY <1>4, <2>1, <3>1, DecodedFields DEF Repaired
    <2>2. CASE ~IsSingleCodepoint(w)
      BY <1>4, <2>2, DecodedFields DEF Repaired
    <2> QED
      BY <2>1, <2>2
  <1> HIDE DEF w, c
  <1>6. Left(g, f) = Encode8(c) \o Left(g, f + 1) /\ c \in CodePoints
    <2>1. 1 \in {1, 2} /\ g.from # 8
      OBVIOUS
    <2>2. Decode(g.from, After(g.text, f)).used = 1 /\ Repaired(Decode(g.from, After(g.text, f)).cp) = c
      BY <1>5, Zenon DEF r
    <2> HIDE DEF d
    <2> QED
      BY <2>1, <2>2, ToComeOut
  <1> QED
    BY <1>6, Zenon DEF Comes, ToCome, w, c

\* What do_out makes of the unit after a first half.
LEMMA ToComeOutPair ==
    ASSUME NEW g \in Jobs, g.from = 16, NEW f \in 1..Len(g.text), f < Len(g.text),
           IsFirstSurrogate(g.text[f])
    PROVE  LET w == g.text[f + 1]
               x == g.text[f]
               c == IF IsSecondSurrogate(w) THEN CombineSurrogate(x, w) ELSE Replacement
           IN Comes(g, f, x, Encode8(c), f + 1, 0) /\ c \in CodePoints
  <1> DEFINE w == g.text[f + 1]
             x == g.text[f]
             c == IF IsSecondSurrogate(w) THEN CombineSurrogate(x, w) ELSE Replacement
             h == f - 1
             r == After(g.text, h)
             d == Decode(g.from, r)
  <1>1. g.text \in Seq(Units16)
    BY JobIsFacet DEF Units
  <1>2. h \in 0..Len(g.text) /\ h < Len(g.text) /\ h + 1 < Len(g.text) /\ h + 1 = f /\ h + 2 = f + 1
        /\ g.from # 8
    BY <1>1
  <1>3. r \in Seq(Units16) /\ r # <<>> /\ r[1] = x /\ r[2] = w /\ x \in Units16 /\ Len(r) >= 2
    <2> HIDE DEF h, r
    <2>1. r \in Seq(Units16) /\ r # <<>> /\ Len(r) = Len(g.text) - h
      BY <1>1, <1>2, RestStarts DEF r
    <2>2. r[1] = g.text[h + 1] /\ g.text[h + 1] \in Units16
      BY <1>1, <1>2, RestStarts DEF r
    <2>3. r[2] = g.text[h + 2]
      BY <1>1, <1>2, RestStarts DEF r
    <2>4. Len(g.text) - h >= 2
      BY <1>1, <1>2
    <2> QED
      BY <1>2, <2>1, <2>2, <2>3, <2>4, Zenon
  <1>4. w \in Units16
    <2>1. f \in 0..Len(g.text)
      OBVIOUS
    <2> QED
      BY <1>1, <2>1, RestStarts
  <1> HIDE DEF r
  <1>5. d = Decode16(r)
    BY DEF Decode
  <1>6. ~IsSingleCodepoint(x) /\ ~IsSecondSurrogate(x) /\ IsFirstSurrogate(x) /\ x # 0
    <2> HIDE DEF w
    <2>1. x \in Units16 /\ IsFirstSurrogate(x)
      BY <1>3, Zenon
    <2> HIDE DEF x
    <2> QED
      BY <2>1 DEF IsSecondSurrogate, IsFirstSurrogate, IsSingleCodepoint, Units16
  <1>7. d = IF IsSecondSurrogate(w) THEN Decoded(CombineSurrogate(x, w), 2) ELSE Decoded(Illegal, 2)
    <2> HIDE DEF x, w
    <2>1. Len(r) # 1
      BY <1>3
    <2> QED
      BY <1>3, <1>5, <1>6, <2>1 DEF Decode16
  <1>8. d.used = 2 /\ Repaired(d.cp) = c
    <2>1. CASE IsSecondSurrogate(w)
      <3>1. CombineSurrogate(x, w) \in CodePoints
        <4>1. x \in Nat /\ w \in Nat
          BY <1>3, <1>4 DEF Units16
        <4> QED
          BY <4>1, SurrogatesCombine
      <3>2. CombineSurrogate(x, w) \notin {Illegal, Incomplete}
        BY <3>1, NoSpecialResult
      <3> QED
        BY <1>7, <2>1, <3>2, DecodedFields DEF Repaired
    <2>2. CASE ~IsSecondSurrogate(w)
      BY <1>7, <2>2, DecodedFields DEF Repaired
    <2> QED
      BY <2>1, <2>2
  <1> HIDE DEF w, c, h, d
  <1>9. Left(g, h) = Encode8(c) \o Left(g, h + 2) /\ c \in CodePoints
    <2>1. 2 \in {1, 2} /\ g.from # 8
      OBVIOUS
    <2>2. Decode(g.from, After(g.text, h)).used = 2 /\ Repaired(Decode(g.from, After(g.text, h)).cp) = c
      BY <1>8, Zenon DEF r, d
    <2> QED
      BY <1>2, <2>1, <2>2, ToComeOut
  <1>10. ToCome(g, f, x) = Left(g, h) /\ ToCome(g, f + 1, 0) = Left(g, h + 2)
    <2>1. ToCome(g, f, x) = Left(g, f - 1)
      BY <1>2, <1>6, Zenon DEF ToCome
    <2> QED
      BY <1>2, <2>1, Zenon DEF ToCome, h
  <1> QED
    BY <1>9, <1>10, Zenon DEF Comes, w, c

LEMMA ToComeOut32 ==
    ASSUME NEW g \in Jobs, g.from = 32, NEW f \in 0..Len(g.text), f < Len(g.text)
    PROVE  LET w == g.text[f + 1]
               c == IF IsValidCodepoint(w) THEN w ELSE Replacement
           IN Comes(g, f, 0, Encode8(c), f + 1, 0) /\ c \in CodePoints
  <1> DEFINE w == g.text[f + 1]
             c == IF IsValidCodepoint(w) THEN w ELSE Replacement
             r == After(g.text, f)
             d == Decode(g.from, r)
  <1>1. g.text \in Seq(Nat)
    BY JobIsFacet DEF Units
  <1>2. r \in Seq(Nat) /\ r # <<>> /\ r[1] = w /\ w \in Nat
    BY <1>1, RestStarts
  <1> HIDE DEF r
  <1>3. d = Decode32(r)
    BY DEF Decode
  <1>4. d = IF IsValidCodepoint(w) THEN Decoded(w, 1) ELSE Decoded(Illegal, 1)
    BY <1>2, <1>3 DEF Decode32
  <1>5. d.used = 1 /\ Repaired(d.cp) = c
    <2>1. CASE IsValidCodepoint(w)
      <3>1. w \notin {Illegal, Incomplete}
        BY <1>2 DEF Illegal, Incomplete
      <3> QED
        BY <1>4, <2>1, <3>1, DecodedFields DEF Repaired
    <2>2. CASE ~IsValidCodepoint(w)
      BY <1>4, <2>2, DecodedFields DEF Repaired
    <2> QED
      BY <2>1, <2>2
  <1> HIDE DEF w, c
  <1>6. Left(g, f) = Encode8(c) \o Left(g, f + 1) /\ c \in CodePoints
    <2>1. 1 \in {1, 2} /\ g.from # 8
      OBVIOUS
    <2>2. Decode(g.from, After(g.text, f)).used = 1 /\ Repaired(Decode(g.from, After(g.text, f)).cp) = c
      BY <1>5, Zenon DEF r
    <2> HIDE DEF d
    <2> QED
      BY <2>1, <2>2, ToComeOut
  <1> QED
    BY <1>6, Zenon DEF Comes, ToCome, w, c

\* The units in the state that are yet to be written.
Half(x) == IF x = 0 THEN 0 ELSE 1

\* Where the last call of do_in began.
Marked(g, e, o, mk) == Place(g, mk.out, mk.from, mk.state) /\ mk.out <= Len(o) /\ mk.from <= e

\* What do_in has written since then and what it has before it.
Counts(g, e, o, f, x, mk) ==
    /\ f <= e
    /\ Len(o) + Half(x) + Len(Yield(g, e, f)) = mk.out + Half(mk.state) + Len(Yield(g, e, mk.from))

\* do_length is k units before the end of what is written, and k are to be had.
Measures(g, e, o, f, x, k) ==
    /\ f <= e /\ k <= Len(o) /\ k <= Len(Yield(g, e, f))
    /\ Place(g, Len(o) - k, f, x)
    /\ x # 0 => k = 0

\* The strengthening: what is written is the beginning of the whole, and the caller, the mark and the
\* walk of do_length each stand at a place in it; the walk of do_length ends where do_in did.
Pieces ==
    /\ Prefix(given, out)
    /\ at # "length" => Place(given, Len(out), from, state)
    /\ at = "length" => Measures(given, end, out, from, state, room)
    /\ Inward => Marked(given, end, out, mark)
    /\ Inward /\ (at \in {"loop", "stop"} \/ (at = "idle" /\ result # "none")) =>
         Counts(given, end, out, from, state, mark)
    /\ Inward /\ at = "loop" => (state = 0 \/ room = 0)
    /\ ~Inward /\ state # 0 => from \in 1..Len(given.text) /\ state = given.text[from]
    /\ at = "idle" /\ result = "ok" => from = end /\ state = 0

LEMMA InitPieces == Init => Pieces
  <1> SUFFICES ASSUME Init PROVE Pieces
    OBVIOUS
  <1>1. /\ given \in Jobs /\ from = 0 /\ end = 0 /\ out = <<>> /\ state = 0 /\ at = "idle"
        /\ result = "none" /\ mark.from = 0 /\ mark.state = 0 /\ mark.out = 0
    BY DEF Init
  <1> DEFINE a == Left(given, 0)
  <1>2. a \in Seq(Units(given.to)) /\ Len(a) \in Nat
    BY <1>1, AllOfJob
  <1> HIDE DEF a
  <1>3. 0 \in 0..Len(a) /\ After(a, 0) = a
    BY <1>2, RestOfText
  <1>4. SubSeq(a, 1, 0) = <<>> /\ Len(<<>>) = 0
    OBVIOUS
  <1>5. Place(given, 0, 0, 0)
    BY <1>3, Zenon DEF Place, ToCome, a
  <1>6. Prefix(given, <<>>)
    BY <1>3, <1>4, Zenon DEF Prefix, a
  <1>7. Marked(given, end, out, mark)
    BY <1>1, <1>4, <1>5 DEF Marked
  <1> QED
    BY <1>1, <1>4, <1>5, <1>6, <1>7 DEF Pieces

\* The types that the steps need.
LEMMA Typed ==
    ASSUME IInv
    PROVE  /\ given \in Jobs /\ from \in 0..Len(given.text) /\ end \in 0..Len(given.text)
           /\ room \in Nat /\ out \in Seq(Units(given.to)) /\ Len(out) \in Nat /\ state \in Nat
           /\ Inward /\ state # 0 => given.to = 16 /\ state \in Units(given.to)
           /\ ~Inward /\ state # 0 => given.from = 16 /\ IsFirstSurrogate(state)
           /\ Inward /\ mark.state # 0 => mark.state \in Units(given.to)
           /\ mark.from \in 0..Len(given.text) /\ mark.state \in Nat /\ mark.out \in Nat
           /\ at \in {"loop", "stop"} => from <= end
           /\ at \in {"length", "measured"} => Inward
           /\ Inward <=> given.from = 8
           /\ Len(given.text) \in Nat
  <1>1. TypeOK /\ InsideBuffers /\ MarkHolds /\ given \in Jobs /\ mark \in Mark
    BY DEF IInv, TypeOK
  <1>2. Holds(state) /\ Holds(mark.state)
    BY <1>1, StateHolds DEF MarkHolds
  <1>3. \A x \in Nat : IsSecondSurrogate(x) => x \in Units(16)
    BY DEF Units, Units16, IsSecondSurrogate
  <1>4. Inward => CharSize = given.to
    BY DEF CharSize
  <1>5. ~Inward => CharSize = given.from
    BY DEF CharSize
  <1>6. \A x : Inward /\ Holds(x) /\ x # 0 => given.to = 16 /\ x \in Units(given.to)
    BY <1>3, <1>4, Zenon DEF Holds
  <1>7. \A x : ~Inward /\ Holds(x) /\ x # 0 => given.from = 16 /\ IsFirstSurrogate(x)
    BY <1>5, Zenon DEF Holds
  <1>8. Len(out) \in Nat /\ Len(given.text) \in Nat
    BY <1>1, JobIsFacet DEF TypeOK
  <1> QED
    BY <1>1, <1>2, <1>6, <1>7, <1>8 DEF TypeOK, InsideBuffers, MarkHolds, Holds, Mark, Inward

\* A step of do_in that writes e.
LEMMA InMoves ==
    ASSUME IInv, Pieces, Inward, at = "loop", state = 0, UNCHANGED <<given, end, mark, rewinds, result>>,
           NEW e \in Seq(Units(given.to)), out' = out \o e,
           from' \in 0..Len(given.text), from' <= end,
           Comes(given, from, 0, e, from', state'),
           at' \in {"loop", "stop"}, at' = "loop" => state' = 0,
           state' # 0 => state' \in Units(given.to),
           Len(e) + Half(state') + Len(Yield(given, end, from')) = Len(Yield(given, end, from))
    PROVE  Pieces'
  <1>1. /\ given \in Jobs /\ out \in Seq(Units(given.to)) /\ Len(out) \in Nat /\ given.from = 8
        /\ mark.out \in Nat
    BY Typed
  <1>2. Prefix(given, out) /\ Place(given, Len(out), from, 0) /\ Marked(given, end, out, mark)
        /\ Counts(given, end, out, from, state, mark)
    BY DEF Pieces
  <1>3. ToCome(given, from', state') \in Seq(Units(given.to))
    BY <1>1, ToComeType
  <1>4. /\ Prefix(given, out') /\ Place(given, Len(out'), from', state')
        /\ Len(out') = Len(out) + Len(e)
    BY <1>1, <1>2, <1>3, WriteMoves
  <1>5. Len(e) \in Nat
    OBVIOUS
  <1>6. Marked(given, end, out', mark)
    BY <1>1, <1>2, <1>4, <1>5 DEF Marked
  <1>7. Counts(given, end, out', from', state', mark)
    <2> DEFINE y == Len(Yield(given, end, from))
               z == Len(Yield(given, end, from'))
               p == mark.out + Half(mark.state) + Len(Yield(given, end, mark.from))
    <2>1. Len(out) + Half(state) + y = p /\ Half(state) = 0
      BY <1>2, Zenon DEF Counts, Half
    <2>2. Half(state') \in Nat
      BY DEF Half
    <2>3. y \in Nat /\ z \in Nat
      <3>1. from \in 0..end /\ from' \in 0..end /\ end \in 0..Len(given.text)
        BY Typed
      <3> QED
        BY <1>1, <3>1, YieldType
    <2>4. Len(e) + Half(state') + z = y
      OBVIOUS
    <2> HIDE DEF y, z, p
    <2>5. Len(out') + Half(state') + z = p
      BY <1>1, <1>4, <1>5, <2>1, <2>2, <2>3, <2>4
    <2> QED
      BY <2>5, Zenon DEF Counts, y, z, p
  <1>8. given' = given /\ end' = end /\ mark' = mark /\ at' # "idle" /\ at' # "length"
    OBVIOUS
  <1>9. Inward' /\ Prefix(given, out)' /\ Place(given, Len(out), from, state)'
        /\ Marked(given, end, out, mark)' /\ Counts(given, end, out, from, state, mark)'
    BY <1>4, <1>6, <1>7, <1>8 DEF Inward
  <1> QED
    BY <1>8, <1>9 DEF Pieces

LEMMA OutMoves ==
    ASSUME IInv, Pieces, ~Inward, at = "loop", UNCHANGED <<given, end, mark, rewinds, result, at>>,
           NEW e \in Seq(Units(given.to)), out' = out \o e,
           from' \in 0..Len(given.text), state' = 0,
           Comes(given, from, state, e, from', 0)
    PROVE  Pieces'
  <1>1. given \in Jobs /\ out \in Seq(Units(given.to))
    BY Typed
  <1>2. Prefix(given, out) /\ Place(given, Len(out), from, state)
    BY DEF Pieces
  <1>3. ToCome(given, from', 0) \in Seq(Units(given.to))
    BY <1>1, ToComeType
  <1>4. Prefix(given, out') /\ Place(given, Len(out'), from', 0)
    BY <1>1, <1>2, <1>3, WriteMoves
  <1>5. ~Inward' /\ Prefix(given, out)' /\ Place(given, Len(out), from, state)'
    BY <1>4 DEF Inward
  <1> QED
    BY <1>5 DEF Pieces

\* A step that writes and reads nothing in the loop.
LEMMA Stops ==
    ASSUME IInv, Pieces, at \in {"loop", "stop"}, UNCHANGED <<given, end, mark, from, out, state>>,
           at' \in {"stop", "idle"}, at' = "idle" /\ result' = "ok" => from = end /\ state = 0
    PROVE  Pieces'
  <1>1. Prefix(given, out) /\ Place(given, Len(out), from, state)
        /\ (Inward => Marked(given, end, out, mark) /\ Counts(given, end, out, from, state, mark))
        /\ (~Inward /\ state # 0 => from \in 1..Len(given.text) /\ state = given.text[from])
    BY DEF Pieces
  <1>2. Prefix(given, out)' /\ Place(given, Len(out), from, state)' /\ Inward' = Inward
        /\ (Inward => Marked(given, end, out, mark)' /\ Counts(given, end, out, from, state, mark)')
    BY <1>1 DEF Inward
  <1> QED
    BY <1>1, <1>2 DEF Pieces

\* The window of a step in the loops.
LEMMA WindowIsPart == Window = Part(given.text, from, end)
  BY DEF Window, Part

\* What a round of do_in or do_length reads.
LEMMA InReads ==
    ASSUME IInv, Inward, from < end, Decode8(Window).cp # Incomplete
    PROVE  LET d == Decode8(Window)
               E == Encode(given.to, Repaired(d.cp))
           IN /\ Repaired(d.cp) \in CodePoints
              /\ from + d.used \in 0..Len(given.text) /\ from + d.used <= end
              /\ E \in Seq(Units(given.to)) /\ Len(E) \in Nat
              /\ Comes(given, from, 0, E, from + d.used, 0)
              /\ Yield(given, end, from) = E \o Yield(given, end, from + d.used)
              /\ Len(Yield(given, end, from)) = Len(E) + Len(Yield(given, end, from + d.used))
              /\ Len(Yield(given, end, from + d.used)) \in Nat
  <1>1. /\ given \in Jobs /\ given.from = 8 /\ end \in 0..Len(given.text) /\ from \in 0..end
        /\ Len(given.text) \in Nat /\ end \in 0..end
    BY Typed
  <1> DEFINE d == Decode8(Part(given.text, from, end))
             E == Encode(given.to, Repaired(d.cp))
             n == from + d.used
  <1>2. d.cp # Incomplete
    BY WindowIsPart
  <1>3. /\ Repaired(d.cp) \in CodePoints /\ n \in 0..end
        /\ Gets(given, end)[from] = E /\ Goes(given, end)[from] = n
        /\ Gets(given, end)[from] \in Seq(Units(given.to))
    BY <1>1, <1>2, OneRead
  <1>4. Comes(given, from, 0, E, n, 0)
    BY <1>1, <1>2, ToComeIn
  <1> HIDE DEF E, n, d
  <1>5. Yield(given, end, from) = E \o Yield(given, end, n)
    <2>1. Yield(given, end, from) = Gets(given, end)[from] \o Yield(given, end, Goes(given, end)[from])
      BY <1>1, YieldUnfolds
    <2> QED
      BY <1>3, <2>1, Zenon
  <1>6. n \in 0..Len(given.text) /\ n <= end
    BY <1>1, <1>3
  <1>7. E \in Seq(Units(given.to))
    BY <1>3, Zenon
  <1>8. Yield(given, end, n) \in Seq(Units(given.to))
    BY <1>1, <1>3, YieldType
  <1>9. /\ Len(E \o Yield(given, end, n)) = Len(E) + Len(Yield(given, end, n))
        /\ Len(E) \in Nat /\ Len(Yield(given, end, n)) \in Nat
    BY <1>7, <1>8, JoinedText
  <1> QED
    BY <1>3, <1>4, <1>5, <1>6, <1>7, <1>9, WindowIsPart, Zenon DEF E, n, d

LEMMA InHalves ==
    ASSUME IInv, Inward, CharSize = 16, from < end, Decode8(Window).cp # Incomplete,
           Len(Encode16(Repaired(Decode8(Window).cp))) > 1
    PROVE  LET d == Decode8(Window)
               u == Encode16(Repaired(d.cp))
           IN /\ Len(u) = 2 /\ u[2] # 0 /\ u[2] \in Units(given.to)
              /\ <<u[1]>> \in Seq(Units(given.to)) /\ Len(<<u[1]>>) = 1
              /\ Comes(given, from, 0, <<u[1]>>, from + d.used, u[2])
  <1>1. /\ given \in Jobs /\ given.from = 8 /\ end \in 0..Len(given.text) /\ from \in 0..end
        /\ given.to = 16
    BY Typed DEF CharSize
  <1> DEFINE d == Decode8(Part(given.text, from, end))
             c == Repaired(d.cp)
             u == Encode16(c)
  <1>2. d.cp # Incomplete /\ Len(u) > 1
    BY WindowIsPart
  <1>3. c \in CodePoints
    BY <1>1, OneRead
  <1>4. Comes(given, from, 0, <<u[1]>>, from + d.used, u[2])
    BY <1>1, <1>2, ToComeInHalf
  <1> HIDE DEF c, d
  <1>5. Len(u) = 2 /\ u[1] \in Units16 /\ u[2] # 0 /\ IsSecondSurrogate(u[2]) /\ u[2] \in Nat
    BY <1>2, <1>3, PairHalves
  <1> HIDE DEF u
  <1>6. u[2] \in Units16
    BY <1>5 DEF Units16, IsSecondSurrogate
  <1>7. Units(given.to) = Units16
    BY <1>1 DEF Units
  <1>8. <<u[1]>> \in Seq(Units16) /\ Len(<<u[1]>>) = 1
    BY <1>5
  <1> QED
    BY <1>4, <1>5, <1>6, <1>7, <1>8, WindowIsPart, Zenon DEF u, c, d

LEMMA CallPieces ==
    ASSUME IInv, Pieces, NEW n \in Nat, NEW k \in Rooms, Call(n, k)
    PROVE  Pieces'
  <1>1. /\ at = "idle" /\ end' = from + n /\ at' = "loop"
        /\ mark'.from = from /\ mark'.state = state /\ mark'.out = Len(out)
        /\ UNCHANGED <<given, from, result, rewinds>>
        /\ FlushState(k)
    BY DEF Call
  <1>2. /\ given \in Jobs /\ from \in 0..Len(given.text) /\ out \in Seq(Units(given.to)) /\ Len(out) \in Nat
        /\ (Inward <=> given.from = 8) /\ k \in Nat
        /\ from + n \in 0..Len(given.text) /\ from \in 0..(from + n)
    <2>1. from + n <= Len(given.text)
      BY DEF Call
    <2>2. k \in Nat
      BY RoomsAssumption
    <2> QED
      BY <2>1, <2>2, Typed
  <1>3. Prefix(given, out) /\ Place(given, Len(out), from, state)
        /\ (~Inward /\ state # 0 => from \in 1..Len(given.text) /\ state = given.text[from])
    BY <1>1 DEF Pieces
  <1> DEFINE y == Len(Yield(given, from + n, from))
  <1>4. Inward => y \in Nat
    BY <1>2, YieldType
  <1>5. CASE Inward /\ state # 0 /\ k > 0
    <2> DEFINE e == <<state>>
    <2>1. out' = Append(out, state) /\ room' = k - 1 /\ state' = 0
      BY <1>1, <1>5 DEF FlushState
    <2>2. e \in Seq(Units(given.to)) /\ Append(out, state) = out \o e
      BY <1>2, <1>5, Typed
    <2>3. Comes(given, from, state, e, from, 0)
      BY <1>2, <1>5, ToComeOfHalf
    <2>4. ToCome(given, from, 0) \in Seq(Units(given.to))
      BY <1>2, ToComeType
    <2>5. Len(e) = 1
      OBVIOUS
    <2> HIDE DEF e
    <2>6. Prefix(given, out \o e) /\ Place(given, Len(out \o e), from, 0) /\ Len(out \o e) = Len(out) + Len(e)
      BY <1>2, <1>3, <2>2, <2>3, <2>4, WriteMoves
    <2>7. out' = out \o e /\ Len(out') = Len(out) + 1
      BY <2>1, <2>2, <2>5, <2>6
    <2>8. Marked(given, from + n, out', mark')
      BY <1>1, <1>2, <1>3, <2>7 DEF Marked
    <2>9. Counts(given, from + n, out', from, 0, mark')
      <3>1. Half(0) = 0 /\ Half(state) = 1
        BY <1>5 DEF Half
      <3>2. from <= from + n
        BY <1>2
      <3>3. Len(out') + Half(0) + y = mark'.out + Half(mark'.state) + Len(Yield(given, from + n, mark'.from))
        <4>1. Len(out') + Half(0) + y = Len(out) + Half(state) + y
          <5> HIDE DEF y
          <5> QED
            BY <1>2, <1>4, <1>5, <2>7, <3>1
        <4> QED
          BY <1>1, <4>1, Zenon
      <3> QED
        BY <3>2, <3>3, Zenon DEF Counts
    <2>10. /\ Prefix(given, out)' /\ Place(given, Len(out), from, state)' /\ Marked(given, end, out, mark)'
           /\ Counts(given, end, out, from, state, mark)' /\ Inward'
      BY <1>1, <1>5, <2>1, <2>6, <2>7, <2>8, <2>9 DEF Inward
    <2> QED
      BY <1>1, <2>1, <2>10 DEF Pieces
  <1>6. CASE ~(Inward /\ state # 0 /\ k > 0)
    <2>1. room' = k /\ UNCHANGED <<out, state>>
      BY <1>1, <1>6 DEF FlushState
    <2>2. Marked(given, from + n, out, mark')
      BY <1>1, <1>2, <1>3 DEF Marked
    <2>3. Counts(given, from + n, out, from, state, mark')
      <3>1. from <= from + n
        BY <1>2
      <3> QED
        BY <1>1, <3>1, Zenon DEF Counts
    <2>4. /\ Prefix(given, out)' /\ Place(given, Len(out), from, state)' /\ Marked(given, end, out, mark)'
          /\ Counts(given, end, out, from, state, mark)' /\ Inward' = Inward
      BY <1>1, <1>3, <2>1, <2>2, <2>3 DEF Inward
    <2>5. Inward => state = 0 \/ k = 0
      BY <1>2, <1>6
    <2> QED
      BY <1>1, <1>3, <2>1, <2>4, <2>5 DEF Pieces
  <1> QED
    BY <1>5, <1>6

LEMMA InStep16Pieces ==
    ASSUME IInv, Pieces, InStep16, UNCHANGED <<given, end, mark, rewinds, result>>
    PROVE  Pieces'
  <1> DEFINE d == Decode8(Window)
             u == Encode16(Repaired(d.cp))
  <1>1. /\ Inward /\ CharSize = 16 /\ at = "loop" /\ room > 0 /\ from < end /\ d.cp # Incomplete
        /\ from' = from + d.used
    BY DEF InStep16, Looping
  <1>2. state = 0 /\ given.to = 16 /\ room \in Nat
    BY <1>1, Typed DEF Pieces, CharSize
  <1>3. Encode(given.to, Repaired(d.cp)) = u
    BY <1>2 DEF Encode
  <1>4. /\ u \in Seq(Units(given.to)) /\ from' \in 0..Len(given.text) /\ from' <= end
        /\ Comes(given, from, 0, u, from', 0) /\ Len(u) \in Nat
        /\ Len(Yield(given, end, from)) = Len(u) + Len(Yield(given, end, from'))
        /\ Len(Yield(given, end, from')) \in Nat
    <2> HIDE DEF d, u
    <2> QED
      BY <1>1, <1>3, InReads DEF d
  <1> HIDE DEF u
  <1>5. CASE Len(u) <= room
    <2>1. out' = out \o u /\ UNCHANGED <<at, state>>
      BY <1>5 DEF InStep16, Write, u
    <2>2. Half(state') = 0
      BY <1>2, <2>1 DEF Half
    <2>3. Len(u) + Half(state') + Len(Yield(given, end, from')) = Len(Yield(given, end, from))
      BY <1>4, <2>2
    <2>4. Comes(given, from, 0, u, from', state')
      BY <1>2, <1>4, <2>1
    <2> HIDE DEF d
    <2> QED
      BY <1>1, <1>2, <1>4, <2>1, <2>3, <2>4, InMoves
  <1>6. CASE ~(Len(u) <= room)
    <2> DEFINE e == <<u[1]>>
    <2>1. out' = out \o e /\ state' = u[2] /\ at' = "stop"
      BY <1>6 DEF InStep16, Write, u
    <2>2. Len(u) > 1
      BY <1>1, <1>2, <1>4, <1>6
    <2>3. /\ Len(u) = 2 /\ u[2] # 0 /\ u[2] \in Units(given.to)
          /\ e \in Seq(Units(given.to)) /\ Len(e) = 1
          /\ Comes(given, from, 0, e, from', state')
      BY <1>1, <2>1, <2>2, InHalves DEF u
    <2>4. Half(state') = 1
      BY <2>1, <2>3 DEF Half
    <2>5. Len(e) + Half(state') + Len(Yield(given, end, from')) = Len(Yield(given, end, from))
      BY <1>4, <2>3, <2>4
    <2> HIDE DEF e, d
    <2> QED
      BY <1>1, <1>2, <1>4, <2>1, <2>3, <2>5, InMoves
  <1> QED
    BY <1>5, <1>6

LEMMA InStep32Pieces ==
    ASSUME IInv, Pieces, InStep32, UNCHANGED <<given, end, mark, rewinds, result>>
    PROVE  Pieces'
  <1> DEFINE d == Decode8(Window)
             u == <<Repaired(d.cp)>>
  <1>1. /\ Inward /\ CharSize = 32 /\ at = "loop" /\ room > 0 /\ from < end /\ d.cp # Incomplete
        /\ from' = from + d.used /\ out' = out \o u /\ UNCHANGED <<at, state>>
    BY DEF InStep32, Looping, Write
  <1>2. state = 0 /\ given.to = 32
    BY <1>1, Typed DEF Pieces, CharSize
  <1>3. Encode(given.to, Repaired(d.cp)) = u
    BY <1>2 DEF Encode
  <1>4. /\ u \in Seq(Units(given.to)) /\ from' \in 0..Len(given.text) /\ from' <= end
        /\ Comes(given, from, 0, u, from', 0) /\ Len(u) \in Nat
        /\ Len(Yield(given, end, from)) = Len(u) + Len(Yield(given, end, from'))
        /\ Len(Yield(given, end, from')) \in Nat
    <2> HIDE DEF d, u
    <2> QED
      BY <1>1, <1>3, InReads DEF d
  <1> HIDE DEF u
  <1>5. Half(state') = 0
    BY <1>1, <1>2 DEF Half
  <1>6. Len(u) + Half(state') + Len(Yield(given, end, from')) = Len(Yield(given, end, from))
    BY <1>4, <1>5
  <1>7. Comes(given, from, 0, u, from', state')
    BY <1>1, <1>2, <1>4
  <1> HIDE DEF d
  <1> QED
    BY <1>1, <1>2, <1>4, <1>6, <1>7, InMoves

LEMMA StoreOutPieces ==
    ASSUME IInv, Pieces, ~Inward, Looping("loop"), NEW c \in CodePoints, StoreOut(c),
           Comes(given, from, state, Encode8(c), from + 1, 0),
           UNCHANGED <<given, end, mark, rewinds, result>>
    PROVE  Pieces'
  <1>1. at = "loop" /\ from < end
    BY DEF Looping
  <1>2. CASE Width8(c) <= room
    <2>1. out' = out \o Encode8(c) /\ state' = 0 /\ from' = from + 1 /\ at' = at
      BY <1>2 DEF StoreOut, Write
    <2>2. from + 1 \in 0..Len(given.text)
      BY <1>1, Typed
    <2>3. Encode8(c) \in Seq(Units(given.to))
      <3>1. given.to = 8
        BY Typed, JobIsFacet
      <3> QED
        BY <3>1, Encode8Bytes DEF Units
    <2> DEFINE e == Encode8(c)
    <2> HIDE DEF e
    <2>4. /\ out' = out \o e /\ e \in Seq(Units(given.to)) /\ from' \in 0..Len(given.text)
          /\ Comes(given, from, state, e, from', 0)
      BY <2>1, <2>2, <2>3 DEF e
    <2> QED
      BY <1>1, <2>1, <2>4, OutMoves
  <1>3. CASE ~(Width8(c) <= room)
    <2>1. at' = "stop" /\ UNCHANGED <<from, room, out, state>>
      BY <1>3 DEF StoreOut
    <2> QED
      BY <1>1, <2>1, Stops
  <1> QED
    BY <1>2, <1>3

LEMMA OutStepsPieces ==
    ASSUME IInv, Pieces, OutHigh16 \/ OutStep16 \/ OutStep32, UNCHANGED <<given, end, mark, rewinds, result>>
    PROVE  Pieces'
  <1> DEFINE w == given.text[from + 1]
  <1>1. ~Inward /\ Looping("loop") /\ at = "loop" /\ from < end
    BY DEF OutHigh16, OutStep16, OutStep32, Looping
  <1>2. /\ given \in Jobs /\ given.from # 8 /\ from \in 0..Len(given.text) /\ from < Len(given.text)
        /\ from \in Nat /\ given.text \in Seq(Units(given.from)) /\ end \in Nat /\ end <= Len(given.text)
        /\ CharSize = given.from
    BY <1>1, Typed, JobIsFacet DEF CharSize
  <1>3. Window[1] = w
    BY <1>1, <1>2 DEF Window
  <1>4. Place(given, Len(out), from, state) /\ Prefix(given, out)
        /\ (state # 0 => from \in 1..Len(given.text) /\ state = given.text[from])
    BY <1>1 DEF Pieces
  <1>5. CASE OutHigh16
    <2>1. /\ state = 0 /\ IsFirstSurrogate(w) /\ state' = w /\ from' = from + 1 /\ UNCHANGED <<room, out, at>>
      BY <1>3, <1>5 DEF OutHigh16
    <2>2. w # 0 /\ from + 1 \in 1..Len(given.text)
      <3>1. 0 # 55296 /\ ~(55296 <= 0)
        BY SMT
      <3> QED
        BY <1>2, <2>1, SMT DEF IsFirstSurrogate
    <2>3. ToCome(given, from + 1, w) = ToCome(given, from, 0)
      BY <1>2, <2>2, ToComeOutHigh
    <2>4. Place(given, Len(out), from + 1, w)
      BY <1>4, <2>1, <2>3, Zenon DEF Place
    <2> HIDE DEF w
    <2>5. Place(given, Len(out), from, state)' /\ Prefix(given, out)' /\ ~Inward'
      BY <1>1, <1>4, <2>1, <2>4 DEF Inward
    <2>6. state' = given'.text[from'] /\ from' \in 1..Len(given'.text)
      BY <2>1, <2>2 DEF w
    <2> QED
      BY <1>1, <2>1, <2>5, <2>6 DEF Pieces
  <1>6. CASE OutStep16
    <2>1. given.from = 16 /\ (state # 0 \/ ~IsFirstSurrogate(w))
          /\ StoreOut(IF state # 0 /\ IsSecondSurrogate(w) THEN CombineSurrogate(state, w)
                      ELSE IF state = 0 /\ IsSingleCodepoint(w) THEN w
                      ELSE Replacement)
      BY <1>2, <1>3, <1>6 DEF OutStep16
    <2>2. CASE state = 0
      <3> DEFINE c == IF IsSingleCodepoint(w) THEN w ELSE Replacement
      <3>1. Comes(given, from, 0, Encode8(c), from + 1, 0) /\ c \in CodePoints
        BY <1>2, <2>1, <2>2, ToComeOut16
      <3>2. StoreOut(c)
        BY <2>1, <2>2
      <3> HIDE DEF c, w
      <3> QED
        BY <1>1, <2>2, <3>1, <3>2, StoreOutPieces
    <2>3. CASE state # 0
      <3> DEFINE c == IF IsSecondSurrogate(w) THEN CombineSurrogate(state, w) ELSE Replacement
      <3>1. Comes(given, from, state, Encode8(c), from + 1, 0) /\ c \in CodePoints
        <4>1. from \in 1..Len(given.text) /\ state = given.text[from] /\ IsFirstSurrogate(given.text[from])
          BY <1>1, <1>4, <2>3, Typed
        <4> QED
          BY <1>2, <2>1, <4>1, ToComeOutPair
      <3>2. StoreOut(c)
        BY <2>1, <2>3
      <3> HIDE DEF c, w
      <3> QED
        BY <1>1, <3>1, <3>2, StoreOutPieces
    <2> QED
      BY <2>2, <2>3
  <1>7. CASE OutStep32
    <2> DEFINE c == IF IsValidCodepoint(w) THEN w ELSE Replacement
    <2>1. given.from = 32 /\ StoreOut(c)
      BY <1>2, <1>3, <1>7 DEF OutStep32
    <2>2. state = 0
      BY <1>1, <2>1, Typed
    <2>3. Comes(given, from, 0, Encode8(c), from + 1, 0) /\ c \in CodePoints
      BY <1>2, <2>1, ToComeOut32
    <2> HIDE DEF c, w
    <2> QED
      BY <1>1, <2>1, <2>2, <2>3, StoreOutPieces
  <1> QED
    BY <1>5, <1>6, <1>7

LEMMA StepPieces ==
    ASSUME IInv, Pieces, Step
    PROVE  Pieces'
  <1>1. UNCHANGED <<given, end, mark, rewinds>>
    BY DEF Step
  <1>2. CASE InIncomplete /\ result' = result
    BY <1>1, <1>2, Stops DEF InIncomplete, Looping
  <1>3. CASE InStep16 /\ result' = result
    BY <1>1, <1>3, InStep16Pieces
  <1>4. CASE InStep32 /\ result' = result
    BY <1>1, <1>4, InStep32Pieces
  <1>5. CASE (OutHigh16 \/ OutStep16 \/ OutStep32) /\ result' = result
    BY <1>1, <1>5, OutStepsPieces
  <1>6. CASE Return
    <2>1. at \in {"loop", "stop"} /\ at' = "idle" /\ UNCHANGED <<from, out, state>>
      BY <1>6 DEF Return
    <2>2. result' = "ok" => from = end /\ state = 0
      BY <1>6 DEF Return, Result
    <2> QED
      BY <1>1, <2>1, <2>2, Stops
  <1> QED
    BY <1>2, <1>3, <1>4, <1>5, <1>6 DEF Step

\* A beginning of a beginning.
LEMMA PrefixCut ==
    ASSUME NEW g \in Jobs, NEW o \in Seq(Units(g.to)), Prefix(g, o), NEW n \in 0..Len(o)
    PROVE  Prefix(g, SubSeq(o, 1, n)) /\ Len(SubSeq(o, 1, n)) = n
  <1> DEFINE a == Left(g, 0)
             S == Units(g.to)
             m == Len(o)
             b == SubSeq(o, 1, n)
             c == SubSeq(a, 1, n)
  <1>1. a \in Seq(S) /\ m \in 0..Len(a) /\ SubSeq(a, 1, m) = o /\ Len(a) \in Nat /\ m \in Nat
    BY AllOfJob DEF Prefix
  <1>2. n \in 0..Len(a) /\ n \in Nat /\ n <= m
    BY <1>1
  <1>3. b \in Seq(S) /\ Len(b) = n /\ \A i \in 1..n : b[i] = o[i]
    BY Beginning
  <1> HIDE DEF a, b, S
  <1>4. c \in Seq(S) /\ Len(c) = n /\ \A i \in 1..n : c[i] = a[i]
    BY <1>1, <1>2, Beginning
  <1>5. \A i \in 1..m : o[i] = a[i]
    BY <1>1, Beginning
  <1> HIDE DEF c
  <1>6. b = c
    <2>1. \A i \in 1..Len(b) : b[i] = c[i]
      BY <1>2, <1>3, <1>4, <1>5
    <2> QED
      BY <1>3, <1>4, <2>1, SameText DEF S
  <1> QED
    BY <1>2, <1>3, <1>6, Zenon DEF Prefix, a, b, c

LEMMA MeasurePieces ==
    ASSUME IInv, Pieces, NEW m \in Nat, Measure(m)
    PROVE  Pieces'
  <1>1. /\ at = "idle" /\ Inward /\ result # "none" /\ mark.out + m <= Len(out)
        /\ out' = SubSeq(out, 1, mark.out + m) /\ from' = mark.from /\ at' = "length"
        /\ UNCHANGED <<given, end, result, mark>>
    BY DEF Measure
  <1>2. Prefix(given, out) /\ Marked(given, end, out, mark) /\ Counts(given, end, out, from, state, mark)
    BY <1>1 DEF Pieces
  <1>3. /\ given \in Jobs /\ given.from = 8 /\ out \in Seq(Units(given.to)) /\ Len(out) \in Nat
        /\ from \in 0..Len(given.text) /\ end \in 0..Len(given.text) /\ Len(given.text) \in Nat
        /\ mark.from \in 0..Len(given.text) /\ mark.out \in Nat
        /\ (mark.state # 0 => mark.state \in Units(given.to))
    BY <1>1, Typed
  <1>4. Prefix(given, out') /\ Len(out') = mark.out + m
    <2>1. mark.out + m \in 0..Len(out)
      BY <1>1, <1>3
    <2> QED
      BY <1>1, <1>2, <1>3, <2>1, PrefixCut
  <1> DEFINE y == Len(Yield(given, end, mark.from))
             z == Len(Yield(given, end, from))
  <1>5. mark.from <= end /\ from <= end /\ Place(given, mark.out, mark.from, mark.state)
        /\ Len(out) + Half(state) + z = mark.out + Half(mark.state) + y
    BY <1>2, Zenon DEF Marked, Counts
  <1>6. y \in Nat /\ z \in Nat
    <2>1. mark.from \in 0..end /\ from \in 0..end
      BY <1>3, <1>5
    <2> QED
      BY <1>3, <2>1, YieldType
  <1>7. m <= Half(mark.state) + y
    <2>1. Half(state) \in Nat /\ Half(mark.state) \in Nat
      BY DEF Half
    <2> HIDE DEF y, z
    <2> QED
      BY <1>1, <1>3, <1>5, <1>6, <2>1
  <1> HIDE DEF z, y
  <1>8. Measures(given, end, out', mark.from, state', room')
    <2>1. CASE mark.state # 0 /\ m > 0
      <3> DEFINE e == <<mark.state>>
      <3>1. room' = m - 1 /\ state' = 0
        BY <2>1 DEF Measure
      <3>2. e \in Seq(Units(given.to)) /\ Len(e) = 1
        BY <1>3, <2>1
      <3>3. Comes(given, mark.from, mark.state, e, mark.from, 0)
        BY <1>3, <2>1, ToComeOfHalf
      <3>4. ToCome(given, mark.from, 0) \in Seq(Units(given.to))
        BY <1>3, ToComeType
      <3> HIDE DEF e
      <3>5. Place(given, mark.out + Len(e), mark.from, 0)
        BY <1>3, <1>5, <3>2, <3>3, <3>4, PlaceMoves
      <3>6. Half(mark.state) = 1
        BY <2>1 DEF Half
      <3>7. Len(out') - room' = mark.out + Len(e) /\ room' <= Len(out') /\ room' <= y
        BY <1>3, <1>4, <1>6, <1>7, <3>1, <3>2, <3>6
      <3> QED
        BY <1>5, <3>1, <3>5, <3>7, Zenon DEF Measures, y
    <2>2. CASE ~(mark.state # 0 /\ m > 0)
      <3>1. room' = m /\ state' = mark.state
        BY <2>2 DEF Measure
      <3>2. state' # 0 => room' = 0
        BY <2>2, <3>1
      <3>3. room' <= y
        <4>1. Half(mark.state) = 0 \/ m = 0
          BY <2>2 DEF Half
        <4> QED
          BY <1>6, <1>7, <3>1, <4>1
      <3>4. Len(out') - room' = mark.out /\ room' <= Len(out')
        BY <1>3, <1>4, <3>1
      <3> QED
        BY <1>5, <3>1, <3>2, <3>3, <3>4, Zenon DEF Measures, y
    <2> QED
      BY <2>1, <2>2
  <1>9. Marked(given, end, out', mark)
    <2>1. mark.out <= Len(out')
      BY <1>3, <1>4
    <2> QED
      BY <1>5, <2>1, Zenon DEF Marked
  <1>10. Prefix(given, out)' /\ Measures(given, end, out, from, state, room)' /\ Marked(given, end, out, mark)'
         /\ Inward'
    BY <1>1, <1>4, <1>8, <1>9 DEF Inward
  <1> QED
    BY <1>1, <1>10 DEF Pieces

\* What do_length leaves as it is.
LEMMA LengthKeeps ==
    ASSUME IInv, Pieces, Inward, UNCHANGED <<given, end, out, mark, rewinds>>, NEW a,
           at' = a, a \in {"length", "measured", "idle"}, a = "idle" => result' = "none",
           IF a = "length" THEN Measures(given, end, out, from', state', room')
           ELSE Place(given, Len(out), from', state')
    PROVE  Pieces'
  <1>1. Prefix(given, out) /\ Marked(given, end, out, mark)
    BY DEF Pieces
  <1>2. Prefix(given, out)' /\ Marked(given, end, out, mark)' /\ Inward'
        /\ IF a = "length" THEN Measures(given, end, out, from, state, room)'
           ELSE Place(given, Len(out), from, state)'
    BY <1>1 DEF Inward
  <1> QED
    BY <1>2 DEF Pieces

\* A round of do_length reads a character that yields u units.
LEMMA LengthMoves ==
    ASSUME IInv, Pieces, Looping("length"), Decode8(Window).cp # Incomplete,
           UNCHANGED <<given, end, out, mark, rewinds, state, result, at>>,
           from' = from + Decode8(Window).used,
           NEW u \in Nat, Len(Encode(given.to, Repaired(Decode8(Window).cp))) = u, u <= room,
           room' = room - u
    PROVE  Pieces'
  <1> DEFINE d == Decode8(Window)
             E == Encode(given.to, Repaired(d.cp))
             n == from + d.used
  <1>1. at = "length" /\ room > 0 /\ from < end /\ Inward
    BY Typed DEF Looping
  <1>2. Measures(given, end, out, from, state, room) /\ given \in Jobs /\ room \in Nat /\ Len(out) \in Nat
    BY <1>1, Typed DEF Pieces
  <1>3. state = 0 /\ Place(given, Len(out) - room, from, 0) /\ room <= Len(out)
        /\ room <= Len(Yield(given, end, from))
    BY <1>1, <1>2 DEF Measures
  <1>4. /\ n \in 0..Len(given.text) /\ n <= end
        /\ E \in Seq(Units(given.to)) /\ Comes(given, from, 0, E, n, 0)
        /\ Len(Yield(given, end, from)) = Len(E) + Len(Yield(given, end, n))
        /\ Len(Yield(given, end, n)) \in Nat
    BY <1>1, InReads
  <1>5. ToCome(given, n, 0) \in Seq(Units(given.to))
    BY <1>2, <1>4, ToComeType
  <1>6. from' = n /\ Len(E) = u
    OBVIOUS
  <1> HIDE DEF E, n, d
  <1>7. Place(given, Len(out) - room + Len(E), n, 0)
    BY <1>2, <1>3, <1>4, <1>5, PlaceMoves
  <1>8. Len(out) - room + Len(E) = Len(out) - room' /\ room' <= Len(out) /\ room' <= Len(Yield(given, end, n))
    BY <1>2, <1>3, <1>4, <1>6
  <1>9. Measures(given, end, out, from', state', room')
    BY <1>3, <1>4, <1>6, <1>7, <1>8, Zenon DEF Measures
  <1> QED
    BY <1>1, <1>9, LengthKeeps

LEMMA LengthStep16Pieces ==
    ASSUME IInv, Pieces, LengthStep16, UNCHANGED <<given, end, out, mark, rewinds>>
    PROVE  Pieces'
  <1> DEFINE d == Decode8(Window)
             c == Repaired(d.cp)
             u == Encode16(c)
  <1>1. /\ Looping("length") /\ at = "length" /\ room > 0 /\ from < end /\ Inward /\ CharSize = 16
        /\ d.cp # Incomplete /\ from' = from + d.used /\ result' = result
    BY Typed DEF LengthStep16, Looping
  <1>2. given.to = 16 /\ given \in Jobs /\ room \in Nat /\ Len(out) \in Nat
    BY <1>1, Typed DEF CharSize
  <1>3. Encode(given.to, c) = u
    BY <1>2 DEF Encode
  <1>4. c \in CodePoints
    BY <1>1, InReads
  <1>5. Len(u) = Width16(c) /\ Len(u) \in Nat
    <2> HIDE DEF c
    <2> QED
      BY <1>4, Encode16Units
  <1>6. CASE Width16(c) <= room
    <2>1. room' = room - Width16(c) /\ UNCHANGED <<at, state>>
      BY <1>6 DEF LengthStep16
    <2> HIDE DEF u
    <2>2. Len(Encode(given.to, c)) = Width16(c) /\ Width16(c) \in Nat
      BY <1>3, <1>5
    <2> QED
      BY <1>1, <1>6, <2>1, <2>2, LengthMoves
  <1>7. CASE ~(Width16(c) <= room)
    <2> DEFINE e == <<u[1]>>
    <2>1. state' = u[2] /\ at' = "measured"
      BY <1>7 DEF LengthStep16
    <2>2. Len(u) > 1
      BY <1>1, <1>2, <1>5, <1>7
    <2>3. /\ Len(u) = 2 /\ u[2] # 0 /\ u[2] \in Units(given.to)
          /\ e \in Seq(Units(given.to)) /\ Len(e) = 1
          /\ Comes(given, from, 0, e, from + d.used, u[2])
      BY <1>1, <2>2, InHalves
    <2>4. from + d.used \in 0..Len(given.text)
      BY <1>1, InReads
    <2>5. Measures(given, end, out, from, state, room)
      BY <1>1 DEF Pieces
    <2>6. room = 1 /\ state = 0
      BY <1>1, <1>2, <1>5, <1>7, <2>3, <2>5 DEF Measures
    <2> HIDE DEF e, d
    <2>7. ToCome(given, from + d.used, u[2]) \in Seq(Units(given.to))
      BY <1>1, <1>2, <2>3, <2>4, ToComeType, Typed
    <2> HIDE DEF u
    <2>8. Place(given, Len(out) - room, from, 0)
      BY <2>5, <2>6 DEF Measures
    <2>9. Place(given, Len(out) - room + Len(e), from + d.used, u[2])
      BY <1>2, <2>3, <2>7, <2>8, PlaceMoves
    <2>10. Len(out) - room + Len(e) = Len(out)
      BY <1>2, <2>3, <2>6
    <2>11. Place(given, Len(out), from', state')
      BY <1>1, <2>1, <2>9, <2>10
    <2> QED
      BY <1>1, <2>1, <2>11, LengthKeeps
  <1> QED
    BY <1>6, <1>7

LEMMA LengthStep32Pieces ==
    ASSUME IInv, Pieces, LengthStep32, UNCHANGED <<given, end, out, mark, rewinds>>
    PROVE  Pieces'
  <1> DEFINE d == Decode8(Window)
             c == Repaired(d.cp)
  <1>1. /\ Looping("length") /\ at = "length" /\ room > 0 /\ Inward /\ CharSize = 32
        /\ d.cp # Incomplete /\ from' = from + d.used /\ room' = room - 1
        /\ UNCHANGED <<at, state, result>>
    BY Typed DEF LengthStep32, Looping
  <1>2. given.to = 32 /\ room \in Nat
    BY <1>1, Typed DEF CharSize
  <1>3. Len(Encode(given.to, c)) = 1 /\ 1 \in Nat /\ 1 <= room
    <2> HIDE DEF c
    <2>1. Encode(given.to, c) = <<c>>
      BY <1>2 DEF Encode
    <2> QED
      BY <1>1, <1>2, <2>1
  <1> QED
    BY <1>1, <1>3, LengthMoves

LEMMA LengthStepPieces ==
    ASSUME IInv, Pieces, LengthStep
    PROVE  Pieces'
  <1>1. UNCHANGED <<given, end, out, mark, rewinds>>
    BY DEF LengthStep
  <1>2. CASE LengthIncomplete
    <2>1. /\ at = "length" /\ room > 0 /\ from < end /\ Inward /\ Decode8(Window).cp = Incomplete
      BY <1>2, Typed DEF LengthIncomplete, Looping
    <2>2. room <= Len(Yield(given, end, from))
      BY <2>1 DEF Pieces, Measures
    <2>3. /\ given \in Jobs /\ given.from = 8 /\ end \in 0..Len(given.text) /\ from \in 0..end
          /\ room \in Nat /\ end \in 0..end
      BY <2>1, Typed
    <2>4. Gets(given, end)[from] = <<>> /\ Goes(given, end)[from] = end
      BY <2>1, <2>3, OneRead, WindowIsPart
    <2>5. Yield(given, end, from) = <<>> \o <<>>
      BY <2>1, <2>3, <2>4, YieldUnfolds
    <2>6. Len(<<>> \o <<>>) = 0
      OBVIOUS
    <2> QED
      BY <2>1, <2>2, <2>3, <2>5, <2>6
  <1>3. CASE LengthStep16
    BY <1>1, <1>3, LengthStep16Pieces
  <1>4. CASE LengthStep32
    BY <1>1, <1>4, LengthStep32Pieces
  <1>5. CASE LengthReturn
    <2>1. /\ at = "measured" \/ (at = "length" /\ ~Looping("length"))
          /\ at' = "idle" /\ result' = "none" /\ UNCHANGED <<from, room, state>> /\ Inward
      BY <1>5, Typed DEF LengthReturn
    <2>2. Place(given, Len(out), from, state)
      <3>1. CASE at = "measured"
        BY <3>1 DEF Pieces
      <3>2. CASE at = "length" /\ ~Looping("length")
        <4>1. /\ given \in Jobs /\ given.from = 8 /\ end \in 0..Len(given.text) /\ from \in Nat /\ end \in Nat
              /\ room \in Nat /\ end \in 0..end /\ Len(out) \in Nat
          BY <2>1, Typed
        <4>2. Measures(given, end, out, from, state, room)
          BY <3>2 DEF Pieces
        <4>3. room = 0 \/ from = end
          BY <3>2, <4>1, <4>2 DEF Looping, Measures
        <4>4. from = end => Len(Yield(given, end, from)) = 0
          <5>1. Yield(given, end, end) = <<>>
            BY <4>1, YieldUnfolds
          <5> QED
            BY <5>1
        <4>5. room = 0
          BY <4>1, <4>2, <4>3, <4>4 DEF Measures
        <4>6. Len(out) - room = Len(out)
          BY <4>1, <4>5
        <4> QED
          BY <4>2, <4>6, Zenon DEF Measures
      <3> QED
        BY <2>1, <3>1, <3>2
    <2> QED
      BY <1>1, <2>1, <2>2, LengthKeeps
  <1> QED
    BY <1>2, <1>3, <1>4, <1>5 DEF LengthStep

LEMMA StutterPieces ==
    ASSUME Pieces, UNCHANGED vars
    PROVE  Pieces'
  BY DEF Pieces, vars, Inward, Prefix, Place, Measures, Marked, Counts

LEMMA NextPieces == IInv /\ Pieces /\ [Next]_vars => Pieces'
  <1> SUFFICES ASSUME IInv, Pieces, [Next]_vars PROVE Pieces'
    OBVIOUS
  <1>1. CASE \E n \in 0..Len(given.text), k \in Rooms : Call(n, k)
    BY <1>1, CallPieces
  <1>2. CASE \E m \in 0..Len(out) : Measure(m)
    BY <1>2, MeasurePieces
  <1>3. CASE Step
    BY <1>3, StepPieces
  <1>4. CASE LengthStep
    BY <1>4, LengthStepPieces
  <1>5. CASE UNCHANGED vars
    BY <1>5, StutterPieces
  <1> QED
    BY <1>1, <1>2, <1>3, <1>4, <1>5 DEF Next

LEMMA AlwaysPieces == Spec => [](IInv /\ Pieces)
  <1>1. Init => IInv /\ Pieces
    BY InitInv, InitPieces
  <1>2. IInv /\ Pieces /\ [Next]_vars => (IInv /\ Pieces)'
    BY NextInv, NextPieces
  <1> QED
    BY <1>1, <1>2, PTL DEF Spec

\* What is written and what is to come.
LEMMA PlaceJoins ==
    ASSUME NEW g \in Jobs, NEW o, NEW f, NEW x, Prefix(g, o), Place(g, Len(o), f, x)
    PROVE  o \o ToCome(g, f, x) = Left(g, 0)
  <1> DEFINE a == Left(g, 0)
             n == Len(o)
  <1>1. a \in Seq(Units(g.to))
    BY AllOfJob
  <1>2. n \in 0..Len(a) /\ SubSeq(a, 1, n) = o /\ After(a, n) = ToCome(g, f, x)
    BY Zenon DEF Prefix, Place
  <1> HIDE DEF a, n
  <1>3. SubSeq(a, 1, n) \o After(a, n) = a
    BY <1>1, <1>2, CutAndJoined
  <1> QED
    BY <1>2, <1>3, Zenon DEF a

LEMMA PiecesJoin ==
    ASSUME IInv, Pieces
    PROVE  PieceIndependent /\ OkIsComplete /\ UnshiftTellsHalf
  <1>1. \A n : Rest(n) = Left(given, n)
    BY DEF Rest, Left
  <1>2. All = Left(given, 0)
    BY DEF All, Left
  <1>3. at # "length" => out \o ToCome(given, from, state) = All
    BY <1>2, PlaceJoins, Typed DEF Pieces
  <1>4. ToCome(given, from, state) = IF state = 0 THEN Rest(from)
                                   ELSE IF Inward THEN <<state>> \o Rest(from)
                                   ELSE Rest(from - 1)
    BY <1>1, Zenon DEF ToCome, Inward
  <1>5. PieceIndependent
    <2> SUFFICES ASSUME at \in {"idle", "loop", "stop"}
                 PROVE  out \o (IF state = 0 THEN Rest(from)
                                ELSE IF Inward THEN <<state>> \o Rest(from)
                                ELSE Rest(from - 1)) = All
      BY DEF PieceIndependent
    <2>1. at # "length"
      OBVIOUS
    <2> QED
      BY <1>3, <1>4, <2>1, Zenon
  <1>6. state = 0 /\ at = "idle" => out \o Rest(from) = All
    <2> SUFFICES ASSUME state = 0, at = "idle" PROVE out \o Rest(from) = All
      OBVIOUS
    <2>1. at # "length"
      OBVIOUS
    <2> QED
      BY <1>3, <1>4, <2>1, Zenon
  <1>7. OkIsComplete
    BY <1>6 DEF OkIsComplete, Pieces
  <1>8. UnshiftTellsHalf
    <2> SUFFICES ASSUME at = "idle", Unshift # "error" PROVE out \o Rest(from) = All
      BY DEF UnshiftTellsHalf
    <2>1. state = 0
      BY DEF Unshift, IInv, TypeOK
    <2> QED
      BY <1>6, <2>1
  <1> QED
    BY <1>5, <1>7, <1>8

\* Wherever a caller cuts input and output, and wherever it goes on with the help of do_length, what
\* is written, in the state and left to read are together the text converted in one piece.
THEOREM CutsDoNotMatter == Spec => []PieceIndependent
  BY AlwaysPieces, PiecesJoin, PTL

\* A call of do_in or do_out that returns ok has written all that became of what it was given.
THEOREM OkMeansAll == Spec => []OkIsComplete
  BY AlwaysPieces, PiecesJoin, PTL

\* As long as do_unshift does not refuse, all that was read is written.
THEOREM UnshiftIsRight == Spec => []UnshiftTellsHalf
  BY AlwaysPieces, PiecesJoin, PTL
----------------------------------------------------------------------------
\* What comes of each code point.
Gives(g) == [c \in CodePoints |-> Encode(g.to, c)]

\* The characters of the job's text that are there to their end: what becomes of those after k
\* units, and where they end.
Track(g) == CHOOSE p : Walks(g.from, Gives(g), g.text, p[1], p[2])
Made(g, k) == Track(g)[1][k]
Halt(g, k) == Track(g)[2][k]

\* The walk over the characters, from one to the next.
LEMMA TrackUnfolds ==
    ASSUME NEW g \in Jobs, NEW k \in 0..Len(g.text)
    PROVE  /\ Stays(g.from, g.text, k) => Made(g, k) = <<>> /\ Halt(g, k) = k
           /\ ~Stays(g.from, g.text, k) =>
                LET d == Decode(g.from, After(g.text, k))
                IN /\ k < Len(g.text) /\ d.used \in Nat /\ k + d.used \in (k + 1)..Len(g.text)
                   /\ Made(g, k) = Encode(g.to, Repaired(d.cp)) \o Made(g, k + d.used)
                   /\ Encode(g.to, Repaired(d.cp)) \in Seq(Units(g.to))
                   /\ Halt(g, k) = Halt(g, k + d.used)
  <1> DEFINE s == g.text
             w == g.from
             d == Decode(w, After(s, k))
             m == k + d.used
             p == Track(g)
             e == Gives(g)
  <1>1. w \in Encodings /\ g.to \in Encodings /\ s \in Seq(Units(w)) /\ Len(s) \in Nat
    BY JobIsFacet
  <1>2. Walks(w, e, s, p[1], p[2])
    <2>1. PICK y, z : Walks(w, e, s, y, z)
      <3> HIDE DEF w, e, s
      <3> QED
        BY <1>1, WalksExist
    <2> DEFINE q == <<y, z>>
    <2>2. q[1] = y /\ q[2] = z
      OBVIOUS
    <2> HIDE DEF q, w, e, s
    <2>3. Walks(w, e, s, q[1], q[2])
      BY <2>1, <2>2, Zenon
    <2> QED
      BY <2>3, Zenon DEF Track, w, e, s
  <1> HIDE DEF p, e
  <1>3. WalksAt(w, e, s, p[1], p[2], k)
    BY <1>2, Zenon DEF Walks
  <1>4. CASE Stays(w, s, k)
    <2>1. p[1][k] = <<>> /\ p[2][k] = k
      BY <1>3, <1>4, Zenon DEF WalksAt
    <2> QED
      BY <1>4, <2>1, Zenon DEF Made, Halt, p
  <1>5. CASE ~Stays(w, s, k)
    <2>1. p[1][k] = e[Repaired(d.cp)] \o p[1][m] /\ p[2][k] = p[2][m]
      BY <1>3, <1>5, Zenon DEF WalksAt
    <2>2. /\ k \in 0..(Len(s) - 1) /\ Repaired(d.cp) \in CodePoints
          /\ d.used \in 1..(Len(s) - k) /\ m \in (k + 1)..Len(s)
      <3> HIDE DEF w, s
      <3> QED
        BY <1>1, <1>5, OneCharacter DEF s
    <2>3. k < Len(s)
      BY <1>1, <2>2
    <2>4. d.used \in Nat
      <3> DEFINE a == d.used
      <3>1. a \in 1..(Len(s) - k)
        BY <2>2
      <3> HIDE DEF a, s
      <3>2. a \in Nat
        BY <3>1
      <3> QED
        BY <3>2 DEF a, s
    <2> DEFINE c == Repaired(d.cp)
    <2>5. c \in CodePoints
      BY <2>2
    <2> HIDE DEF c
    <2>6. e[c] = Encode(g.to, c)
      BY <2>5 DEF e, Gives
    <2>7. Encode(g.to, c) \in Seq(Units(g.to))
      BY <1>1, <2>5, EncodeHasItsWidth
    <2> HIDE DEF d
    <2> QED
      BY <1>5, <2>1, <2>2, <2>3, <2>4, <2>6, <2>7, Zenon DEF Made, Halt, p, c, d, s, w
  <1> QED
    BY <1>4, <1>5

\* What comes of the text after k units is what comes of the whole characters, and then what comes
\* of the one that is not there to its end.
MadeAt(g, k) ==
    /\ Made(g, k) \in Seq(Units(g.to))
    /\ Halt(g, k) \in k..Len(g.text)
    /\ Stays(g.from, g.text, Halt(g, k))
    /\ Left(g, k) = Made(g, k) \o Left(g, Halt(g, k))

\* It is so of the text after k units when it is so of every shorter rest.
LEMMA MadeAtOne ==
    ASSUME NEW g \in Jobs, NEW k \in 0..Len(g.text),
           \A m \in (k + 1)..Len(g.text) : MadeAt(g, m)
    PROVE  MadeAt(g, k)
  <1> DEFINE s == g.text
             w == g.from
             d == Decode(w, After(s, k))
             m == k + d.used
  <1>1. Len(s) \in Nat
    BY JobIsFacet
  <1>2. Left(g, k) \in Seq(Units(g.to))
    BY LeftUnfolds
  <1>3. CASE Stays(w, s, k)
    <2>1. Made(g, k) = <<>> /\ Halt(g, k) = k
      BY <1>3, TrackUnfolds
    <2>2. <<>> \o Left(g, k) = Left(g, k) /\ <<>> \in Seq(Units(g.to))
      <3> DEFINE l == Left(g, k)
      <3>1. l \in Seq(Units(g.to))
        BY <1>2
      <3> HIDE DEF l
      <3>2. <<>> \o l = l
        BY <3>1
      <3> QED
        BY <3>2 DEF l
    <2>3. k \in k..Len(s)
      BY <1>1
    <2> QED
      BY <1>3, <2>1, <2>2, <2>3, Zenon DEF MadeAt
  <1>4. CASE ~Stays(w, s, k)
    <2> DEFINE x == Encode(g.to, Repaired(d.cp))
               y == Made(g, m)
               l == Left(g, Halt(g, m))
    <2>1. /\ k < Len(s) /\ m \in (k + 1)..Len(s)
          /\ Made(g, k) = x \o y /\ x \in Seq(Units(g.to)) /\ Halt(g, k) = Halt(g, m)
      BY <1>4, TrackUnfolds
    <2>2. Left(g, k) = x \o Left(g, m)
      BY <2>1, LeftUnfolds
    <2>3. MadeAt(g, m)
      BY <2>1
    <2> HIDE DEF m, s
    <2>4. /\ y \in Seq(Units(g.to)) /\ Halt(g, m) \in m..Len(s) /\ Stays(w, s, Halt(g, m))
          /\ Left(g, m) = y \o l
      BY <2>3, Zenon DEF MadeAt, s
    <2>5. Halt(g, m) \in k..Len(s) /\ Halt(g, m) \in 0..Len(g.text)
      BY <1>1, <2>1, <2>4 DEF s
    <2>6. l \in Seq(Units(g.to))
      BY <2>5, LeftUnfolds
    <2> HIDE DEF x, y, l
    <2>7. x \o (y \o l) = (x \o y) \o l
      <3> DEFINE U == Units(g.to)
      <3> HIDE DEF U
      <3>1. x \in Seq(U)
        BY <2>1 DEF U
      <3>2. y \in Seq(U)
        BY <2>4 DEF U
      <3>3. l \in Seq(U)
        BY <2>6 DEF U
      <3>4. \A a, b, c \in Seq(U) : a \o (b \o c) = (a \o b) \o c
        BY JoinAssociates
      <3> QED
        BY <3>1, <3>2, <3>3, <3>4, Zenon
    <2>8. x \o y \in Seq(Units(g.to))
      BY <2>1, <2>4, JoinedText
    <2> QED
      BY <2>1, <2>2, <2>4, <2>5, <2>7, <2>8, Zenon DEF MadeAt, l, s
  <1> QED
    BY <1>3, <1>4

LEMMA MadeIsFirst ==
    ASSUME NEW g \in Jobs, NEW k \in 0..Len(g.text)
    PROVE  MadeAt(g, k)
  <1> DEFINE n == Len(g.text)
             T == {j \in 0..n : ~MadeAt(g, n - j)}
  <1>1. n \in Nat
    BY JobIsFacet
  <1> SUFFICES ASSUME ~MadeAt(g, k) PROVE FALSE
    OBVIOUS
  <1>2. T # {} /\ T \in SUBSET Nat
    <2>1. n - k \in 0..n /\ n - (n - k) = k
      BY <1>1
    <2>2. n - k \in T
      BY <2>1
    <2>3. T \in SUBSET Nat
      BY <1>1
    <2> HIDE DEF T
    <2> QED
      BY <2>2, <2>3
  <1>3. PICK j \in T : \A y \in T : j <= y
    BY <1>2, LeastNumber
  <1>4. n - j \in 0..n /\ ~MadeAt(g, n - j) /\ j \in Nat
    BY <1>1, <1>3
  <1>5. ASSUME NEW m \in (n - j + 1)..n PROVE MadeAt(g, m)
    <2>1. n - m \in 0..n /\ n - m < j /\ n - (n - m) = m
      BY <1>1, <1>4
    <2>2. n - m \notin T
      BY <1>3, <2>1
    <2> HIDE DEF n
    <2> QED
      BY <2>1, <2>2
  <1> DEFINE i == n - j
  <1>6. i \in 0..n /\ ~MadeAt(g, i) /\ \A m \in (i + 1)..n : MadeAt(g, m)
    BY <1>4, <1>5
  <1> HIDE DEF i
  <1> QED
    BY <1>6, MadeAtOne

\* One step of the recursion in Unfinished.
UnfinishedAt(w, s, u, k) ==
    IF k = Len(s) THEN 0
    ELSE LET d == Decode(w, After(s, k))
         IN IF d.cp = Incomplete THEN Len(s) - k ELSE u[k + d.used]
UnfinishedTable(w, s, u) == [k \in 0..Len(s) |-> UnfinishedAt(w, s, u, k)]

LEMMA UnfinishedAtHalt ==
    ASSUME NEW g \in Jobs, NEW k \in 0..Len(g.text), NEW u,
           \A m \in (k + 1)..Len(g.text) : u[m] = Len(g.text) - Halt(g, m)
    PROVE  UnfinishedAt(g.from, g.text, u, k) = Len(g.text) - Halt(g, k)
  <1> DEFINE s == g.text
             w == g.from
             d == Decode(w, After(s, k))
             m == k + d.used
  <1>1. w \in Encodings /\ s \in Seq(Units(w)) /\ Len(s) \in Nat
    BY JobIsFacet
  <1>2. k = Len(s) => Stays(w, s, k)
    <2> HIDE DEF s, w
    <2> QED
      BY <1>1, OneCharacter DEF s
  <1>3. CASE Stays(w, s, k)
    <2>1. Halt(g, k) = k /\ d.cp = Incomplete
      BY <1>3, TrackUnfolds DEF Stays
    <2> HIDE DEF d, s, w
    <2>2. Len(s) - k = 0 \/ k # Len(s)
      BY <1>1
    <2>3. UnfinishedAt(w, s, u, k) = IF k = Len(s) THEN 0 ELSE Len(s) - k
      BY <2>1, Zenon DEF UnfinishedAt, d
    <2> QED
      BY <2>1, <2>2, <2>3, Zenon DEF s, w
  <1>4. CASE ~Stays(w, s, k)
    <2>1. m \in (k + 1)..Len(s) /\ Halt(g, k) = Halt(g, m)
      BY <1>4, TrackUnfolds
    <2>2. d.cp # Incomplete /\ k # Len(s)
      BY <1>2, <1>4 DEF Stays
    <2>3. u[m] = Len(s) - Halt(g, m)
      BY <2>1
    <2>4. UnfinishedAt(w, s, u, k) = u[m]
      <3> HIDE DEF s, w
      <3> QED
        BY <2>2, Zenon DEF UnfinishedAt
    <2> HIDE DEF s, w, m
    <2> QED
      BY <2>1, <2>3, <2>4, Zenon DEF s, w
  <1> QED
    BY <1>3, <1>4

\* The units that Unfinished counts are those after the last whole character.
LEMMA UnfinishedIsHalt ==
    ASSUME NEW g \in Jobs
    PROVE  Unfinished(g.from, g.text) = Len(g.text) - Halt(g, 0)
  <1> DEFINE n == Len(g.text)
             w == g.from
             s == g.text
             p == [k \in 0..n |-> n - Halt(g, k)]
             f == CHOOSE u : u = UnfinishedTable(w, s, u)
  <1>1. n \in Nat
    BY JobIsFacet
  <1>2. \A k \in 0..n : UnfinishedAt(w, s, p, k) = p[k]
    <2> SUFFICES ASSUME NEW k \in 0..n PROVE UnfinishedAt(w, s, p, k) = p[k]
      OBVIOUS
    <2>1. \A m \in (k + 1)..n : p[m] = n - Halt(g, m)
      BY <1>1
    <2>2. p[k] = n - Halt(g, k)
      OBVIOUS
    <2> HIDE DEF p
    <2> QED
      BY <2>1, <2>2, UnfinishedAtHalt
  <1>3. f = UnfinishedTable(w, s, f)
    <2>1. p = UnfinishedTable(w, s, p)
      <3> DEFINE q == UnfinishedTable(w, s, p)
      <3>1. q = [k \in 0..n |-> UnfinishedAt(w, s, p, k)]
        BY DEF UnfinishedTable
      <3>2. p = [k \in 0..n |-> p[k]]
        OBVIOUS
      <3> HIDE DEF p, q
      <3> QED
        BY <1>2, <3>1, <3>2 DEF q
    <2> HIDE DEF p
    <2> QED
      BY <2>1, Zenon
  <1>4. Unfinished(w, s) = f[0]
    BY DEF Unfinished, UnfinishedTable, UnfinishedAt
  <1> HIDE DEF f
  <1>5. \A k \in 0..n : f[k] = UnfinishedAt(w, s, f, k)
    BY <1>3, Zenon DEF UnfinishedTable
  <1> DEFINE T == {j \in 0..n : f[n - j] # n - Halt(g, n - j)}
  <1>6. ASSUME T # {} PROVE FALSE
    <2>1. T \in SUBSET Nat
      BY <1>1
    <2>2. PICK j \in T : \A q \in T : j <= q
      BY <1>6, <2>1, LeastNumber
    <2> DEFINE i == n - j
    <2>3. i \in 0..n /\ j \in Nat /\ f[i] # n - Halt(g, i)
      BY <1>1, <2>2
    <2>4. ASSUME NEW m \in (i + 1)..n PROVE f[m] = n - Halt(g, m)
      <3>1. n - m \in 0..n /\ n - m < j /\ n - (n - m) = m
        BY <1>1, <2>3
      <3>2. n - m \notin T
        BY <2>2, <3>1
      <3> HIDE DEF n
      <3> QED
        BY <3>1, <3>2
    <2> HIDE DEF i
    <2>5. UnfinishedAt(w, s, f, i) = n - Halt(g, i)
      BY <2>3, <2>4, UnfinishedAtHalt
    <2> QED
      BY <1>5, <2>3, <2>5, Zenon
  <1>7. f[0] = n - Halt(g, 0)
    <2>1. n \in 0..n /\ n - n = 0 /\ n \notin T
      BY <1>1, <1>6
    <2> HIDE DEF n
    <2> QED
      BY <2>1
  <1> QED
    BY <1>4, <1>7, Zenon

\* A character that is not there to its end is a lead byte and less trail bytes than it asks for.
LEMMA BytesOfIncomplete ==
    ASSUME NEW s \in Seq(Bytes), s # <<>>, Decode8(s).cp = Incomplete
    PROVE  LET n == TrailLength8(s[1])
           IN n \in 1..3 /\ TrailsAt(s, n) \in 0..(n - 1) /\ Len(s) = TrailsAt(s, n) + 1
<1> DEFINE n == TrailLength8(s[1])
<1>1. s[1] \in Nat /\ Incomplete \notin Nat /\ Illegal # Incomplete
  BY NotEmpty DEF Bytes, Incomplete, Illegal
<1>2. n \in {-1, 0, 1, 2, 3}
  BY SMT, <1>1 DEF TrailLength8
<1>3. n \in 1..3 /\ Decode8(s) = DecodeTrails(s, n)
  <2>1. Decode8(s) = IF n < 0 THEN Decoded(Illegal, 1) ELSE IF n = 0 THEN Decoded(s[1], 1) ELSE DecodeTrails(s, n)
    BY SMT, <1>2 DEF Decode8
  <2> HIDE DEF n
  <2>2. ~(n < 0) /\ n # 0
    BY <1>1, <2>1, DecodedFields
  <2> QED
    BY <1>2, <2>1, <2>2
<1> HIDE DEF n
<1>4. TrailsAt(s, n) \in 0..n
  BY SMT, <1>3 DEF TrailsAt
<1>5. TrailsAt(s, n) < n /\ Len(s) = TrailsAt(s, n) + 1
  <2> SUFFICES ASSUME ~(TrailsAt(s, n) < n /\ Len(s) = TrailsAt(s, n) + 1) PROVE FALSE
    OBVIOUS
  <2>1. Len(s) \in Nat /\ Len(s) >= 1
    BY NotEmpty
  <2>2. DecodeTrails(s, n).cp \in {Illegal, Combine8(s, n)}
        /\ (DecodeTrails(s, n).cp = Combine8(s, n) => DecodeTrails(s, n).cp = Illegal \/ IsValidCodepoint(Combine8(s, n)))
    BY SMT, <1>3, <1>4, DecodedFields DEF DecodeTrails
  <2>3. ~IsValidCodepoint(Incomplete)
    BY SMT DEF IsValidCodepoint, Incomplete
  <2> QED
    BY <1>1, <1>3, <2>2, <2>3
<1> QED
  BY <1>3, <1>4, <1>5 DEF n

\* A text that is cut where a character begins shows its first character as before.
LEMMA CutShows8 ==
    ASSUME NEW s \in Seq(Bytes), NEW b \in Seq(Bytes), b # <<>>, Begins(b, s), Len(b) < Len(s),
           ~IsTrail8(s[Len(b) + 1]), Decode8(s).used <= Len(b)
    PROVE  Decode8(b).cp # Incomplete
<1> SUFFICES ASSUME Decode8(b).cp = Incomplete PROVE FALSE
  OBVIOUS
<1> DEFINE n == TrailLength8(b[1])
           k == TrailsAt(b, n)
<1>1. n \in 1..3 /\ k \in 0..(n - 1) /\ Len(b) = k + 1
  BY BytesOfIncomplete
<1>2. Len(b) \in Nat /\ Len(s) \in Nat /\ Len(b) >= 1 /\ s # <<>> /\ s[1] = b[1]
  BY NotEmpty DEF Begins
<1>3. /\ Len(b) >= 2 => b[2] = s[2]
      /\ Len(b) >= 3 => b[3] = s[3]
  BY <1>2 DEF Begins
<1> HIDE DEF n
<1>4. TrailsAt(s, n) = k
  <2>1. CASE k = 0
    <3> HIDE DEF k
    <3>1. Len(b) = 1
      BY <1>1, <2>1
    <3>2. ~IsTrail8(s[2])
      BY <3>1
    <3> QED
      BY SMT, <2>1, <3>2 DEF TrailsAt
  <2>2. CASE k = 1
    <3>1. Len(b) = 2 /\ n >= 2
      <4> HIDE DEF k
      <4> QED
        BY <1>1, <2>2
    <3>2. ~IsTrail8(s[3])
      BY <3>1
    <3>3. IsTrail8(b[2])
      BY SMT, <1>1, <2>2, <3>1 DEF TrailsAt
    <3>4. IsTrail8(s[2]) /\ Len(s) >= 2
      BY <1>2, <1>3, <3>1, <3>3
    <3> HIDE DEF k
    <3> QED
      BY SMT, <1>1, <2>2, <3>1, <3>2, <3>4 DEF TrailsAt
  <2>3. CASE k = 2
    <3>1. Len(b) = 3 /\ n = 3
      <4> HIDE DEF k
      <4> QED
        BY <1>1, <2>3
    <3>2. ~IsTrail8(s[4])
      BY <3>1
    <3>3. IsTrail8(b[2]) /\ IsTrail8(b[3])
      BY SMT, <1>1, <2>3, <3>1 DEF TrailsAt
    <3>4. IsTrail8(s[2]) /\ IsTrail8(s[3]) /\ Len(s) >= 3
      BY <1>2, <1>3, <3>1, <3>3
    <3> HIDE DEF k
    <3> QED
      BY SMT, <1>1, <2>3, <3>1, <3>2, <3>4 DEF TrailsAt
  <2> HIDE DEF k
  <2> QED
    BY <1>1, <2>1, <2>2, <2>3
<1>5. Decode8(s) = DecodeTrails(s, n)
  BY SMT, <1>1, <1>2 DEF Decode8, n
<1>6. DecodeTrails(s, n) = Decoded(Illegal, k + 2)
  <2>1. k < n /\ Len(s) # k + 1
    <3> HIDE DEF k
    <3> QED
      BY <1>1, <1>2
  <2> HIDE DEF k
  <2> QED
    BY SMT, <1>1, <1>4, <2>1 DEF DecodeTrails
<1>7. Decode8(s).used = k + 2
  <2> HIDE DEF k
  <2> QED
    BY <1>5, <1>6, DecodedFields
<1> HIDE DEF k
<1> QED
  BY <1>1, <1>7

\* The same for every encoding.
LEMMA CutShows ==
    ASSUME NEW w \in Encodings, NEW s \in Seq(Units(w)), NEW c \in 0..Len(s), Stays(w, s, c),
           NEW k \in 0..c, k < c, ~Stays(w, s, k), k + Decode(w, After(s, k)).used <= c
    PROVE  Decode(w, SubSeq(s, k + 1, c)) = Decode(w, After(s, k))
<1> DEFINE r == After(s, k)
           b == SubSeq(r, 1, c - k)
           d == Decode(w, r)
           u == d.used
<1>1. k \in Nat /\ c \in Nat /\ Len(s) \in Nat /\ k \in 0..Len(s) /\ c <= Len(s)
  OBVIOUS
<1>2. SubSeq(s, k + 1, c) = b /\ c - k \in 0..Len(r)
  BY <1>1, WindowBegins
<1>3. /\ r \in Seq(Units(w)) /\ Len(r) = Len(s) - k
      /\ \A i \in 1..(Len(s) - k) : r[i] = s[k + i]
  BY <1>1, RestOfText
<1> HIDE DEF r
<1>4. b \in Seq(Units(w)) /\ Len(b) = c - k /\ (\A i \in 1..Len(b) : b[i] = r[i]) /\ (c - k = Len(r) => b = r)
  BY <1>2, <1>3, Beginning
<1>5. Begins(b, r)
  BY <1>2, <1>3, <1>4 DEF Begins
<1> HIDE DEF b
<1>6. b # <<>> /\ Len(b) \in Nat /\ Len(b) # 0
  <2>1. Len(b) # 0
    BY <1>1, <1>4
  <2>2. Len(<<>>) = 0
    OBVIOUS
  <2> QED
    BY <1>4, <2>1, <2>2
<1>7. u <= Len(b)
  <2>1. u \in 1..(Len(s) - k) /\ k + u <= c
    BY <1>1, OneCharacter DEF r
  <2> HIDE DEF u
  <2> QED
    BY <1>1, <1>4, <2>1
<1>8. d.cp # Incomplete
  BY Zenon DEF Stays, r
<1>9. CASE c = Len(s)
  <2>1. b = r
    BY <1>1, <1>3, <1>4, <1>9
  <2> QED
    BY <1>2, <2>1 DEF r
<1>10. CASE c # Len(s)
  <2>1. c < Len(s) /\ Len(b) < Len(r) /\ k + (Len(b) + 1) = c + 1 /\ Len(b) + 1 \in 1..(Len(s) - k)
    BY <1>1, <1>3, <1>4, <1>10
  <2> DEFINE a == After(s, c)
  <2>2. a \in Seq(Units(w)) /\ a # <<>> /\ Len(a) = Len(s) - c /\ \A i \in 1..(Len(s) - c) : a[i] = s[c + i]
    BY <2>1, RestOfText
  <2>3. a[1] = s[c + 1] /\ r[Len(b) + 1] = s[c + 1]
    <3>1. 1 \in 1..(Len(s) - c)
      BY <1>1, <2>1
    <3>2. r[Len(b) + 1] = s[k + (Len(b) + 1)]
      BY <1>3, <2>1, Zenon
    <3> HIDE DEF a
    <3> QED
      BY <2>1, <2>2, <3>1, <3>2
  <2>4. Decode(w, a).cp = Incomplete
    BY Zenon DEF Stays
  <2> HIDE DEF a
  <2>5. Decode(w, b).cp # Incomplete
    <3> SUFFICES ASSUME Decode(w, b).cp = Incomplete PROVE FALSE
      OBVIOUS
    <3>1. CASE w = 8
      <4>1. a \in Seq(Bytes) /\ r \in Seq(Bytes) /\ b \in Seq(Bytes)
        BY <1>3, <1>4, <2>2, <3>1 DEF Units
      <4>2. Decode8(a).cp = Incomplete /\ Decode8(b).cp = Incomplete /\ Decode8(r).used <= Len(b)
        BY <1>7, <2>4, <3>1 DEF Decode
      <4>3. TrailLength8(a[1]) \in 1..3 /\ a[1] \in Nat
        <5>1. a[1] \in Nat
          BY <2>2, <4>1, NotEmpty DEF Bytes
        <5> QED
          BY <2>2, <4>1, <4>2, <5>1, BytesOfIncomplete
      <4>4. ~IsTrail8(a[1])
        BY SMT, <4>3 DEF TrailLength8, IsTrail8
      <4> QED
        BY <1>5, <1>6, <2>1, <2>3, <4>1, <4>2, <4>4, CutShows8
    <3>2. CASE w = 16
      <4>1. Len(b) <= 1
        BY <1>4, <3>2, IncompleteIsShort
      <4>2. Len(b) = 1
        <5> DEFINE n == Len(b)
        <5>1. n \in Nat /\ n # 0 /\ n <= 1
          BY <1>6, <4>1
        <5> HIDE DEF n
        <5>2. n = 1
          BY <5>1
        <5> QED
          BY <5>2 DEF n
      <4>3. b[1] = r[1] /\ r[1] \in Nat /\ r # <<>> /\ Len(r) # 1 /\ b[1] \in Nat
        <5>1. Len(r) >= 2 /\ r # <<>>
          BY <1>3, <2>1, <4>2
        <5>2. r[1] \in Nat
          BY <1>3, <3>2, <5>1, NotEmpty DEF Units, Units16
        <5> QED
          BY <1>4, <4>2, <5>1, <5>2
      <4>4. IsFirstSurrogate(b[1])
        <5>1. Decode16(b).cp = Incomplete
          BY <3>2 DEF Decode
        <5>2. b[1] # Incomplete /\ Illegal # Incomplete
          BY <4>3 DEF Incomplete, Illegal
        <5>3. IsSingleCodepoint(b[1]) => Decode16(b) = Decoded(b[1], 1)
          BY SMT, <1>6, <4>3 DEF Decode16, IsSingleCodepoint, IsFirstSurrogate, IsSecondSurrogate
        <5>4. IsSecondSurrogate(b[1]) => Decode16(b) = Decoded(Illegal, 1)
          BY SMT, <1>6, <4>3 DEF Decode16, IsSingleCodepoint, IsFirstSurrogate, IsSecondSurrogate
        <5>5. ~IsSingleCodepoint(b[1]) /\ ~IsSecondSurrogate(b[1])
          BY <5>1, <5>2, <5>3, <5>4, DecodedFields
        <5> QED
          BY <4>3, <5>5 DEF IsSingleCodepoint, IsFirstSurrogate, IsSecondSurrogate
      <4>5. Decode16(r).used = 2
        <5>1. IsFirstSurrogate(r[1])
          BY <4>3, <4>4
        <5>2. Decode16(r) \in {Decoded(Illegal, 2), Decoded(CombineSurrogate(r[1], r[2]), 2)}
          BY SMT, <4>3, <5>1 DEF Decode16, IsSingleCodepoint, IsFirstSurrogate, IsSecondSurrogate
        <5> QED
          BY <5>2, DecodedFields
      <4> QED
        BY <1>7, <3>2, <4>2, <4>5 DEF Decode
    <3>3. CASE w = 32
      BY <1>4, <1>6, <3>3, IncompleteIsShort
    <3> QED
      BY <3>1, <3>2, <3>3 DEF Encodings
  <2>6. Decode(w, r) = Decode(w, b)
    BY <1>3, <1>4, <1>5, <2>5, DecodeGrows
  <2> QED
    BY <1>2, <2>6 DEF r
<1> QED
  BY <1>9, <1>10

\* What is left of a beginning.
LEMMA CutRest ==
    ASSUME NEW S, NEW s \in Seq(S), NEW c \in 0..Len(s), NEW k \in 0..c
    PROVE  After(SubSeq(s, 1, c), k) = SubSeq(s, k + 1, c)
  <1> DEFINE x == SubSeq(s, 1, c)
             y == After(x, k)
             z == SubSeq(s, k + 1, c)
  <1>1. k \in Nat /\ c \in Nat /\ Len(s) \in Nat /\ c <= Len(s)
    OBVIOUS
  <1>2. x \in Seq(S) /\ Len(x) = c /\ \A i \in 1..c : x[i] = s[i]
    BY Beginning
  <1> HIDE DEF x
  <1>3. y \in Seq(S) /\ Len(y) = c - k /\ \A i \in 1..(c - k) : y[i] = x[k + i]
    <2>1. k \in 0..Len(x)
      BY <1>1, <1>2
    <2>2. y \in Seq(S) /\ Len(y) = Len(x) - k /\ \A i \in 1..(Len(x) - k) : y[i] = x[k + i]
      <3>1. x \in Seq(S)
        BY <1>2
      <3> QED
        BY <2>1, <3>1, RestOfText
    <2> HIDE DEF y
    <2> QED
      BY <1>2, <2>2
  <1>4. \A i \in (k + 1)..c : s[i] \in S
    BY <1>1, UnitOfText
  <1>5. z \in Seq(S) /\ Len(z) = c - k /\ \A i \in 1..(c - k) : z[i] = s[k + i]
    BY SMT, <1>1, <1>4
  <1>6. \A i \in 1..(c - k) : x[k + i] = s[k + i]
    BY <1>1, <1>2
  <1> HIDE DEF y, z
  <1>7. y = z
    BY <1>3, <1>5, <1>6, SameText
  <1> QED
    BY <1>7 DEF y, z, x

\* The text to its last whole character, and what it becomes after k units.
WholeText(g) == SubSeq(g.text, 1, Halt(g, 0))
CutAt(g, k) == Halt(g, k) = Halt(g, 0) => Whole(g.from, g.to, After(WholeText(g), k)) = Made(g, k)

\* Cutting the text after its last whole character changes nothing that comes of those before.
LEMMA CutAtOne ==
    ASSUME NEW g \in Jobs, NEW k \in 0..Halt(g, 0),
           \A m \in (k + 1)..Halt(g, 0) : CutAt(g, m)
    PROVE  CutAt(g, k)
  <1> DEFINE s == g.text
             w == g.from
             v == g.to
             c == Halt(g, 0)
             x == WholeText(g)
             r == After(x, k)
             d == Decode(w, After(s, k))
             m == k + d.used
  <1> SUFFICES ASSUME Halt(g, k) = c PROVE Whole(w, v, r) = Made(g, k)
    BY DEF CutAt
  <1>1. w \in Encodings /\ v \in Encodings /\ s \in Seq(Units(w)) /\ Len(s) \in Nat
    BY JobIsFacet
  <1>2. c \in 0..Len(s) /\ Stays(w, s, c)
    <2>1. MadeAt(g, 0)
      BY <1>1, MadeIsFirst
    <2> QED
      BY <2>1, Zenon DEF MadeAt
  <1>3. x \in Seq(Units(w)) /\ Len(x) = c
    <2> HIDE DEF c, s
    <2> QED
      BY <1>1, <1>2, Beginning DEF WholeText, c, s
  <1>4. k \in Nat /\ c \in Nat /\ k <= c /\ k \in 0..Len(s) /\ k \in 0..c
    BY <1>1, <1>2
  <1>5. r \in Seq(Units(w)) /\ (k = c => r = <<>>) /\ (k < c => r # <<>>) /\ Len(r) = c - k
    <2> HIDE DEF x, c, w
    <2>1. k \in 0..Len(x)
      BY <1>3, <1>4
    <2> DEFINE S == Units(w)
    <2> HIDE DEF S
    <2>2. x \in Seq(S)
      BY <1>3 DEF S
    <2>3. r \in Seq(S) /\ Len(r) = Len(x) - k /\ (k < Len(x) => r # <<>>) /\ (k = Len(x) => r = <<>>)
      BY <2>1, <2>2, RestOfText
    <2> QED
      BY <1>3, <2>3, Zenon DEF S
  <1>6. r = SubSeq(s, k + 1, c)
    <2> HIDE DEF c, s, w
    <2>1. x = SubSeq(s, 1, c)
      BY Zenon DEF WholeText, c, s
    <2> QED
      BY <1>1, <1>2, <1>4, <2>1, CutRest
  <1> HIDE DEF r
  <1>7. CASE Stays(w, s, k)
    <2>1. Made(g, k) = <<>> /\ Halt(g, k) = k
      BY <1>4, <1>7, TrackUnfolds
    <2>2. r = <<>>
      BY <1>5, <2>1
    <2>3. Whole(w, v, r) = <<>>
      BY <1>1, <1>5, <2>2, WholeUnfolds
    <2> QED
      BY <2>1, <2>3
  <1>8. CASE ~Stays(w, s, k)
    <2>1. /\ m \in (k + 1)..Len(s) /\ d.used \in Nat
          /\ Made(g, k) = Encode(v, Repaired(d.cp)) \o Made(g, m)
          /\ Halt(g, k) = Halt(g, m)
      BY <1>4, <1>8, TrackUnfolds
    <2> DEFINE a == d.used
    <2>2. c \in m..Len(s)
      <3> HIDE DEF m
      <3>1. m \in 0..Len(s)
        BY <1>4, <2>1
      <3>2. MadeAt(g, m)
        BY <3>1, MadeIsFirst
      <3> QED
        BY <2>1, <3>2, Zenon DEF MadeAt
    <2>3. k < c /\ m <= c /\ m \in (k + 1)..c /\ a \in 0..(c - k) /\ m = k + a
      <3>1. m = k + a /\ a \in Nat
        BY <2>1
      <3> HIDE DEF a, m, c, s
      <3> QED
        BY <1>4, <2>1, <2>2, <3>1
    <2>4. Decode(w, r) = d
      <3> HIDE DEF c, s, w
      <3>1. k + Decode(w, After(s, k)).used <= c
        BY <2>3
      <3>2. Decode(w, SubSeq(s, k + 1, c)) = Decode(w, After(s, k))
        BY <1>1, <1>2, <1>4, <1>8, <2>3, <3>1, CutShows
      <3> QED
        BY <1>6, <3>2
    <2>5. CutAt(g, m)
      BY <2>3
    <2> HIDE DEF m, c
    <2>6. Whole(w, v, After(x, m)) = Made(g, m)
      BY <2>1, <2>5, Zenon DEF CutAt, c
    <2>7. After(r, a) = After(x, m)
      <3> HIDE DEF a, x, w
      <3>1. After(After(x, k), a) = After(x, k + a)
        BY <1>3, <1>4, <2>3, RestOfRest
      <3> QED
        BY <2>3, <3>1, Zenon DEF r
    <2>8. Whole(w, v, r) = Encode(v, Repaired(Decode(w, r).cp)) \o Whole(w, v, After(r, Decode(w, r).used))
      <3>1. r # <<>>
        BY <1>5, <2>3
      <3> HIDE DEF w, v
      <3> QED
        BY <1>1, <1>5, <3>1, WholeUnfolds
    <2> HIDE DEF x
    <2>9. Whole(w, v, r) = Encode(v, Repaired(d.cp)) \o Whole(w, v, After(r, a))
      BY <2>4, <2>8, Zenon
    <2> HIDE DEF a, d, w, v
    <2> QED
      BY <2>1, <2>6, <2>7, <2>9, Zenon
  <1> QED
    BY <1>7, <1>8

\* What is due of a job are its whole characters.
LEMMA DueIsMade ==
    ASSUME NEW g \in Jobs
    PROVE  DueOf[g] = Made(g, 0)
  <1> DEFINE n == Halt(g, 0)
             T == {j \in 0..n : ~CutAt(g, n - j)}
  <1>1. n \in Nat /\ Len(g.text) \in Nat /\ n <= Len(g.text)
    <2>1. Len(g.text) \in Nat /\ 0 \in 0..Len(g.text)
      BY JobIsFacet
    <2>2. MadeAt(g, 0)
      BY <2>1, MadeIsFirst
    <2>3. n \in 0..Len(g.text)
      BY <2>2, Zenon DEF MadeAt
    <2> QED
      BY <2>1, <2>3
  <1>2. CutAt(g, 0)
    <2> SUFFICES ASSUME ~CutAt(g, 0) PROVE FALSE
      OBVIOUS
    <2>1. T # {} /\ T \in SUBSET Nat
      <3>1. n \in 0..n /\ n - n = 0
        BY <1>1
      <3>2. n \in T
        BY <3>1
      <3>3. T \in SUBSET Nat
        BY <1>1
      <3> HIDE DEF T
      <3> QED
        BY <3>2, <3>3
    <2>2. PICK j \in T : \A y \in T : j <= y
      BY <2>1, LeastNumber
    <2> DEFINE i == n - j
    <2>3. i \in 0..n /\ ~CutAt(g, i) /\ j \in Nat
      BY <1>1, <2>2
    <2>4. ASSUME NEW m \in (i + 1)..n PROVE CutAt(g, m)
      <3>1. n - m \in 0..n /\ n - m < j /\ n - (n - m) = m
        BY <1>1, <2>3
      <3>2. n - m \notin T
        BY <2>2, <3>1
      <3> HIDE DEF n
      <3> QED
        BY <3>1, <3>2
    <2> HIDE DEF i
    <2> QED
      BY <2>3, <2>4, CutAtOne
  <1>3. After(WholeText(g), 0) = WholeText(g)
    <2>1. g.text \in Seq(Units(g.from)) /\ n \in 0..Len(g.text)
      BY <1>1, JobIsFacet
    <2> HIDE DEF n
    <2>2. SubSeq(g.text, 1, n) \in Seq(Units(g.from))
      BY <2>1, Beginning
    <2>3. WholeText(g) \in Seq(Units(g.from))
      BY <2>2, Zenon DEF WholeText, n
    <2>4. 0 \in 0..Len(WholeText(g))
      BY <2>3
    <2> QED
      BY <2>3, <2>4, RestOfText
  <1>4. Complete(g) = WholeText(g)
    <2>1. Unfinished(g.from, g.text) = Len(g.text) - n
      BY UnfinishedIsHalt
    <2> HIDE DEF n
    <2>2. Len(g.text) - (Len(g.text) - n) = n
      BY <1>1
    <2> QED
      BY <2>1, <2>2, Zenon DEF Complete, WholeText, n
  <1>5. DueOf[g] = Whole(g.from, g.to, Complete(g))
    BY Zenon DEF DueOf
  <1> QED
    BY <1>2, <1>3, <1>4, <1>5, Zenon DEF CutAt

\* A caller that has read f units and has x in the state stands at a character of the job's text.
OnWay(g, f, x) == Halt(g, IF g.from # 8 /\ x # 0 THEN f - 1 ELSE f) = Halt(g, 0)
Ways == OnWay(given, from, state) /\ (Inward => OnWay(given, mark.from, mark.state))

\* There it has not written more than what comes of the whole characters.
LEMMA WayBounds ==
    ASSUME NEW g \in Jobs, NEW f \in 0..Len(g.text), NEW x, OnWay(g, f, x),
           x # 0 => IF g.from = 8 THEN x \in Units(g.to) ELSE f # 0,
           NEW j, Place(g, j, f, x)
    PROVE  j <= Len(Made(g, 0))
  <1> DEFINE h == Halt(g, 0)
             k == IF g.from # 8 /\ x # 0 THEN f - 1 ELSE f
             a == Left(g, 0)
             l == Left(g, h)
             b == Left(g, k)
             r == ToCome(g, f, x)
             U == Units(g.to)
  <1>1. 0 \in 0..Len(g.text) /\ k \in 0..Len(g.text) /\ Len(g.text) \in Nat
    BY JobIsFacet
  <1>2. MadeAt(g, 0) /\ MadeAt(g, k)
    BY <1>1, MadeIsFirst
  <1>3. Halt(g, k) = h
    BY DEF OnWay
  <1>4. /\ Made(g, 0) \in Seq(U) /\ Made(g, k) \in Seq(U) /\ a = Made(g, 0) \o l /\ b = Made(g, k) \o l
        /\ h \in 0..Len(g.text)
    BY <1>2, <1>3, Zenon DEF MadeAt
  <1>5. l \in Seq(U) /\ b \in Seq(U)
    BY <1>1, <1>4, LeftUnfolds
  <1>6. j \in 0..Len(a) /\ After(a, j) = r
    BY Zenon DEF Place
  <1>7. r = b \/ (r = <<x>> \o b /\ x \in U)
    BY Zenon DEF ToCome
  <1> HIDE DEF k, r, U
  <1>8. a \in Seq(U) /\ Len(a) = Len(Made(g, 0)) + Len(l) /\ Len(b) = Len(Made(g, k)) + Len(l)
        /\ Len(Made(g, 0)) \in Nat /\ Len(Made(g, k)) \in Nat /\ Len(l) \in Nat
    <2> HIDE DEF a, l, b
    <2> QED
      BY <1>4, <1>5, JoinedText
  <1> HIDE DEF a, l, b
  <1>9. Len(r) = Len(a) - j
    <2>1. a \in Seq(U) /\ j \in 0..Len(a)
      BY <1>6, <1>8
    <2>2. Len(After(a, j)) = Len(a) - j
      BY <2>1, RestOfText
    <2> QED
      BY <1>6, <2>2
  <1>10. Len(r) >= Len(b)
    <2>1. CASE r = b
      BY <1>8, <2>1
    <2>2. CASE r = <<x>> \o b /\ x \in U
      <3>1. <<x>> \in Seq(U) /\ Len(<<x>>) = 1
        BY <2>2
      <3>2. Len(<<x>> \o b) = 1 + Len(b)
        BY <1>5, <3>1, JoinedText
      <3> QED
        BY <1>8, <2>2, <3>2
    <2> QED
      BY <1>7, <2>1, <2>2
  <1>11. j \in Nat
    BY <1>6
  <1> QED
    BY <1>8, <1>9, <1>10, <1>11

\* The next character is one of those that lead to the end of the last whole one.
LEMMA WayGoes ==
    ASSUME NEW g \in Jobs, NEW k \in 0..Len(g.text), Halt(g, k) = Halt(g, 0), ~Stays(g.from, g.text, k)
    PROVE  Halt(g, k + Decode(g.from, After(g.text, k)).used) = Halt(g, 0)
  BY TrackUnfolds, Zenon

\* A round of do_in or do_length.
LEMMA WayIn ==
    ASSUME IInv, Ways, Inward, from < end, Decode8(Window).cp # Incomplete
    PROVE  \A x : OnWay(given, from + Decode8(Window).used, x)
  <1>1. /\ given \in Jobs /\ given.from = 8 /\ end \in 0..Len(given.text) /\ from \in 0..end
        /\ from \in 0..Len(given.text)
    BY Typed
  <1>2. given.text \in Seq(Bytes)
    BY <1>1, JobIsFacet
  <1>3. Decode8(After(given.text, from)) = Decode8(Window)
    <2>1. Decode8(Part(given.text, from, end)).cp # Incomplete
      BY WindowIsPart
    <2>2. Decode8(After(given.text, from)) = Decode8(Part(given.text, from, end))
      BY <1>1, <1>2, <2>1, WindowShows
    <2> QED
      BY <2>2, WindowIsPart
  <1>4. Decode(given.from, After(given.text, from)) = Decode8(Window)
    BY <1>1, <1>3 DEF Decode
  <1>5. ~Stays(given.from, given.text, from)
    BY <1>4 DEF Stays
  <1>6. Halt(given, from) = Halt(given, 0)
    BY <1>1 DEF Ways, OnWay
  <1>7. Halt(given, from + Decode8(Window).used) = Halt(given, 0)
    BY <1>1, <1>4, <1>5, <1>6, WayGoes, Zenon
  <1> QED
    BY <1>1, <1>7, Zenon DEF OnWay

\* What a round of do_out reads when the character ends with it.
LEMMA OutReads ==
    ASSUME NEW g \in Jobs, g.from # 8, NEW f \in 0..Len(g.text), f < Len(g.text), NEW x,
           x # 0 => g.from = 16 /\ f # 0 /\ IsFirstSurrogate(g.text[f]),
           x = 0 /\ g.from = 16 => ~IsFirstSurrogate(g.text[f + 1])
    PROVE  LET k == IF x # 0 THEN f - 1 ELSE f
               d == Decode(g.from, After(g.text, k))
           IN k \in 0..Len(g.text) /\ d.cp # Incomplete /\ k + d.used = f + 1
  <1> DEFINE s == g.text
             k == IF x # 0 THEN f - 1 ELSE f
             r == After(s, k)
             d == Decode(g.from, r)
  <1>1. g.from \in {16, 32} /\ s \in Seq(Units(g.from)) /\ Len(s) \in Nat
    BY JobIsFacet DEF Encodings
  <1>2. k \in 0..Len(s) /\ k < Len(s) /\ k \in Nat /\ (x # 0 => k + 1 < Len(s) /\ k + 1 = f)
    BY <1>1
  <1> HIDE DEF k
  <1>3. /\ r \in Seq(Units(g.from)) /\ r # <<>> /\ Len(r) = Len(s) - k /\ r[1] = s[k + 1]
        /\ s[k + 1] \in Units(g.from) /\ (k + 1 < Len(s) => r[2] = s[k + 2])
    <2> DEFINE U == Units(g.from)
    <2>1. s \in Seq(U) /\ k \in 0..Len(s) /\ k < Len(s)
      BY <1>1, <1>2
    <2> HIDE DEF s, U
    <2>2. /\ After(s, k) \in Seq(U) /\ After(s, k) # <<>> /\ Len(After(s, k)) = Len(s) - k
          /\ After(s, k)[1] = s[k + 1] /\ s[k + 1] \in U
          /\ (k + 1 < Len(s) => After(s, k)[2] = s[k + 2])
      BY <2>1, RestStarts
    <2> QED
      BY <2>2 DEF U
  <1> HIDE DEF r
  <1>4. CASE g.from = 32
    <2>1. d = Decode32(r) /\ r[1] \in Nat
      BY <1>3, <1>4 DEF Decode, Units
    <2>2. d = IF IsValidCodepoint(r[1]) THEN Decoded(r[1], 1) ELSE Decoded(Illegal, 1)
      BY <1>3, <2>1 DEF Decode32
    <2>3. d.used = 1 /\ d.cp # Incomplete
      BY <2>1, <2>2, DecodedFields DEF Illegal, Incomplete
    <2>4. k = f
      BY <1>4 DEF k
    <2> HIDE DEF d
    <2>5. k + d.used = f + 1
      BY <2>3, <2>4
    <2> QED
      BY <1>2, <2>3, <2>5, Zenon DEF k, d, r, s
  <1>5. CASE g.from = 16 /\ x = 0
    <2>1. d = Decode16(r) /\ r[1] \in Units16
      BY <1>3, <1>5 DEF Decode, Units
    <2>2. k = f /\ ~IsFirstSurrogate(r[1])
      BY <1>3, <1>5 DEF k
    <2>3. d = Decoded(r[1], 1) \/ d = Decoded(Illegal, 1)
      <3>1. CASE IsSingleCodepoint(r[1])
        <4>1. ~IsSecondSurrogate(r[1])
          BY SMT, <2>1, <3>1 DEF IsSecondSurrogate, IsSingleCodepoint, Units16
        <4> QED
          BY <1>3, <2>1, <2>2, <3>1, <4>1 DEF Decode16
      <3>2. CASE ~IsSingleCodepoint(r[1])
        <4>1. IsSecondSurrogate(r[1])
          BY SMT, <2>1, <2>2, <3>2 DEF IsSecondSurrogate, IsFirstSurrogate, IsSingleCodepoint, Units16
        <4> QED
          BY <1>3, <2>1, <2>2, <3>2, <4>1 DEF Decode16
      <3> QED
        BY <3>1, <3>2
    <2>4. d.used = 1 /\ d.cp # Incomplete
      <3>1. r[1] \in Nat
        BY <2>1 DEF Units16
      <3> QED
        BY <2>3, <3>1, DecodedFields DEF Illegal, Incomplete
    <2> HIDE DEF d
    <2>5. k + d.used = f + 1
      BY <2>2, <2>4
    <2> QED
      BY <1>2, <2>4, <2>5, Zenon DEF k, d, r, s
  <1>6. CASE x # 0
    <2>1. d = Decode16(r) /\ r[1] \in Units16 /\ r[2] \in Units16
      <3>1. g.from = 16
        BY <1>6
      <3>2. s[k + 2] \in Units16
        BY <1>1, <1>2, <1>6, <3>1 DEF Units
      <3> QED
        BY <1>2, <1>3, <1>6, <3>1, <3>2 DEF Decode, Units
    <2>2. IsFirstSurrogate(r[1]) /\ Len(r) # 1
      BY <1>1, <1>2, <1>3, <1>6
    <2>3. ~IsSingleCodepoint(r[1]) /\ ~IsSecondSurrogate(r[1])
      BY SMT, <2>1, <2>2 DEF IsSecondSurrogate, IsFirstSurrogate, IsSingleCodepoint, Units16
    <2>4. d = Decoded(Illegal, 2) \/ d = Decoded(CombineSurrogate(r[1], r[2]), 2)
      BY <1>3, <2>1, <2>2, <2>3 DEF Decode16
    <2>5. CombineSurrogate(r[1], r[2]) # Incomplete /\ Illegal # Incomplete
      BY SMT, <2>1 DEF CombineSurrogate, Units16, Illegal, Incomplete
    <2>6. d.used = 2 /\ d.cp # Incomplete
      <3> DEFINE c == CombineSurrogate(r[1], r[2])
      <3> HIDE DEF c
      <3> QED
        BY <2>4, <2>5, DecodedFields DEF c
    <2> HIDE DEF d
    <2>7. k + d.used = f + 1
      BY <1>2, <1>6, <2>6
    <2> QED
      BY <1>2, <2>6, <2>7, Zenon DEF k, d, r, s
  <1> QED
    BY <1>1, <1>4, <1>5, <1>6

\* do_out stores a character.
LEMMA WayStored ==
    ASSUME IInv, Ways, ~Inward, from < end, from' = from + 1, state' = 0, given' = given,
           state # 0 => from # 0 /\ state = given.text[from],
           state = 0 /\ given.from = 16 => ~IsFirstSurrogate(given.text[from + 1])
    PROVE  OnWay(given, from, state)'
  <1> DEFINE k == IF state # 0 THEN from - 1 ELSE from
             d == Decode(given.from, After(given.text, k))
  <1>1. /\ given \in Jobs /\ given.from # 8 /\ from \in 0..Len(given.text) /\ from < Len(given.text)
        /\ (state # 0 => given.from = 16 /\ IsFirstSurrogate(state))
    BY Typed
  <1>2. k \in 0..Len(given.text) /\ d.cp # Incomplete /\ k + d.used = from + 1
    BY <1>1, OutReads
  <1>3. Halt(given, k) = Halt(given, 0)
    BY <1>1 DEF Ways, OnWay
  <1>4. ~Stays(given.from, given.text, k)
    BY <1>2, Zenon DEF Stays, d
  <1> HIDE DEF k
  <1>5. Halt(given, from + 1) = Halt(given, 0)
    BY <1>1, <1>2, <1>3, <1>4, WayGoes, Zenon
  <1> QED
    BY <1>5 DEF OnWay

LEMMA WayOut ==
    ASSUME IInv, Pieces, Ways, OutHigh16 \/ OutStep16 \/ OutStep32, UNCHANGED given
    PROVE  OnWay(given, from, state)'
  <1> DEFINE w == given.text[from + 1]
  <1>1. ~Inward /\ from < end
    BY DEF OutHigh16, OutStep16, OutStep32, Looping
  <1>2. /\ given \in Jobs /\ given.from # 8 /\ from \in 0..Len(given.text) /\ from < Len(given.text)
        /\ from \in Nat /\ given.text \in Seq(Units(given.from)) /\ end \in Nat /\ end <= Len(given.text)
        /\ CharSize = given.from
    BY <1>1, Typed, JobIsFacet DEF CharSize
  <1>3. Window[1] = w
    BY <1>1, <1>2 DEF Window
  <1>4. state # 0 => from # 0 /\ state = given.text[from]
    BY <1>1 DEF Pieces
  <1>5. OnWay(given, from, state)
    BY DEF Ways
  <1>6. CASE OutHigh16
    <2>1. state = 0 /\ from' = from + 1 /\ (from + 1) - 1 = from
      BY <1>2, <1>6 DEF OutHigh16
    <2>2. state' # 0
      <3>1. IsFirstSurrogate(state')
        BY <1>6 DEF OutHigh16
      <3>2. 0 # 55296 /\ ~(55296 <= 0)
        BY SMT
      <3> QED
        BY <3>1, <3>2, SMT DEF IsFirstSurrogate
    <2> QED
      BY <1>2, <1>5, <2>1, <2>2 DEF OnWay
  <1>7. ASSUME NEW c, StoreOut(c), state = 0 /\ given.from = 16 => ~IsFirstSurrogate(w)
        PROVE  OnWay(given, from, state)'
    <2>1. CASE Width8(c) <= room
      <3>1. state' = 0 /\ from' = from + 1
        BY <1>7, <2>1 DEF StoreOut
      <3> QED
        BY <1>1, <1>4, <1>7, <3>1, WayStored
    <2>2. CASE ~(Width8(c) <= room)
      BY <1>5, <1>7, <2>2 DEF StoreOut
    <2> QED
      BY <2>1, <2>2
  <1>8. CASE OutStep16
    <2>1. state = 0 => ~IsFirstSurrogate(w)
      BY <1>3, <1>8 DEF OutStep16
    <2> QED
      BY <1>7, <1>8, <2>1 DEF OutStep16
  <1>9. CASE OutStep32
    <2>1. given.from # 16
      BY <1>2, <1>9 DEF OutStep32
    <2> QED
      BY <1>7, <1>9, <2>1 DEF OutStep32
  <1> QED
    BY <1>6, <1>8, <1>9

LEMMA NextWays == IInv /\ Pieces /\ Ways /\ [Next]_vars => Ways'
  <1> SUFFICES ASSUME IInv, Pieces, Ways, [Next]_vars PROVE Ways'
    OBVIOUS
  <1>1. OnWay(given, from, state) /\ (Inward => OnWay(given, mark.from, mark.state))
    BY DEF Ways
  <1>2. CASE \E n \in 0..Len(given.text), k \in Rooms : Call(n, k)
    <2>1. PICK n \in 0..Len(given.text), k \in Rooms : Call(n, k)
      BY <1>2
    <2>2. UNCHANGED <<given, from>> /\ mark'.from = from /\ mark'.state = state
          /\ FlushState(k)
      BY <2>1 DEF Call
    <2>3. state' = state \/ (Inward /\ state' = 0)
      BY <2>2 DEF FlushState
    <2> QED
      BY <1>1, <2>2, <2>3 DEF Ways, OnWay, Inward
  <1>3. CASE \E m \in 0..Len(out) : Measure(m)
    <2>1. UNCHANGED <<given, mark>> /\ from' = mark.from /\ Inward
      BY <1>3 DEF Measure
    <2> QED
      BY <1>1, <2>1 DEF Ways, OnWay, Inward
  <1>4. CASE Step
    <2>1. UNCHANGED <<given, mark>>
      BY <1>4 DEF Step
    <2>2. OnWay(given, from, state)'
      <3>1. CASE InIncomplete \/ Return
        BY <1>1, <2>1, <3>1 DEF InIncomplete, Return, OnWay
      <3>2. CASE InStep16 \/ InStep32
        <4>1. /\ Inward /\ from < end /\ Decode8(Window).cp # Incomplete
              /\ from' = from + Decode8(Window).used
          BY <3>2 DEF InStep16, InStep32, Looping
        <4> QED
          BY <2>1, <4>1, WayIn DEF OnWay
      <3>3. CASE OutHigh16 \/ OutStep16 \/ OutStep32
        BY <2>1, <3>3, WayOut
      <3> QED
        BY <1>4, <3>1, <3>2, <3>3 DEF Step
    <2> QED
      BY <1>1, <2>1, <2>2 DEF Ways, OnWay, Inward
  <1>5. CASE LengthStep
    <2>1. UNCHANGED <<given, mark>>
      BY <1>5 DEF LengthStep
    <2>2. OnWay(given, from, state)'
      <3>1. CASE LengthIncomplete \/ LengthReturn
        BY <1>1, <2>1, <3>1 DEF LengthIncomplete, LengthReturn, OnWay
      <3>2. CASE LengthStep16 \/ LengthStep32
        <4>1. /\ at = "length" /\ from < end /\ Decode8(Window).cp # Incomplete
              /\ from' = from + Decode8(Window).used
          BY <3>2 DEF LengthStep16, LengthStep32, Looping
        <4>2. Inward
          BY <4>1, Typed
        <4> QED
          BY <2>1, <4>1, <4>2, WayIn DEF OnWay
      <3> QED
        BY <1>5, <3>1, <3>2 DEF LengthStep
    <2> QED
      BY <1>1, <2>1, <2>2 DEF Ways, OnWay, Inward
  <1>6. CASE UNCHANGED vars
    BY <1>1, <1>6 DEF vars, Ways, OnWay, Inward
  <1> QED
    BY <1>2, <1>3, <1>4, <1>5, <1>6 DEF Next

\* Nothing is written but what comes of the whole characters.
Short == at # "length" => Len(out) <= Len(DueOf[given])

LEMMA WaysShort == IInv /\ Pieces /\ Ways => Short
  <1> SUFFICES ASSUME IInv, Pieces, Ways, at # "length" PROVE Len(out) <= Len(DueOf[given])
    BY DEF Short
  <1>1. given \in Jobs /\ from \in 0..Len(given.text)
    BY Typed
  <1>2. Place(given, Len(out), from, state) /\ OnWay(given, from, state)
    BY DEF Pieces, Ways
  <1>3. state # 0 => IF given.from = 8 THEN state \in Units(given.to) ELSE from # 0
    BY Typed DEF Pieces
  <1> DEFINE j == Len(out)
  <1>4. Place(given, j, from, state)
    BY <1>2
  <1> HIDE DEF j
  <1>5. j <= Len(Made(given, 0))
    BY <1>1, <1>2, <1>3, <1>4, WayBounds
  <1> QED
    BY <1>1, <1>5, DueIsMade DEF j

LEMMA AlwaysShort == Spec => [](IInv /\ Pieces /\ Short)
  <1>1. Init => IInv /\ Pieces /\ Ways
    <2> SUFFICES ASSUME Init PROVE Ways
      BY InitInv, InitPieces
    <2> QED
      BY DEF Init, Ways, OnWay
  <1>2. IInv /\ Pieces /\ Ways /\ [Next]_vars => (IInv /\ Pieces /\ Ways)'
    BY NextInv, NextPieces, NextWays
  <1> QED
    BY <1>1, <1>2, WaysShort, PTL DEF Spec

\* Writing takes nothing back.
LEMMA WriteGrows ==
    ASSUME IInv, NEW U, NEW e \in Seq(U), Write(e)
    PROVE  Len(out') >= Len(out) /\ Len(out') \in Nat
  <1> DEFINE V == U \cup Units(given.to)
  <1>1. out \in Seq(V) /\ e \in Seq(V) /\ Len(out) \in Nat
    BY Typed
  <1> HIDE DEF V
  <1>2. Len(out \o e) = Len(out) + Len(e) /\ Len(e) \in Nat
    BY <1>1, JoinedText
  <1>3. out' = out \o e
    BY DEF Write
  <1> QED
    BY <1>1, <1>2, <1>3

\* A round of do_out takes nothing back.
LEMMA StoreGrows ==
    ASSUME IInv, NEW c \in CodePoints, StoreOut(c)
    PROVE  Len(out') >= Len(out) /\ Len(out') \in Nat
  <1>1. CASE Width8(c) <= room
    <2>1. Write(Encode8(c))
      BY <1>1 DEF StoreOut
    <2>2. Encode8(c) \in Seq(Bytes)
      BY Encode8Bytes
    <2> QED
      BY <2>1, <2>2, WriteGrows
  <1>2. CASE ~(Width8(c) <= room)
    BY <1>2, Typed DEF StoreOut
  <1> QED
    BY <1>1, <1>2

LEMMA OutStepsGrow ==
    ASSUME IInv, OutStep16 \/ OutStep32
    PROVE  Len(out') >= Len(out) /\ Len(out') \in Nat
  <1> DEFINE w == Window[1]
  <1>1. ~Inward /\ from < end /\ TypeOK /\ state \in Nat
    BY DEF OutStep16, OutStep32, Looping, IInv, TypeOK
  <1>2. w \in Nat /\ w \in Units(given.from)
    BY <1>1, ReadsOut
  <1> HIDE DEF w
  <1>3. Replacement \in CodePoints
    BY SMT DEF Replacement, CodePoints, IsValidCodepoint
  <1>4. CASE OutStep16
    <2> DEFINE c == IF state # 0 /\ IsSecondSurrogate(w) THEN CombineSurrogate(state, w)
                    ELSE IF state = 0 /\ IsSingleCodepoint(w) THEN w
                    ELSE Replacement
    <2>1. given.from = 16
      BY <1>1, <1>4 DEF OutStep16, CharSize
    <2>2. w <= 65535
      BY <1>2, <2>1, SMT DEF Units, Units16
    <2>3. CombineSurrogate(state, w) \in CodePoints
      BY <1>1, <1>2, <2>2, SurrogatesCombine
    <2>4. IsSingleCodepoint(w) => w \in CodePoints
      BY SMT, <1>2, <2>2 DEF IsSingleCodepoint, CodePoints, IsValidCodepoint
    <2>5. c \in CodePoints
      BY <1>3, <2>3, <2>4
    <2>6. StoreOut(c)
      BY <1>4 DEF OutStep16, w
    <2> HIDE DEF c
    <2> QED
      BY <2>5, <2>6, StoreGrows
  <1>5. CASE OutStep32
    <2> DEFINE c == IF IsValidCodepoint(w) THEN w ELSE Replacement
    <2>1. c \in CodePoints
      BY SMT, <1>2, <1>3 DEF CodePoints, IsValidCodepoint
    <2>2. StoreOut(c)
      BY <1>5 DEF OutStep32, w
    <2> HIDE DEF c
    <2> QED
      BY <2>1, <2>2, StoreGrows
  <1> QED
    BY <1>4, <1>5

LEMMA InStepsGrow ==
    ASSUME IInv, InStep16 \/ InStep32
    PROVE  Len(out') >= Len(out) /\ Len(out') \in Nat
  <1> DEFINE c == Repaired(Decode8(Window).cp)
             u == Encode16(c)
  <1>1. Inward /\ from < end /\ TypeOK
    BY DEF InStep16, InStep32, Looping, IInv
  <1>2. c \in CodePoints
    BY <1>1, ReadsIn
  <1>3. CASE InStep32
    <2>1. Write(<<c>>)
      BY <1>3 DEF InStep32
    <2> HIDE DEF c
    <2>2. <<c>> \in Seq(CodePoints)
      BY <1>2
    <2> QED
      BY <2>1, <2>2, WriteGrows
  <1>4. CASE InStep16
    <2>1. Write(u) \/ Write(<<u[1]>>)
      BY <1>4 DEF InStep16
    <2> HIDE DEF c
    <2>2. u \in Seq(Units16)
      BY <1>2, Encode16Units
    <2> HIDE DEF u
    <2>3. <<u[1]>> \in Seq({u[1]})
      OBVIOUS
    <2> QED
      BY <2>1, <2>2, <2>3, WriteGrows
  <1> QED
    BY <1>3, <1>4

\* A call and a round of do_in or do_out take nothing back.
LEMMA OutGrows ==
    ASSUME IInv, (\E n \in 0..Len(given.text), k \in Rooms : Call(n, k)) \/ Step
    PROVE  /\ UNCHANGED <<given, rewinds>> /\ at' # "length"
           /\ Len(out') >= Len(out) /\ Len(out') \in Nat
  <1>1. out \in Seq(Units(given.to)) /\ Len(out) \in Nat
    BY Typed
  <1>2. CASE \E n \in 0..Len(given.text), k \in Rooms : Call(n, k)
    <2>1. PICK n \in 0..Len(given.text), k \in Rooms : Call(n, k)
      BY <1>2
    <2>2. UNCHANGED <<given, rewinds>> /\ at' = "loop" /\ FlushState(k)
      BY <2>1 DEF Call
    <2>3. out' = out \/ out' = Append(out, state)
      BY <2>2 DEF FlushState
    <2>4. Len(Append(out, state)) = Len(out) + 1
      BY <1>1
    <2> QED
      BY <1>1, <2>2, <2>3, <2>4
  <1>3. CASE Step
    <2>1. UNCHANGED <<given, rewinds>>
      BY <1>3 DEF Step
    <2>2. CASE InIncomplete \/ Return \/ OutHigh16
      BY <1>1, <2>1, <2>2 DEF InIncomplete, Return, OutHigh16, Looping
    <2>3. CASE InStep16 \/ InStep32
      <3>1. at' # "length"
        BY <2>3 DEF InStep16, InStep32, Looping
      <3> QED
        BY <2>1, <2>3, <3>1, InStepsGrow
    <2>4. CASE OutStep16 \/ OutStep32
      <3>1. at' # "length"
        BY <2>4 DEF OutStep16, OutStep32, StoreOut, Looping
      <3> QED
        BY <2>1, <2>4, <3>1, OutStepsGrow
    <2> QED
      BY <1>3, <2>2, <2>3, <2>4 DEF Step
  <1> QED
    BY <1>2, <1>3

LEMMA DueIsText ==
    ASSUME NEW g \in Jobs
    PROVE  Len(DueOf[g]) \in Nat
  <1> DEFINE m == Made(g, 0)
  <1>1. 0 \in 0..Len(g.text)
    BY JobIsFacet
  <1>2. m \in Seq(Units(g.to))
    BY <1>1, MadeIsFirst, Zenon DEF MadeAt
  <1> HIDE DEF m
  <1>3. Len(m) \in Nat
    BY <1>2
  <1> QED
    BY <1>3, DueIsMade DEF m

\* A text that begins as the whole does, and is no longer than what is due, begins what is due.
LEMMA DueBegins ==
    ASSUME NEW g \in Jobs, NEW o, Prefix(g, o), Len(o) <= Len(DueOf[g])
    PROVE  o = SubSeq(DueOf[g], 1, Len(o))
  <1> DEFINE m == Made(g, 0)
             a == Left(g, 0)
             l == Left(g, Halt(g, 0))
             U == Units(g.to)
             n == Len(o)
             x == SubSeq(a, 1, n)
             y == SubSeq(m, 1, n)
  <1>1. 0 \in 0..Len(g.text) /\ DueOf[g] = m
    BY JobIsFacet, DueIsMade
  <1>2. MadeAt(g, 0)
    BY <1>1, MadeIsFirst
  <1>3. m \in Seq(U) /\ a = m \o l /\ Halt(g, 0) \in 0..Len(g.text)
    BY <1>2, Zenon DEF MadeAt
  <1>4. l \in Seq(U) /\ a \in Seq(U)
    BY <1>1, <1>3, LeftUnfolds
  <1>5. n \in 0..Len(a) /\ x = o
    BY Zenon DEF Prefix
  <1> HIDE DEF m, a, l, U
  <1>6. Len(a) \in Nat /\ Len(m) \in Nat /\ \A i \in 1..Len(m) : a[i] = m[i]
    BY <1>3, <1>4, JoinedText
  <1>7. n \in 0..Len(m) /\ n \in Nat
    BY <1>1, <1>5, <1>6
  <1> HIDE DEF n
  <1>8. x \in Seq(U) /\ Len(x) = n /\ \A i \in 1..n : x[i] = a[i]
    BY <1>4, <1>5, Beginning
  <1>9. y \in Seq(U) /\ Len(y) = n /\ \A i \in 1..n : y[i] = m[i]
    BY <1>3, <1>7, Beginning
  <1> HIDE DEF x, y
  <1>10. \A i \in 1..Len(x) : x[i] = y[i]
    BY <1>6, <1>7, <1>8, <1>9
  <1>11. x = y
    BY <1>8, <1>9, <1>10, SameText
  <1> QED
    BY <1>1, <1>5, <1>11 DEF x, y, n

\* A call and a round of do_in or do_out write a further piece of what is due, or nothing.
LEMMA StepDelivers ==
    ASSUME IInv, Pieces, Pieces', Short',
           (\E n \in 0..Len(given.text), k \in Rooms : Call(n, k)) \/ Step
    PROVE  Promise!Deliver \/ UNCHANGED Promise!vars
  <1>1. UNCHANGED <<given, rewinds>> /\ Len(out') >= Len(out) /\ Len(out') \in Nat /\ at' # "length"
    BY OutGrows
  <1>2. given \in Jobs /\ Len(out) \in Nat /\ Prefix(given, out)
    BY Typed DEF Pieces
  <1>3. Prefix(given', out')
    BY DEF Pieces
  <1>4. Prefix(given, out')
    BY <1>1, <1>3
  <1>5. Len(out') <= Len(DueOf[given])
    BY <1>1 DEF Short
  <1> DEFINE o == out'
  <1> HIDE DEF o
  <1>6. Prefix(given, o) /\ Len(o) <= Len(DueOf[given])
    BY <1>4, <1>5 DEF o
  <1>7. o = SubSeq(DueOf[given], 1, Len(o))
    BY <1>2, <1>6, DueBegins
  <1>8. CASE Len(o) = Len(out)
    <2>1. o = out
      BY <1>2, <1>6, <1>8, Zenon DEF Prefix
    <2> QED
      BY <1>1, <2>1 DEF Promise!vars, o
  <1>9. CASE Len(o) # Len(out)
    <2>1. Len(DueOf[given]) \in Nat
      BY <1>2, DueIsText
    <2>2. Len(o) \in Len(out) + 1 .. Len(DueOf[given])
      BY <1>1, <1>2, <1>6, <1>9, <2>1 DEF o
    <2>3. \E n \in Len(out) + 1 .. Len(DueOf[given]) : out' = SubSeq(DueOf[given], 1, n)
      BY <1>7, <2>2 DEF o
    <2> QED
      BY <1>1, <2>3 DEF Promise!Deliver
  <1> QED
    BY <1>8, <1>9

\* do_length leads the caller back to a place in what was written.
LEMMA MeasureRewinds ==
    ASSUME IInv, \E m \in 0..Len(out) : Measure(m)
    PROVE  Promise!Rewind
  <1>1. PICK m \in 0..Len(out) : Measure(m)
    OBVIOUS
  <1>2. rewinds > 0 /\ rewinds' = rewinds - 1 /\ given' = given
        /\ out' = SubSeq(out, 1, mark.out + m) /\ mark.out + m <= Len(out)
    BY <1>1 DEF Measure
  <1>3. mark.out \in Nat /\ Len(out) \in Nat
    BY Typed
  <1>4. mark.out + m \in 0..Len(out)
    BY <1>2, <1>3
  <1> QED
    BY <1>2, <1>4 DEF Promise!Rewind

\* However the caller cuts the text into calls and whatever room it offers: each step of the facet
\* writes a further piece of the text converted to its last whole character, or goes back to a
\* place in what was written, or changes nothing that the caller could see of the output.
THEOREM ComesOutInOrder == Spec => Promise!Init /\ [][Promise!Next]_(Promise!vars)
  <1> DEFINE I == IInv /\ Pieces /\ Short
  <1>1. Spec => []I
    BY AlwaysShort
  <1>2. Init => Promise!Init
    BY RewindsAssumption DEF Init, Promise!Init
  <1>3. I /\ I' /\ [Next]_vars => [Promise!Next]_(Promise!vars)
    <2> SUFFICES ASSUME I, I', [Next]_vars PROVE [Promise!Next]_(Promise!vars)
      OBVIOUS
    <2>1. CASE (\E n \in 0..Len(given.text), k \in Rooms : Call(n, k)) \/ Step
      BY <2>1, StepDelivers DEF Promise!Next
    <2>2. CASE \E m \in 0..Len(out) : Measure(m)
      BY <2>2, MeasureRewinds DEF Promise!Next
    <2>3. CASE LengthStep \/ UNCHANGED vars
      BY <2>3 DEF LengthStep, vars, Promise!vars
    <2> QED
      BY <2>1, <2>2, <2>3 DEF Next
  <1> HIDE DEF I
  <1> QED
    BY <1>1, <1>2, <1>3, PTL DEF Spec
=============================================================================
