--------------------------- MODULE ConvertProofs ---------------------------
(***************************************************************************)
(* convert_buffer stays inside the caller's buffer, a buffer of max_width  *)
(* units for each unit of the text is always large enough, and what it     *)
(* stores is what convert_string yields. Whatever comes out is a text,     *)
(* with the characters of the text that went in.                           *)
(***************************************************************************)
EXTENDS Convert, UtfProofs

LEMMA CallFields ==
    ASSUME TypeOK
    PROVE  /\ given.from \in Encodings /\ given.to \in Encodings
           /\ given.text \in Seq(Units(given.from))
           /\ given.size \in Nat
           /\ given.into \in {"buffer", "string"}
<1>1. PICK p \in Conversions : given \in Calls(p)
  BY DEF TypeOK
<1>2. p[1] \in Encodings /\ p[2] \in Encodings
  BY ConversionsAssumption
<1>3. Texts(p[1]) \subseteq Seq(Units(p[1]))
  BY <1>2, TextsAssumption
<1>4. CASE given \in [from : {p[1]}, to : {p[2]}, text : Texts(p[1]), into : {"buffer"}, size : Sizes]
  BY <1>2, <1>3, <1>4, SizesAssumption
<1>5. CASE given \in [from : {p[1]}, to : {p[2]}, text : Texts(p[1]), into : {"string"}, size : {0}]
  BY <1>2, <1>3, <1>5
<1> QED BY <1>1, <1>4, <1>5 DEF Calls

LEMMA AfterIsSuffix ==
    ASSUME NEW S, NEW s \in Seq(S), NEW n \in 1..Len(s)
    PROVE  After(s, n) \in Seq(S) /\ Len(After(s, n)) = Len(s) - n
<1>1. n \in Nat /\ Len(s) \in Nat /\ 1 <= n /\ n <= Len(s)
  OBVIOUS
<1>2. \A i \in (n + 1)..Len(s) : s[i] \in S
  BY <1>1, UnitOfText
<1> QED BY SMT, <1>1, <1>2 DEF After

LEMMA Joined ==
    ASSUME NEW S, NEW a \in Seq(S), NEW b \in Seq(S)
    PROVE  a \o b \in Seq(S) /\ Len(a \o b) = Len(a) + Len(b)
OBVIOUS

LEMMA Appended ==
    ASSUME NEW S, NEW a \in Seq(S), NEW e \in S
    PROVE  Append(a, e) \in Seq(S) /\ Len(Append(a, e)) = Len(a) + 1 /\ Len(a) \in Nat
OBVIOUS

\* One code point costs w <= M units of room and at least one of the n - i units left.
LEMMA OneStep ==
    ASSUME NEW M \in {1, 2, 4}, NEW w \in 1..M, NEW n \in Nat, NEW i \in Nat, NEW j \in Nat,
           j < i, NEW x \in Int, x <= M * (n - i)
    PROVE  x + w <= M * (n - j)
<1>1. CASE M = 1 BY SMT, <1>1
<1>2. CASE M = 2 BY SMT, <1>2
<1>3. CASE M = 4 BY SMT, <1>3
<1> QED BY <1>1, <1>2, <1>3

LEMMA MaxWidths ==
    ASSUME NEW w \in Encodings
    PROVE  MaxWidth(w) \in {1, 2, 4}
BY DEF MaxWidth, Encodings

\* How the room shrinks with the text: max_width units at most for each unit that is read.
Pace ==
    /\ Len(source) <= Len(given.text)
    /\ state = "entry" => source = given.text /\ output = <<>> /\ room = given.size
    /\ state = "loop" /\ given.into = "buffer" =>
           given.size - 1 - room <= MaxWidth(given.to) * (Len(given.text) - Len(source))
    /\ state = "full" => given.into = "buffer"
    /\ state \in {"full", "refused"} =>
           given.size < Len(given.text) * MaxWidth(given.to) + 1

IInv == TypeOK /\ WithinBuffer /\ Pace

LEMMA InitInv == Init => IInv
<1> SUFFICES ASSUME Init PROVE IInv
  OBVIOUS
<1>1. PICK p \in Conversions : given \in Calls(p)
  BY DEF Init
<1>2. given.size \in Nat /\ given.text \in Seq(Units(given.from))
  <2>1. CASE given \in [from : {p[1]}, to : {p[2]}, text : Texts(p[1]), into : {"buffer"}, size : Sizes]
    BY <2>1, ConversionsAssumption, TextsAssumption, SizesAssumption
  <2>2. CASE given \in [from : {p[1]}, to : {p[2]}, text : Texts(p[1]), into : {"string"}, size : {0}]
    BY <2>2, ConversionsAssumption, TextsAssumption
  <2> QED BY <1>1, <2>1, <2>2 DEF Calls
<1>3. TypeOK
  BY <1>1, <1>2 DEF Init, TypeOK
<1>4. WithinBuffer /\ Pace
  BY <1>2 DEF Init, WithinBuffer, Pace
<1> QED BY <1>3, <1>4 DEF IInv

LEMMA EnterInv ==
    ASSUME IInv, Enter
    PROVE  IInv'
<1>1. /\ given.size \in Nat /\ given.to \in Encodings /\ given.into \in {"buffer", "string"}
      /\ given.text \in Seq(Units(given.from))
  BY CallFields DEF IInv
<1>2. /\ state = "entry" /\ source = given.text /\ output = <<>> /\ room = given.size
      /\ UNCHANGED <<given, source, output>>
  BY DEF IInv, Pace, Enter
<1>3. Len(given.text) \in Nat /\ Len(output) = 0
  BY <1>1, <1>2
<1>4. MaxWidth(given.to) \in {1, 2, 4}
  BY <1>1, MaxWidths
<1>5. CASE given.into = "buffer" /\ room = 0
  <2>1. state' = "refused" /\ room' = room
    BY <1>5 DEF Enter
  <2>2. TypeOK'
    BY <1>2, <2>1 DEF IInv, TypeOK
  <2>3. WithinBuffer'
    BY <1>1, <1>2, <1>3, <2>1 DEF WithinBuffer
  <2>4. given.size < Len(given.text) * MaxWidth(given.to) + 1
    BY SMT, <1>2, <1>3, <1>4, <1>5
  <2>5. Pace'
    BY SMT, <1>2, <1>3, <2>1, <2>4 DEF Pace
  <2> QED BY <2>2, <2>3, <2>5 DEF IInv
<1>6. CASE ~(given.into = "buffer" /\ room = 0)
  <2>1. /\ state' = "loop"
        /\ room' = IF given.into = "buffer" THEN room - 1 ELSE room
    BY <1>6 DEF Enter
  <2>2. room' \in Nat
    BY SMT, <1>1, <1>2, <1>6, <2>1
  <2>3. TypeOK'
    BY <1>2, <2>1, <2>2 DEF IInv, TypeOK
  <2>4. WithinBuffer'
    BY SMT, <1>1, <1>2, <1>3, <2>1 DEF WithinBuffer
  <2>5. Pace'
    BY SMT, <1>1, <1>2, <1>3, <1>4, <2>1 DEF Pace
  <2> QED BY <2>3, <2>4, <2>5 DEF IInv
<1> QED BY <1>5, <1>6

LEMMA TranscodeInv ==
    ASSUME IInv, Transcode
    PROVE  IInv'
<1> DEFINE d == Decode(given.from, source)
           c == Repaired(d.cp)
           M == MaxWidth(given.to)
           w == Width(given.to, c)
<1>1. /\ given.size \in Nat /\ given.to \in Encodings /\ given.from \in Encodings
      /\ given.into \in {"buffer", "string"}
      /\ given.text \in Seq(Units(given.from))
  BY CallFields DEF IInv
<1>2. /\ state = "loop" /\ source # <<>> /\ given' = given
      /\ source' = After(source, d.used)
  BY DEF Transcode
<1>3. /\ source \in Seq(Units(given.from)) /\ output \in Seq(Units(given.to)) /\ room \in Nat
  BY DEF IInv, TypeOK
<1>4. d.cp \in Results /\ d.used \in 1..Len(source)
  BY <1>1, <1>2, <1>3, DecodeProgress
<1>5. c \in CodePoints
  BY <1>4, RepairedIsCodePoint
<1>6. /\ Encode(given.to, c) \in Seq(Units(given.to))
      /\ Len(Encode(given.to, c)) = w
      /\ w \in 1..M
  BY <1>1, <1>5, EncodeHasItsWidth, WidthBounds
<1>7. M \in {1, 2, 4}
  BY <1>1, MaxWidths
<1>8. /\ source' \in Seq(Units(given.from))
      /\ Len(source) \in Nat /\ Len(source') \in Nat /\ Len(source') < Len(source)
  BY SMT, <1>2, <1>3, <1>4, AfterIsSuffix
<1>9. /\ Len(given.text) \in Nat /\ Len(output) \in Nat /\ Len(source) <= Len(given.text)
  BY <1>1, <1>3 DEF IInv, Pace
<1>10. given.into = "buffer" =>
           /\ Len(output) + room + 1 = given.size
           /\ given.size - 1 - room <= M * (Len(given.text) - Len(source))
  BY <1>2 DEF IInv, WithinBuffer, Pace
<1> HIDE DEF d, c, M, w
<1>11. CASE Fits(d.cp)
  <2>1. /\ state' = state
        /\ output' = output \o Encode(given.to, c)
        /\ room' = IF given.into = "buffer" THEN room - w ELSE room
        /\ given.into = "buffer" => room >= w
    BY <1>11 DEF Transcode, Store, Fits, d, c, w
  <2>2. /\ output' \in Seq(Units(given.to))
        /\ Len(output') = Len(output) + w
    BY <2>1, <1>3, <1>6, Joined
  <2>3. room' \in Nat
    BY SMT, <2>1, <1>3, <1>6, <1>7
  <2>4. TypeOK'
    BY <2>1, <2>2, <2>3, <1>2, <1>8 DEF IInv, TypeOK
  <2>5. WithinBuffer'
    <3>1. w \in Nat
      BY SMT, <1>6, <1>7
    <3>2. given.into = "buffer" =>
              Len(output') + room' + 1 = given.size /\ Len(output') <= given.size
      BY SMT, <3>1, <2>1, <2>2, <2>3, <1>1, <1>3, <1>9, <1>10
    <3> QED BY <3>2, <2>1, <1>2 DEF WithinBuffer
  <2>6. given.into = "buffer" =>
            given.size - 1 - room' <= M * (Len(given.text) - Len(source'))
    <3>1. SUFFICES ASSUME given.into = "buffer"
                   PROVE  given.size - 1 - room' <= M * (Len(given.text) - Len(source'))
      OBVIOUS
    <3>2. given.size - 1 - room \in Int
      BY SMT, <1>1, <1>3
    <3>3. (given.size - 1 - room) + w <= M * (Len(given.text) - Len(source'))
      BY <3>1, <3>2, <1>6, <1>7, <1>8, <1>9, <1>10, OneStep
    <3>4. w \in Nat
      BY SMT, <1>6, <1>7
    <3>5. given.size - 1 - room' = (given.size - 1 - room) + w
      BY SMT, <3>1, <3>4, <2>1, <1>1, <1>3
    <3> QED BY <3>3, <3>5
  <2>7. Len(source') <= Len(given.text)
    BY SMT, <1>8, <1>9
  <2>8. Pace'
    BY <2>1, <2>6, <2>7, <1>2 DEF Pace, M
  <2> QED BY <2>4, <2>5, <2>8 DEF IInv
<1>12. CASE ~Fits(d.cp)
  <2>1. /\ state' = "full" /\ output' = output /\ room' = room
        /\ given.into = "buffer" /\ ~(room >= w)
    BY <1>12 DEF Transcode, Fits, d, c, w
  <2>2. TypeOK'
    BY <2>1, <1>2, <1>8 DEF IInv, TypeOK
  <2>3. WithinBuffer'
    BY SMT, <2>1, <1>1, <1>2, <1>3, <1>9, <1>10 DEF WithinBuffer
  <2>4. given.size < Len(given.text) * M + 1
    <3>1. CASE M = 1 BY SMT, <3>1, <2>1, <1>1, <1>3, <1>6, <1>8, <1>9, <1>10
    <3>2. CASE M = 2 BY SMT, <3>2, <2>1, <1>1, <1>3, <1>6, <1>8, <1>9, <1>10
    <3>3. CASE M = 4 BY SMT, <3>3, <2>1, <1>1, <1>3, <1>6, <1>8, <1>9, <1>10
    <3> QED BY <1>7, <3>1, <3>2, <3>3
  <2>5. Len(source') <= Len(given.text)
    BY SMT, <1>8, <1>9
  <2>6. Pace'
    BY <2>1, <2>4, <2>5, <1>2 DEF Pace, M
  <2> QED BY <2>2, <2>3, <2>6 DEF IInv
<1> QED BY <1>11, <1>12

LEMMA TerminateInv ==
    ASSUME IInv, Terminate
    PROVE  IInv'
<1>1. given.size \in Nat /\ given.into \in {"buffer", "string"} /\ given.to \in Encodings
  BY CallFields DEF IInv
<1>2. /\ state \in {"full", "loop"}
      /\ state' = IF state = "full" THEN "refused" ELSE "done"
      /\ output' = IF given.into = "buffer" THEN Append(output, 0) ELSE output
      /\ UNCHANGED <<given, source, room>>
  BY DEF Terminate
<1>3. output \in Seq(Units(given.to)) /\ room \in Nat
  BY DEF IInv, TypeOK
<1>4. 0 \in Units(given.to)
  BY SMT, <1>1 DEF Units, Bytes, Units16, Encodings
<1>5. /\ output' \in Seq(Units(given.to))
      /\ Len(output) \in Nat
      /\ given.into = "buffer" => Len(output') = Len(output) + 1
  BY <1>2, <1>3, <1>4, Appended
<1>6. TypeOK'
  BY <1>2, <1>5 DEF IInv, TypeOK
<1>7. given.into = "buffer" => Len(output) + room + 1 = given.size
  BY <1>2 DEF IInv, WithinBuffer
<1>8. WithinBuffer'
  BY SMT, <1>1, <1>2, <1>3, <1>5, <1>7 DEF WithinBuffer
<1>9. Pace'
  BY <1>2 DEF IInv, Pace
<1> QED BY <1>6, <1>8, <1>9 DEF IInv

LEMMA NextInv == IInv /\ [Next]_vars => IInv'
<1> SUFFICES ASSUME IInv, [Next]_vars PROVE IInv'
  OBVIOUS
<1>1. CASE Enter BY <1>1, EnterInv
<1>2. CASE Transcode BY <1>2, TranscodeInv
<1>3. CASE Terminate BY <1>3, TerminateInv
<1>4. CASE UNCHANGED vars
  BY <1>4 DEF vars, IInv, TypeOK, WithinBuffer, Pace
<1> QED BY <1>1, <1>2, <1>3, <1>4 DEF Next

LEMMA AlwaysIInv == Spec => []IInv
BY InitInv, NextInv, PTL DEF Spec

\* The variables of convert_buffer and convert_string keep their types for every text, encoding
\* and buffer size: buffer_size, a size_t, never wraps below zero.
THEOREM ConvertTypeCorrect == Spec => []TypeOK
<1>1. IInv => TypeOK
  BY DEF IInv
<1> QED BY <1>1, AlwaysIInv, PTL

\* convert_buffer never writes past the end of a buffer, of any size, for any text.
THEOREM ConvertStaysInside == Spec => []WithinBuffer
<1>1. IInv => WithinBuffer
  BY DEF IInv
<1> QED BY <1>1, AlwaysIInv, PTL

\* For every text, max_width units for each of its units and one for the NUL are enough:
\* convert_buffer does not return a null pointer to basic_stackstring, which allocates that many.
THEOREM HeapAllocationSuffices == Spec => []HeapSizeSuffices
<1>1. IInv => HeapSizeSuffices
  BY DEF IInv, Pace, HeapSizeSuffices
<1> QED BY <1>1, AlwaysIInv, PTL

\* For every text, at every position a conversion reaches and finds a code point at, decode_valid,
\* trail_length and is_trail agree with decode.
THEOREM EveryReaderAgrees == Spec => []ReadersAgree
<1>1. IInv => ReadersAgree
  <2> SUFFICES ASSUME IInv, state = "loop", source # <<>>,
                      Decode(given.from, source).cp \in CodePoints
               PROVE  Agree(given.from, source)
    BY DEF ReadersAgree, Agree
  <2>1. given.from \in Encodings
    BY CallFields DEF IInv
  <2>2. source \in Seq(Units(given.from))
    BY DEF IInv, TypeOK
  <2> QED BY <2>1, <2>2, DecodeValidAgrees
<1> QED BY <1>1, AlwaysIInv, PTL

----------------------------------------------------------------------------
\* What is stored.

\* What is left to do, with what is done, makes up the text converted in one piece; when the room
\* has run out that and the NUL are too long.
OnTheWay ==
    LET whole == Whole(given.from, given.to, given.text)
    IN /\ state = "loop" => output \o Whole(given.from, given.to, source) = whole
       /\ state = "done" => /\ Stored = whole
                            /\ given.into = "buffer" => Len(whole) < given.size
       /\ state \in {"full", "refused"} => Len(whole) >= given.size

LEMMA EnterOnTheWay ==
    ASSUME IInv, Enter
    PROVE  OnTheWay'
  <1> DEFINE whole == Whole(given.from, given.to, given.text)
  <1>1. /\ given.from \in Encodings /\ given.to \in Encodings /\ given.size \in Nat
        /\ given.text \in Seq(Units(given.from))
    BY CallFields DEF IInv
  <1>2. /\ state = "entry" /\ source = given.text /\ output = <<>> /\ room = given.size
        /\ UNCHANGED <<given, source, output>>
        /\ state' = IF given.into = "buffer" /\ room = 0 THEN "refused" ELSE "loop"
    BY DEF IInv, Pace, Enter
  <1>3. whole \in Seq(Units(given.to)) /\ Len(whole) \in Nat
    <2>1. whole \in Seq(Units(given.to))
      BY <1>1, WholeType
    <2> HIDE DEF whole
    <2> QED
      BY <2>1
  <1>4. <<>> \in Seq(Units(given.to))
    OBVIOUS
  <1>5. whole' = whole
    BY <1>2
  <1> HIDE DEF whole
  <1>6. <<>> \o whole = whole
    BY <1>3, <1>4, JoinedText
  <1>7. state' = "loop" => output' \o Whole(given.from, given.to, source)' = whole
    BY <1>2, <1>6 DEF whole
  <1>8. state' = "refused" => Len(whole) >= given'.size
    BY <1>1, <1>2, <1>3
  <1> QED
    BY <1>2, <1>5, <1>7, <1>8 DEF OnTheWay, whole

LEMMA TranscodeOnTheWay ==
    ASSUME IInv, OnTheWay, Transcode
    PROVE  OnTheWay'
  <1> DEFINE d == Decode(given.from, source)
             e == Encode(given.to, Repaired(d.cp))
             n == Width(given.to, Repaired(d.cp))
             x == Whole(given.from, given.to, After(source, d.used))
             whole == Whole(given.from, given.to, given.text)
             y == Whole(given.from, given.to, source)
             U == Units(given.to)
  <1>1. /\ given.from \in Encodings /\ given.to \in Encodings /\ given.size \in Nat
        /\ source \in Seq(Units(given.from)) /\ output \in Seq(U) /\ room \in Nat
    BY CallFields DEF IInv, TypeOK
  <1>2. /\ state = "loop" /\ source # <<>> /\ given' = given
        /\ source' = After(source, d.used)
    BY DEF Transcode
  <1>3. d.cp \in Results /\ d.used \in 0..Len(source)
    BY <1>1, <1>2, DecodeProgress
  <1>4. e \in Seq(U) /\ Len(e) = n
    BY <1>1, <1>3, RepairedIsCodePoint, EncodeHasItsWidth
  <1>5. After(source, d.used) \in Seq(Units(given.from))
    BY <1>1, <1>3, RestOfText
  <1>6. x \in Seq(U)
    BY <1>1, <1>5, WholeType
  <1>7. y = e \o x
    BY <1>1, <1>2, WholeUnfolds
  <1>8. output \o y = whole
    BY <1>2 DEF OnTheWay
  <1>9. whole' = whole /\ Whole(given.from, given.to, source)' = x
    BY <1>2
  <1>10. given.into = "buffer" => Len(output) + room + 1 = given.size
    BY <1>2 DEF IInv, WithinBuffer
  <1>11. CASE Fits(d.cp)
    <2>1. state' = "loop" /\ output' = output \o e
      BY <1>2, <1>11 DEF Transcode, Store
    <2> HIDE DEF e, x, y, whole, U
    <2>2. output' \o x = whole
      <3>1. (output \o e) \o x = output \o (e \o x)
        BY <1>1, <1>4, <1>6, JoinAssociates
      <3> QED
        BY <1>7, <1>8, <2>1, <3>1, Zenon
    <2>3. (output \o y)' = whole'
      BY <1>9, <2>2 DEF y
    <2> QED
      BY <2>1, <2>3 DEF OnTheWay, y, whole
  <1>12. CASE ~Fits(d.cp)
    <2>1. state' = "full" /\ given.into = "buffer" /\ ~(room >= n)
      BY <1>2, <1>12 DEF Transcode, Fits
    <2> HIDE DEF d, e, x, y, whole, U, n
    <2>2. Len(whole) = Len(output) + (n + Len(x)) /\ Len(output) \in Nat /\ Len(x) \in Nat
          /\ n \in Nat
      BY <1>1, <1>4, <1>6, <1>7, <1>8, JoinedText
    <2>3. Len(whole) >= given.size
      BY <1>1, <1>10, <2>1, <2>2
    <2>4. Len(whole') >= given'.size
      BY <1>2, <1>9, <2>3
    <2> QED
      BY <2>1, <2>4 DEF OnTheWay, whole
  <1> QED
    BY <1>11, <1>12

LEMMA TerminateOnTheWay ==
    ASSUME IInv, OnTheWay, Terminate
    PROVE  OnTheWay'
  <1> DEFINE whole == Whole(given.from, given.to, given.text)
             U == Units(given.to)
  <1>1. /\ given.from \in Encodings /\ given.to \in Encodings /\ given.size \in Nat
        /\ source \in Seq(Units(given.from)) /\ output \in Seq(U) /\ room \in Nat
    BY CallFields DEF IInv, TypeOK
  <1>2. /\ UNCHANGED <<given, source, room>>
        /\ output' = IF given.into = "buffer" THEN Append(output, 0) ELSE output
        /\ state' = IF state = "full" THEN "refused" ELSE "done"
        /\ state = "full" \/ (state = "loop" /\ source = <<>>)
    BY DEF Terminate
  <1>3. whole' = whole
    BY <1>2
  <1>4. CASE state = "full"
    <2>1. Len(whole) >= given.size
      BY <1>4 DEF OnTheWay
    <2> HIDE DEF whole
    <2>2. Len(whole') >= given'.size
      BY <1>2, <1>3, <2>1
    <2> QED
      BY <1>2, <1>4, <2>2 DEF OnTheWay, whole
  <1>5. CASE state = "loop" /\ source = <<>>
    <2>1. Whole(given.from, given.to, source) = <<>>
      BY <1>1, <1>5, WholeUnfolds
    <2>2. output \o <<>> = whole
      BY <1>5, <2>1 DEF OnTheWay
    <2>3. output = whole
      <3>1. <<>> \in Seq(U)
        OBVIOUS
      <3> HIDE DEF whole, U
      <3> QED
        BY <1>1, <2>2, <3>1, JoinedText
    <2>4. given.into = "buffer" => Len(output) + room + 1 = given.size
      BY <1>5 DEF IInv, WithinBuffer
    <2>5. Len(output) \in Nat /\ (given.into = "buffer" => Len(whole) < given.size)
      <3>1. Len(output) \in Nat
        BY <1>1
      <3> HIDE DEF whole
      <3> QED
        BY <1>1, <2>3, <2>4, <3>1
    <2>6. Stored' = output
      <3>1. CASE given.into = "buffer"
        <4>1. SubSeq(Append(output, 0), 1, Len(Append(output, 0)) - 1) = output
          <5>1. 0 \in Nat /\ output \in Seq(Nat)
            <6>1. U \subseteq Nat
              BY <1>1 DEF Units, Encodings, Bytes, Units16
            <6> QED
              BY <1>1, <6>1
          <5> QED
            BY <5>1
        <4> QED
          BY <1>2, <1>5, <3>1, <4>1 DEF Stored
      <3>2. CASE given.into # "buffer"
        BY <1>2, <1>5, <3>2 DEF Stored
      <3> QED
        BY <3>1, <3>2
    <2>7. Stored' = whole'
      BY <1>3, <2>3, <2>6
    <2> HIDE DEF whole
    <2>8. state' = "done" /\ (given'.into = "buffer" => Len(whole') < given'.size)
      BY <1>2, <1>3, <1>5, <2>5
    <2> QED
      BY <2>7, <2>8 DEF OnTheWay, whole
  <1> QED
    BY <1>2, <1>4, <1>5

LEMMA AlwaysOnTheWay == Spec => []OnTheWay
  <1>1. Init => OnTheWay
    BY DEF Init, OnTheWay
  <1>2. IInv /\ OnTheWay /\ [Next]_vars => OnTheWay'
    <2> SUFFICES ASSUME IInv, OnTheWay, [Next]_vars PROVE OnTheWay'
      OBVIOUS
    <2>1. CASE UNCHANGED vars
      BY <2>1 DEF OnTheWay, Stored, vars
    <2> QED
      BY <2>1, EnterOnTheWay, TranscodeOnTheWay, TerminateOnTheWay DEF Next
  <1> QED
    BY <1>1, <1>2, AlwaysIInv, PTL DEF Spec

\* For every text and every size of the buffer: convert_buffer stores what convert_string yields, and
\* refuses only if that and the NUL do not fit, wherever in the text the room runs out.
THEOREM RefusalMeansTooLong == Spec => []RefusedOnlyIfTooLong
  <1>1. IInv /\ OnTheWay => RefusedOnlyIfTooLong
    BY DEF OnTheWay, RefusedOnlyIfTooLong
  <1> QED
    BY <1>1, AlwaysIInv, AlwaysOnTheWay, PTL

----------------------------------------------------------------------------
\* The number of a character.

Sums(n, r, u, t) == [i \in 0..n |-> IF i = 0 THEN 0 ELSE t[i - 1] * r + u[i]]

LEMMA SumsExist ==
    ASSUME NEW n \in Nat, NEW r, NEW u
    PROVE  \E t : t = Sums(n, r, u, t)
  <1> DEFINE T == {m \in Nat : ~\E t : t = Sums(m, r, u, t)}
  <1>1. SUFFICES ASSUME T # {} PROVE FALSE
    OBVIOUS
  <1>2. PICK m \in T : \A y \in T : m <= y
    BY <1>1, LeastNumber
  <1>3. CASE m = 0
    <2> DEFINE t == [i \in 0..0 |-> 0]
    <2>1. t = Sums(0, r, u, t)
      BY DEF Sums
    <2> QED
      BY <1>2, <1>3, <2>1
  <1>4. CASE m # 0
    <2>1. m - 1 \in Nat /\ m - 1 \notin T /\ m \in Nat
      BY <1>2, <1>4
    <2>2. PICK t : t = Sums(m - 1, r, u, t)
      BY <2>1
    <2> DEFINE g == [i \in 0..m |-> IF i = m THEN t[m - 1] * r + u[m] ELSE t[i]]
    <2>3. ASSUME NEW i \in 0..m
          PROVE  g[i] = IF i = 0 THEN 0 ELSE g[i - 1] * r + u[i]
      <3>1. CASE i = m
        <4>1. m - 1 \in 0..m /\ m - 1 # m
          BY <2>1
        <4>2. g[m - 1] = t[m - 1] /\ g[i] = t[m - 1] * r + u[m]
          BY <3>1, <4>1
        <4> QED
          BY <1>4, <3>1, <4>2
      <3>2. CASE i # m
        <4>1. i \in 0..(m - 1) /\ g[i] = t[i]
          BY <2>1, <3>2
        <4>2. t[i] = IF i = 0 THEN 0 ELSE t[i - 1] * r + u[i]
          BY <2>2, <4>1 DEF Sums
        <4>3. i # 0 => i - 1 \in 0..m /\ i - 1 # m
          BY <2>1, <4>1
        <4>4. i # 0 => g[i - 1] = t[i - 1]
          BY <4>3
        <4> QED
          BY <4>1, <4>2, <4>4
      <3> QED
        BY <3>1, <3>2
    <2>4. g = Sums(m, r, u, g)
      BY <2>3 DEF Sums
    <2> QED
      BY <1>2, <2>4
  <1> QED
    BY <1>3, <1>4

\* The digits of a number weighed from the left, for as many as a character has.
LEMMA NumberIs ==
    ASSUME NEW w, NEW u, Len(u) \in 1..4, Radix(w) \in Nat, \A i \in 1..Len(u) : u[i] \in Nat
    PROVE  LET r == Radix(w)
               x == IF Len(u) = 1 THEN u[1]
                    ELSE IF Len(u) = 2 THEN u[1] * r + u[2]
                    ELSE IF Len(u) = 3 THEN (u[1] * r + u[2]) * r + u[3]
                    ELSE ((u[1] * r + u[2]) * r + u[3]) * r + u[4]
           IN Number(w, u) = x - Offset(w, u)
  <1> DEFINE r == Radix(w)
             n == Len(u)
             f == CHOOSE t : t = [i \in 0..n |-> IF i = 0 THEN 0 ELSE t[i - 1] * r + u[i]]
  <1>1. Number(w, u) = f[n] - Offset(w, u)
    BY DEF Number
  <1>2. f = Sums(n, r, u, f)
    <2>1. n \in Nat
      OBVIOUS
    <2>2. \E t : t = Sums(n, r, u, t)
      BY <2>1, SumsExist
    <2> QED
      BY <2>2, Zenon DEF Sums
  <1>3. \A i \in 1..n : u[i] \in Nat
    OBVIOUS
  <1>4. n \in 1..4 /\ r \in Nat
    OBVIOUS
  <1> HIDE DEF f, n, r
  <1>5. ASSUME NEW i \in 1..n
        PROVE  f[i] = f[i - 1] * r + u[i]
    <2>1. i \in 0..n /\ i # 0
      BY <1>4
    <2> QED
      BY <1>2, <2>1, Zenon DEF Sums
  <1>6. f[0] = 0
    <2>1. 0 \in 0..n
      BY <1>4
    <2> QED
      BY <1>2, <2>1, Zenon DEF Sums
  <1>7. f[1] = u[1]
    <2>1. f[1] = f[0] * r + u[1] /\ u[1] \in Nat
      <3>1. 1 \in 1..n /\ 1 - 1 = 0
        BY <1>4
      <3> QED
        BY <1>3, <1>5, <3>1
    <2> QED
      BY <1>4, <1>6, <2>1
  <1>8. n >= 2 => f[2] = u[1] * r + u[2]
    <2>1. n >= 2 => 2 \in 1..n /\ 2 - 1 = 1
      BY <1>4
    <2> QED
      BY <1>5, <1>7, <2>1
  <1>9. n >= 3 => f[3] = (u[1] * r + u[2]) * r + u[3]
    <2>1. n >= 3 => 3 \in 1..n /\ 3 - 1 = 2 /\ n >= 2
      BY <1>4
    <2> QED
      BY <1>5, <1>8, <2>1
  <1>10. n >= 4 => f[4] = ((u[1] * r + u[2]) * r + u[3]) * r + u[4]
    <2>1. n >= 4 => 4 \in 1..n /\ 4 - 1 = 3 /\ n >= 3
      BY <1>4
    <2> QED
      BY <1>5, <1>9, <2>1
  <1>11. n = 1 \/ n = 2 \/ n = 3 \/ n = 4
    BY <1>4
  <1> DEFINE x == IF n = 1 THEN u[1]
                  ELSE IF n = 2 THEN u[1] * r + u[2]
                  ELSE IF n = 3 THEN (u[1] * r + u[2]) * r + u[3]
                  ELSE ((u[1] * r + u[2]) * r + u[3]) * r + u[4]
  <1>12. f[n] = x
    <2>1. CASE n = 1
      BY <1>7, <2>1
    <2>2. CASE n = 2
      <3>1. f[2] = u[1] * r + u[2]
        BY <1>8, <2>2
      <3> QED
        BY <2>2, <3>1
    <2>3. CASE n = 3
      <3>1. f[3] = (u[1] * r + u[2]) * r + u[3]
        BY <1>9, <2>3
      <3> QED
        BY <2>3, <3>1
    <2>4. CASE n = 4
      <3>1. f[4] = ((u[1] * r + u[2]) * r + u[3]) * r + u[4]
        BY <1>10, <2>4
      <3> QED
        BY <2>4, <3>1
    <2> QED
      BY <1>11, <2>1, <2>2, <2>3, <2>4
  <1> HIDE DEF x
  <1>13. Number(w, u) = x - Offset(w, u)
    BY <1>1, <1>12, Zenon
  <1> QED
    BY <1>13, Zenon DEF n, r, x

----------------------------------------------------------------------------
\* What the standard calls a character is what decode reads, and its number is what decode returns.

\* The first m bytes of s are a character, and its number.
Fit8(s, m) ==
    \/ m = 1 /\ s[1] <= 127
    \/ m = 2 /\ 194 <= s[1] /\ s[1] <= 223 /\ IsTrail8(s[2])
    \/ /\ m = 3 /\ 224 <= s[1] /\ s[1] <= 239 /\ IsTrail8(s[2]) /\ IsTrail8(s[3])
       /\ (s[1] = 224 => s[2] >= 160) /\ (s[1] = 237 => s[2] <= 159)
    \/ /\ m = 4 /\ 240 <= s[1] /\ s[1] <= 244
       /\ IsTrail8(s[2]) /\ IsTrail8(s[3]) /\ IsTrail8(s[4])
       /\ (s[1] = 240 => s[2] >= 144) /\ (s[1] = 244 => s[2] <= 143)

Value8(s, m) ==
    IF m = 1 THEN s[1]
    ELSE IF m = 2 THEN s[1] * 64 + s[2] - 12416
    ELSE IF m = 3 THEN (s[1] * 64 + s[2]) * 64 + s[3] - 925824
    ELSE ((s[1] * 64 + s[2]) * 64 + s[3]) * 64 + s[4] - 63447168

LEMMA LeadBits ==
    ASSUME NEW c \in Nat
    PROVE  /\ c >= 192 /\ c <= 223 => c % 32 = c - 192
           /\ c >= 224 /\ c <= 239 => c % 16 = c - 224
           /\ c >= 240 /\ c <= 247 => c % 8 = c - 240
BY SMT

LEMMA TrailBits ==
    ASSUME NEW c \in Nat, IsTrail8(c)
    PROVE  c % 64 = c - 128
BY SMT DEF IsTrail8

LEMMA Fit8Decodes ==
    ASSUME NEW s \in Seq(Bytes), NEW m \in 1..Len(s), Fit8(s, m)
    PROVE  Decode8(s) = Decoded(Value8(s, m), m) /\ Value8(s, m) \in CodePoints
  <1>1. \A i \in 1..Len(s) : s[i] \in Nat /\ s[i] <= 255
    BY UnitOfText DEF Bytes
  <1>2. Len(s) \in Nat /\ m \in Nat /\ m <= Len(s) /\ m >= 1 /\ s # <<>>
    OBVIOUS
  <1> DEFINE n == m - 1
             v == Value8(s, m)
             a == s[1]
             b == s[2]
             c == s[3]
             d == s[4]
  <1>3. a \in Nat
    BY <1>1, <1>2
  <1>4. CASE m = 1
    <2>1. a <= 127
      BY <1>4 DEF Fit8
    <2>2. TrailLength8(a) = 0
      BY <1>3, <2>1 DEF TrailLength8
    <2>3. Decode8(s) = Decoded(s[1], 1)
      BY <1>2, <2>2 DEF Decode8
    <2> QED
      BY <1>3, <1>4, <2>1, <2>3 DEF Value8, CodePoints, IsValidCodepoint
  <1>5. CASE m = 2
    <2>1. 194 <= a /\ a <= 223 /\ IsTrail8(b) /\ b \in Nat
      BY <1>1, <1>2, <1>5 DEF Fit8
    <2>2. TrailLength8(a) = 1 /\ TrailsAt(s, 1) = 1
      BY <1>2, <1>3, <1>5, <2>1 DEF TrailLength8, TrailsAt
    <2>3. Combine8(s, 1) = ((a % 32) * 64) + (b % 64)
      BY DEF Combine8
    <2>4. a % 32 = a - 192 /\ b % 64 = b - 128
      <3> HIDE DEF a, b
      <3>1. a % 32 = a - 192
        BY <1>3, <2>1, LeadBits
      <3> QED
        BY <2>1, <3>1, TrailBits
    <2>5. v = a * 64 + b - 12416
      BY <1>5 DEF Value8
    <2> HIDE DEF a, b, v
    <2>6. Combine8(s, 1) = v /\ v \in Nat /\ v >= 128 /\ v <= 2047
      BY <1>3, <2>1, <2>3, <2>4, <2>5 DEF IsTrail8
    <2>7. v \in CodePoints /\ IsValidCodepoint(v) /\ Width8(v) = 2
      BY <2>6 DEF CodePoints, IsValidCodepoint, Width8
    <2>8. DecodeTrails(s, 1) = Decoded(v, 2)
      BY <1>2, <2>2, <2>6, <2>7 DEF DecodeTrails
    <2>9. Decode8(s) = DecodeTrails(s, 1)
      BY <1>2, <2>2 DEF Decode8, a
    <2> QED
      BY <1>5, <2>7, <2>8, <2>9 DEF v
  <1>6. CASE m = 3
    <2>1. /\ 224 <= a /\ a <= 239 /\ IsTrail8(b) /\ IsTrail8(c) /\ b \in Nat /\ c \in Nat
          /\ (a = 224 => b >= 160) /\ (a = 237 => b <= 159)
      BY <1>1, <1>2, <1>6 DEF Fit8
    <2>2. TrailLength8(a) = 2 /\ TrailsAt(s, 2) = 2
      BY <1>2, <1>3, <1>6, <2>1 DEF TrailLength8, TrailsAt
    <2>3. Combine8(s, 2) = ((a % 16) * 4096) + ((b % 64) * 64) + (c % 64)
      BY DEF Combine8
    <2>4. a % 16 = a - 224 /\ b % 64 = b - 128 /\ c % 64 = c - 128
      <3> HIDE DEF a, b, c
      <3>1. a % 16 = a - 224
        BY <1>3, <2>1, LeadBits
      <3> QED
        BY <2>1, <3>1, TrailBits
    <2>5. v = (a * 64 + b) * 64 + c - 925824
      BY <1>6 DEF Value8
    <2> HIDE DEF a, b, c, v
    <2>6. Combine8(s, 2) = v /\ v \in Nat /\ v >= 2048 /\ v <= 65535
          /\ ~(55296 <= v /\ v <= 57343)
      BY <1>3, <2>1, <2>3, <2>4, <2>5 DEF IsTrail8
    <2>7. v \in CodePoints /\ IsValidCodepoint(v) /\ Width8(v) = 3
      BY <2>6 DEF CodePoints, IsValidCodepoint, Width8
    <2>8. DecodeTrails(s, 2) = Decoded(v, 3)
      BY <1>2, <2>2, <2>6, <2>7 DEF DecodeTrails
    <2>9. Decode8(s) = DecodeTrails(s, 2)
      BY <1>2, <2>2 DEF Decode8, a
    <2> QED
      BY <1>6, <2>7, <2>8, <2>9 DEF v
  <1>7. CASE m = 4
    <2>1. /\ 240 <= a /\ a <= 244 /\ IsTrail8(b) /\ IsTrail8(c) /\ IsTrail8(d)
          /\ b \in Nat /\ c \in Nat /\ d \in Nat
          /\ (a = 240 => b >= 144) /\ (a = 244 => b <= 143)
      BY <1>1, <1>2, <1>7 DEF Fit8
    <2>2. TrailLength8(a) = 3 /\ TrailsAt(s, 3) = 3
      BY <1>2, <1>3, <1>7, <2>1 DEF TrailLength8, TrailsAt
    <2>3. Combine8(s, 3)
          = ((a % 8) * 262144) + ((b % 64) * 4096) + ((c % 64) * 64) + (d % 64)
      BY DEF Combine8
    <2>4. a % 8 = a - 240 /\ b % 64 = b - 128 /\ c % 64 = c - 128 /\ d % 64 = d - 128
      <3> HIDE DEF a, b, c, d
      <3>1. a % 8 = a - 240
        BY <1>3, <2>1, LeadBits
      <3> QED
        BY <2>1, <3>1, TrailBits
    <2>5. v = ((a * 64 + b) * 64 + c) * 64 + d - 63447168
      BY <1>7 DEF Value8
    <2> HIDE DEF a, b, c, d, v
    <2>6. Combine8(s, 3) = v /\ v \in Nat /\ v >= 65536 /\ v <= 1114111
      BY <1>3, <2>1, <2>3, <2>4, <2>5 DEF IsTrail8
    <2>7. v \in CodePoints /\ IsValidCodepoint(v) /\ Width8(v) = 4
      BY <2>6 DEF CodePoints, IsValidCodepoint, Width8
    <2>8. DecodeTrails(s, 3) = Decoded(v, 4)
      BY <1>2, <2>2, <2>6, <2>7 DEF DecodeTrails
    <2>9. Decode8(s) = DecodeTrails(s, 3)
      BY <1>2, <2>2 DEF Decode8, a
    <2> QED
      BY <1>7, <2>7, <2>8, <2>9 DEF v
  <1>8. m = 1 \/ m = 2 \/ m = 3 \/ m = 4
    BY DEF Fit8
  <1> QED
    BY <1>4, <1>5, <1>6, <1>7, <1>8

LEMMA DecodedFits8 ==
    ASSUME NEW s \in Seq(Bytes), s # <<>>, Decode8(s).cp \in CodePoints
    PROVE  Fit8(s, Decode8(s).used)
  <1> DEFINE n == TrailLength8(s[1])
             a == s[1]
             b == s[2]
             v == Combine8(s, n)
  <1>1. a \in Nat /\ a <= 255
    BY NotEmpty DEF Bytes
  <1>2. n \in {-1, 0, 1, 2, 3}
    BY <1>1 DEF TrailLength8
  <1>3. n # -1
    <2>1. SUFFICES ASSUME n = -1 PROVE FALSE
      OBVIOUS
    <2>2. n < 0 /\ n # 0 /\ ~(n > 0)
      BY <2>1
    <2>3. Decode8(s) = CASE s = <<>> -> Decoded(Incomplete, 0)
                         [] s # <<>> /\ n < 0 -> Decoded(Illegal, 1)
                         [] s # <<>> /\ n = 0 -> Decoded(s[1], 1)
                         [] s # <<>> /\ n > 0 -> DecodeTrails(s, n)
      BY DEF Decode8
    <2> HIDE DEF n
    <2>4. Decode8(s) = Decoded(Illegal, 1)
      BY <2>2, <2>3
    <2> QED
      BY <2>4, NoSpecialResult, DecodedFields
  <1>4. CASE n = 0
    <2>1. a <= 127
      BY <1>1, <1>4 DEF TrailLength8
    <2>2. Decode8(s) = Decoded(a, 1)
      BY <1>4 DEF Decode8
    <2> QED
      BY <2>1, <2>2, DecodedFields DEF Fit8
  <1>5. CASE n \in 1..3
    <2>1. Decode8(s) = DecodeTrails(s, n)
      <3> HIDE DEF n
      <3> QED
        BY <1>5 DEF Decode8, n
    <2>2. Decode8(s) = Decoded(v, n + 1) /\ TrailsAt(s, n) = n
      <3> HIDE DEF n
      <3> QED
        BY <1>5, <2>1, DecodeTrailsFound DEF v
    <2>3. \A i \in 2..(n + 1) : IsTrail8(s[i])
      <3> HIDE DEF n
      <3> QED
        BY <1>5, <2>2, TrailsAreTrails
    <2>4. Decode8(s).used = n + 1 /\ v \in CodePoints
      BY <2>2, DecodedFields
    <2>5. Len(s) \in Nat /\ n + 1 <= Len(s)
      <3>1. n + 1 \in 1..Len(s)
        BY <2>4, Decode8Progress
      <3> HIDE DEF n
      <3> QED
        BY <1>5, <3>1
    <2>6. Width8(v) = n + 1
      <3> DEFINE k == TrailsAt(s, n)
                 sound == IsValidCodepoint(v) /\ Width8(v) = n + 1
      <3>1. k = n
        BY <2>2
      <3>2. ~sound => DecodeTrails(s, n) = Decoded(Illegal, 1)
        <4> HIDE DEF n, v
        <4> QED
          BY <1>5, <3>1 DEF DecodeTrails, v
      <3>3. sound
        BY <2>1, <3>2, NoSpecialResult, DecodedFields
      <3> QED
        BY <3>3
    <2>7. IsTrail8(b) /\ b \in Nat
      <3>1. 2 \in 2..(n + 1) /\ 2 \in 1..Len(s)
        <4> HIDE DEF n
        <4> QED
          BY <1>5, <2>5
      <3> QED
        BY <2>3, <3>1, UnitOfText DEF Bytes
    <2>8. v \in Nat /\ v <= 1114111 /\ ~(55296 <= v /\ v <= 57343)
      BY <2>4 DEF CodePoints, IsValidCodepoint
    <2>9. CASE n = 1
      <3>1. 194 <= a /\ a <= 223
        BY <1>1, <2>9 DEF TrailLength8
      <3> HIDE DEF n
      <3> QED
        BY <2>4, <2>7, <2>9, <3>1 DEF Fit8
    <2>10. CASE n = 2
      <3>1. 224 <= a /\ a <= 239
        BY <1>1, <2>10 DEF TrailLength8
      <3> HIDE DEF n
      <3> DEFINE c == s[3]
      <3>2. IsTrail8(c) /\ c \in Nat
        <4>1. 3 \in 2..(n + 1) /\ 3 \in 1..Len(s)
          BY <2>5, <2>10
        <4> QED
          BY <2>3, <4>1, UnitOfText DEF Bytes
      <3>3. v = ((a % 16) * 4096) + ((b % 64) * 64) + (c % 64)
        BY <2>10 DEF Combine8, v
      <3>4. a % 16 = a - 224 /\ b % 64 = b - 128 /\ c % 64 = c - 128
        <4> HIDE DEF a, b, c
        <4>1. a % 16 = a - 224
          BY <1>1, <3>1, LeadBits
        <4> QED
          BY <2>7, <3>2, <4>1, TrailBits
      <3>5. v >= 2048
        BY <2>6, <2>8, <2>10 DEF Width8
      <3>6. (a = 224 => b >= 160) /\ (a = 237 => b <= 159)
        <4> HIDE DEF a, b, c, v
        <4> QED
          BY <1>1, <2>7, <2>8, <3>1, <3>2, <3>3, <3>4, <3>5 DEF IsTrail8
      <3> QED
        BY <2>4, <2>7, <2>10, <3>1, <3>2, <3>6 DEF Fit8
    <2>11. CASE n = 3
      <3>1. 240 <= a /\ a <= 244
        BY <1>1, <2>11 DEF TrailLength8
      <3> HIDE DEF n
      <3> DEFINE c == s[3]
                 d == s[4]
      <3>2. IsTrail8(c) /\ c \in Nat /\ IsTrail8(d) /\ d \in Nat
        <4>1. 3 \in 2..(n + 1) /\ 3 \in 1..Len(s) /\ 4 \in 2..(n + 1) /\ 4 \in 1..Len(s)
          BY <2>5, <2>11
        <4> QED
          BY <2>3, <4>1, UnitOfText DEF Bytes
      <3>3. v = ((a % 8) * 262144) + ((b % 64) * 4096) + ((c % 64) * 64) + (d % 64)
        BY <2>11 DEF Combine8, v
      <3>4. a % 8 = a - 240 /\ b % 64 = b - 128 /\ c % 64 = c - 128 /\ d % 64 = d - 128
        <4> HIDE DEF a, b, c, d
        <4>1. a % 8 = a - 240
          BY <1>1, <3>1, LeadBits
        <4> QED
          BY <2>7, <3>2, <4>1, TrailBits
      <3>5. v >= 65536
        BY <2>6, <2>8, <2>11 DEF Width8
      <3>6. (a = 240 => b >= 144) /\ (a = 244 => b <= 143)
        <4> HIDE DEF a, b, c, d, v
        <4> QED
          BY <1>1, <2>7, <2>8, <3>1, <3>2, <3>3, <3>4, <3>5 DEF IsTrail8
      <3> QED
        BY <2>4, <2>7, <2>11, <3>1, <3>2, <3>6 DEF Fit8
    <2> QED
      BY <1>5, <2>9, <2>10, <2>11
  <1> QED
    BY <1>2, <1>3, <1>4, <1>5

\* The characters of the tables of the standard, unit by unit.

\* u is the character that a row r of the tables describes.
InRow(r, u) == Len(r) = Len(u) /\ \A i \in DOMAIN u : u[i] \in r[i]

LEMMA OneOfTwo ==
    ASSUME NEW u, NEW r1, NEW r2
    PROVE  (\E r \in {r1, r2} : InRow(r, u)) <=> InRow(r1, u) \/ InRow(r2, u)
  OBVIOUS

LEMMA OneOfThree ==
    ASSUME NEW u, NEW r1, NEW r2, NEW r3
    PROVE  (\E r \in {r1, r2, r3} : InRow(r, u))
           <=> InRow(r1, u) \/ InRow(r2, u) \/ InRow(r3, u)
  OBVIOUS

LEMMA OneOfNine ==
    ASSUME NEW u, NEW r1, NEW r2, NEW r3, NEW r4, NEW r5, NEW r6, NEW r7, NEW r8, NEW r9
    PROVE  (\E r \in {r1, r2, r3, r4, r5, r6, r7, r8, r9} : InRow(r, u))
           <=> \/ InRow(r1, u) \/ InRow(r2, u) \/ InRow(r3, u) \/ InRow(r4, u) \/ InRow(r5, u)
               \/ InRow(r6, u) \/ InRow(r7, u) \/ InRow(r8, u) \/ InRow(r9, u)
  OBVIOUS

Word(u) == Len(u) \in Nat /\ DOMAIN u = 1..Len(u)

LEMMA RowOfOne ==
    ASSUME NEW u, NEW n \in Nat, n = Len(u), DOMAIN u = 1..n, NEW A
    PROVE  InRow(<<A>>, u) <=> n = 1 /\ u[1] \in A
  <1>1. Len(<<A>>) = 1 /\ <<A>>[1] = A
    OBVIOUS
  <1>2. n = 1 => \A i \in 1..n : i = 1
    OBVIOUS
  <1>3. n = 1 => 1 \in 1..n
    OBVIOUS
  <1> QED
    BY <1>1, <1>2, <1>3 DEF InRow

LEMMA RowOfTwo ==
    ASSUME NEW u, NEW n \in Nat, n = Len(u), DOMAIN u = 1..n, NEW A, NEW B
    PROVE  InRow(<<A, B>>, u) <=> n = 2 /\ u[1] \in A /\ u[2] \in B
  <1>1. Len(<<A, B>>) = 2 /\ <<A, B>>[1] = A /\ <<A, B>>[2] = B
    OBVIOUS
  <1>2. n = 2 => \A i \in 1..n : i = 1 \/ i = 2
    OBVIOUS
  <1>3. n = 2 => 1 \in 1..n /\ 2 \in 1..n
    OBVIOUS
  <1> QED
    BY <1>1, <1>2, <1>3 DEF InRow

LEMMA RowOfThree ==
    ASSUME NEW u, NEW n \in Nat, n = Len(u), DOMAIN u = 1..n, NEW A, NEW B, NEW C
    PROVE  InRow(<<A, B, C>>, u) <=> n = 3 /\ u[1] \in A /\ u[2] \in B /\ u[3] \in C
  <1>1. /\ Len(<<A, B, C>>) = 3 /\ <<A, B, C>>[1] = A /\ <<A, B, C>>[2] = B
        /\ <<A, B, C>>[3] = C
    OBVIOUS
  <1>2. n = 3 => \A i \in 1..n : i = 1 \/ i = 2 \/ i = 3
    OBVIOUS
  <1>3. n = 3 => 1 \in 1..n /\ 2 \in 1..n /\ 3 \in 1..n
    OBVIOUS
  <1> QED
    BY <1>1, <1>2, <1>3 DEF InRow

LEMMA RowOfFour ==
    ASSUME NEW u, NEW n \in Nat, n = Len(u), DOMAIN u = 1..n, NEW A, NEW B, NEW C, NEW D
    PROVE  InRow(<<A, B, C, D>>, u)
           <=> n = 4 /\ u[1] \in A /\ u[2] \in B /\ u[3] \in C /\ u[4] \in D
  <1>1. /\ Len(<<A, B, C, D>>) = 4 /\ <<A, B, C, D>>[1] = A /\ <<A, B, C, D>>[2] = B
        /\ <<A, B, C, D>>[3] = C /\ <<A, B, C, D>>[4] = D
    OBVIOUS
  <1>2. n = 4 => \A i \in 1..n : i = 1 \/ i = 2 \/ i = 3 \/ i = 4
    OBVIOUS
  <1>3. n = 4 => 1 \in 1..n /\ 2 \in 1..n /\ 3 \in 1..n /\ 4 \in 1..n
    OBVIOUS
  <1> QED
    BY <1>1, <1>2, <1>3 DEF InRow

\* The first m units of a text.
LEMMA Beginning ==
    ASSUME NEW S, NEW s \in Seq(S), NEW m \in 0..Len(s)
    PROVE  LET u == SubSeq(s, 1, m)
           IN /\ u \in Seq(S) /\ Len(u) = m /\ DOMAIN u = 1..m /\ \A i \in 1..m : u[i] = s[i]
              /\ m \in Nat /\ (m = Len(s) => u = s)
  <1>1. \A i \in 1..m : s[i] \in S
    BY UnitOfText
  <1>2. m \in Nat /\ m <= Len(s) /\ Len(s) \in Nat
    OBVIOUS
  <1> DEFINE u == SubSeq(s, 1, m)
  <1>3. u \in Seq(S) /\ Len(u) = m
    BY SMT, <1>1, <1>2
  <1>4. DOMAIN u = 1..m /\ \A i \in 1..m : u[i] = s[i]
    BY SMT, <1>1, <1>2
  <1>5. m = Len(s) => u = s
    BY <1>3, <1>4, SameText
  <1> QED
    BY <1>2, <1>3, <1>4, <1>5

\* The rows of the table for UTF-8, whatever sets of units stand in them.
Shape8(u, T, A1, A2, A3, A4, A5, A6, A7, A8, A9, B3, B5, B7, B9) ==
    \/ Len(u) = 1 /\ u[1] \in A1
    \/ Len(u) = 2 /\ u[1] \in A2 /\ u[2] \in T
    \/ Len(u) = 3 /\ u[1] \in A3 /\ u[2] \in B3 /\ u[3] \in T
    \/ Len(u) = 3 /\ u[1] \in A4 /\ u[2] \in T /\ u[3] \in T
    \/ Len(u) = 3 /\ u[1] \in A5 /\ u[2] \in B5 /\ u[3] \in T
    \/ Len(u) = 3 /\ u[1] \in A6 /\ u[2] \in T /\ u[3] \in T
    \/ Len(u) = 4 /\ u[1] \in A7 /\ u[2] \in B7 /\ u[3] \in T /\ u[4] \in T
    \/ Len(u) = 4 /\ u[1] \in A8 /\ u[2] \in T /\ u[3] \in T /\ u[4] \in T
    \/ Len(u) = 4 /\ u[1] \in A9 /\ u[2] \in B9 /\ u[3] \in T /\ u[4] \in T

LEMMA RowsOfEight ==
    ASSUME NEW u, Word(u), NEW T,
           NEW A1, NEW A2, NEW A3, NEW A4, NEW A5, NEW A6, NEW A7, NEW A8, NEW A9,
           NEW B3, NEW B5, NEW B7, NEW B9
    PROVE  (\E r \in {<<A1>>, <<A2, T>>, <<A3, B3, T>>, <<A4, T, T>>, <<A5, B5, T>>, <<A6, T, T>>,
                      <<A7, B7, T, T>>, <<A8, T, T, T>>, <<A9, B9, T, T>>} : InRow(r, u))
           <=> Shape8(u, T, A1, A2, A3, A4, A5, A6, A7, A8, A9, B3, B5, B7, B9)
  <1> DEFINE n == Len(u)
  <1>0. n \in Nat /\ n = Len(u) /\ DOMAIN u = 1..n
    BY DEF Word
  <1> HIDE DEF n
  <1>1. InRow(<<A1>>, u) <=> n = 1 /\ u[1] \in A1
    BY <1>0, RowOfOne, Zenon
  <1>2. InRow(<<A2, T>>, u) <=> n = 2 /\ u[1] \in A2 /\ u[2] \in T
    BY <1>0, RowOfTwo, Zenon
  <1>3. InRow(<<A3, B3, T>>, u) <=> n = 3 /\ u[1] \in A3 /\ u[2] \in B3 /\ u[3] \in T
    BY <1>0, RowOfThree, Zenon
  <1>4. InRow(<<A4, T, T>>, u) <=> n = 3 /\ u[1] \in A4 /\ u[2] \in T /\ u[3] \in T
    BY <1>0, RowOfThree, Zenon
  <1>5. InRow(<<A5, B5, T>>, u) <=> n = 3 /\ u[1] \in A5 /\ u[2] \in B5 /\ u[3] \in T
    BY <1>0, RowOfThree, Zenon
  <1>6. InRow(<<A6, T, T>>, u) <=> n = 3 /\ u[1] \in A6 /\ u[2] \in T /\ u[3] \in T
    BY <1>0, RowOfThree, Zenon
  <1>7. InRow(<<A7, B7, T, T>>, u)
        <=> n = 4 /\ u[1] \in A7 /\ u[2] \in B7 /\ u[3] \in T /\ u[4] \in T
    BY <1>0, RowOfFour, Zenon
  <1>8. InRow(<<A8, T, T, T>>, u)
        <=> n = 4 /\ u[1] \in A8 /\ u[2] \in T /\ u[3] \in T /\ u[4] \in T
    BY <1>0, RowOfFour, Zenon
  <1>9. InRow(<<A9, B9, T, T>>, u)
        <=> n = 4 /\ u[1] \in A9 /\ u[2] \in B9 /\ u[3] \in T /\ u[4] \in T
    BY <1>0, RowOfFour, Zenon
  <1>10. (\E r \in {<<A1>>, <<A2, T>>, <<A3, B3, T>>, <<A4, T, T>>, <<A5, B5, T>>, <<A6, T, T>>,
                    <<A7, B7, T, T>>, <<A8, T, T, T>>, <<A9, B9, T, T>>} : InRow(r, u))
         <=> \/ InRow(<<A1>>, u) \/ InRow(<<A2, T>>, u) \/ InRow(<<A3, B3, T>>, u)
             \/ InRow(<<A4, T, T>>, u) \/ InRow(<<A5, B5, T>>, u) \/ InRow(<<A6, T, T>>, u)
             \/ InRow(<<A7, B7, T, T>>, u) \/ InRow(<<A8, T, T, T>>, u)
             \/ InRow(<<A9, B9, T, T>>, u)
    BY OneOfNine, Zenon
  <1> QED
    BY <1>1, <1>2, <1>3, <1>4, <1>5, <1>6, <1>7, <1>8, <1>9, <1>10, Zenon DEF n, Shape8

Shape16(u, A, B, C, D) ==
    \/ Len(u) = 1 /\ (u[1] \in A \/ u[1] \in B)
    \/ Len(u) = 2 /\ u[1] \in C /\ u[2] \in D

LEMMA RowsOfSixteen ==
    ASSUME NEW u, Word(u), NEW A, NEW B, NEW C, NEW D
    PROVE  (\E r \in {<<A>>, <<B>>, <<C, D>>} : InRow(r, u))
           <=> Shape16(u, A, B, C, D)
  <1> DEFINE n == Len(u)
  <1>0. n \in Nat /\ n = Len(u) /\ DOMAIN u = 1..n
    BY DEF Word
  <1> HIDE DEF n
  <1>1. InRow(<<A>>, u) <=> n = 1 /\ u[1] \in A
    BY <1>0, RowOfOne, Zenon
  <1>2. InRow(<<B>>, u) <=> n = 1 /\ u[1] \in B
    BY <1>0, RowOfOne, Zenon
  <1>3. InRow(<<C, D>>, u) <=> n = 2 /\ u[1] \in C /\ u[2] \in D
    BY <1>0, RowOfTwo, Zenon
  <1> QED
    BY <1>1, <1>2, <1>3, OneOfThree, Zenon DEF n, Shape16

LEMMA RowsOfThirtyTwo ==
    ASSUME NEW u, Word(u), NEW A, NEW B
    PROVE  (\E r \in {<<A>>, <<B>>} : InRow(r, u)) <=> Len(u) = 1 /\ (u[1] \in A \/ u[1] \in B)
  <1> DEFINE n == Len(u)
  <1>0. n \in Nat /\ n = Len(u) /\ DOMAIN u = 1..n
    BY DEF Word
  <1> HIDE DEF n
  <1>1. InRow(<<A>>, u) <=> n = 1 /\ u[1] \in A
    BY <1>0, RowOfOne, Zenon
  <1>2. InRow(<<B>>, u) <=> n = 1 /\ u[1] \in B
    BY <1>0, RowOfOne, Zenon
  <1> QED
    BY <1>1, <1>2, OneOfTwo, Zenon DEF n

LEMMA SpanIs ==
    ASSUME NEW l \in Nat, NEW h \in Nat, NEW x \in Nat
    PROVE  x \in Span(l, h) <=> l <= x /\ x <= h
  BY DEF Span

LEMMA CharFits8 ==
    ASSUME NEW u \in Seq(Bytes), u # <<>>
    PROVE  IsChar(8, u) <=> Fit8(u, Len(u))
  <1> DEFINE n == Len(u)
             a == u[1]
             b == u[2]
             c == u[3]
             d == u[4]
  <1>1. n \in Nat /\ n >= 1 /\ DOMAIN u = 1..n /\ \A i \in 1..n : u[i] \in Nat /\ u[i] <= 255
    <2>1. n \in Nat /\ n >= 1 /\ DOMAIN u = 1..n
      BY NotEmpty
    <2>2. \A i \in 1..n : u[i] \in Nat /\ u[i] <= 255
      BY UnitOfText DEF Bytes
    <2> QED
      BY <2>1, <2>2
  <1>2. IsChar(8, u) <=> \E r \in Rows8 : InRow(r, u)
    <2>1. Rows(8) = Rows8
      BY DEF Rows
    <2> QED
      BY <2>1, Zenon DEF IsChar, InRow
  <1>3. PICK A1, A2, A3, A4, A5, A6, A7, A8, A9, B3, B5, B7, B9 :
            /\ A1 = Span(0, 127) /\ A2 = Span(194, 223) /\ A3 = {224} /\ A4 = Span(225, 236)
            /\ A5 = {237} /\ A6 = Span(238, 239) /\ A7 = {240} /\ A8 = Span(241, 243)
            /\ A9 = {244} /\ B3 = Span(160, 191) /\ B5 = Span(128, 159)
            /\ B7 = Span(144, 191) /\ B9 = Span(128, 143)
    OBVIOUS
  <1>4. Rows8 = {<<A1>>, <<A2, Any>>, <<A3, B3, Any>>, <<A4, Any, Any>>, <<A5, B5, Any>>,
                 <<A6, Any, Any>>, <<A7, B7, Any, Any>>, <<A8, Any, Any, Any>>,
                 <<A9, B9, Any, Any>>}
    BY <1>3, SMT DEF Rows8
  <1> HIDE DEF n
  <1>5. IsChar(8, u)
        <=> \/ n = 1 /\ u[1] \in A1
            \/ n = 2 /\ u[1] \in A2 /\ u[2] \in Any
            \/ n = 3 /\ u[1] \in A3 /\ u[2] \in B3 /\ u[3] \in Any
            \/ n = 3 /\ u[1] \in A4 /\ u[2] \in Any /\ u[3] \in Any
            \/ n = 3 /\ u[1] \in A5 /\ u[2] \in B5 /\ u[3] \in Any
            \/ n = 3 /\ u[1] \in A6 /\ u[2] \in Any /\ u[3] \in Any
            \/ n = 4 /\ u[1] \in A7 /\ u[2] \in B7 /\ u[3] \in Any /\ u[4] \in Any
            \/ n = 4 /\ u[1] \in A8 /\ u[2] \in Any /\ u[3] \in Any /\ u[4] \in Any
            \/ n = 4 /\ u[1] \in A9 /\ u[2] \in B9 /\ u[3] \in Any /\ u[4] \in Any
    <2>1. Word(u)
      BY <1>1 DEF n, Word
    <2>2. (\E r \in {<<A1>>, <<A2, Any>>, <<A3, B3, Any>>, <<A4, Any, Any>>, <<A5, B5, Any>>,
                      <<A6, Any, Any>>, <<A7, B7, Any, Any>>, <<A8, Any, Any, Any>>,
                      <<A9, B9, Any, Any>>} : InRow(r, u))
          <=> Shape8(u, Any, A1, A2, A3, A4, A5, A6, A7, A8, A9, B3, B5, B7, B9)
      BY <2>1, RowsOfEight, Zenon
    <2>3. IsChar(8, u) <=> Shape8(u, Any, A1, A2, A3, A4, A5, A6, A7, A8, A9, B3, B5, B7, B9)
      BY <1>2, <1>4, <2>2, Zenon
    <2> QED
      BY <2>3, Zenon DEF Shape8, n
  <1>6. \A x \in Nat :
            /\ x \in A1 <=> x <= 127
            /\ x \in A2 <=> 194 <= x /\ x <= 223
            /\ x \in A3 <=> x = 224
            /\ x \in A4 <=> 225 <= x /\ x <= 236
            /\ x \in A5 <=> x = 237
            /\ x \in A6 <=> 238 <= x /\ x <= 239
            /\ x \in A7 <=> x = 240
            /\ x \in A8 <=> 241 <= x /\ x <= 243
            /\ x \in A9 <=> x = 244
    BY <1>3 DEF Span
  <1>7. \A x \in Nat :
            /\ x \in B3 <=> 160 <= x /\ x <= 191
            /\ x \in B5 <=> 128 <= x /\ x <= 159
            /\ x \in B7 <=> 144 <= x /\ x <= 191
            /\ x \in B9 <=> 128 <= x /\ x <= 143
            /\ x \in Any <=> IsTrail8(x)
    BY <1>3 DEF Any, Span, IsTrail8
  <1>8. CASE n = 1
    <2>1. a \in Nat
      BY <1>1, <1>8
    <2>2. IsChar(8, u) <=> a \in A1
      BY <1>5, <1>8
    <2>3. Fit8(u, n) <=> a <= 127
      BY <1>8 DEF Fit8
    <2> QED
      BY <1>6, <2>1, <2>2, <2>3 DEF n
  <1>9. CASE n = 2
    <2>1. a \in Nat /\ b \in Nat
      BY <1>1, <1>9
    <2>2. IsChar(8, u) <=> a \in A2 /\ b \in Any
      BY <1>5, <1>9
    <2>3. Fit8(u, n) <=> 194 <= a /\ a <= 223 /\ IsTrail8(b)
      BY <1>9 DEF Fit8
    <2> QED
      BY <1>6, <1>7, <2>1, <2>2, <2>3 DEF n
  <1>10. CASE n = 3
    <2>1. a \in Nat /\ b \in Nat /\ c \in Nat
      BY <1>1, <1>10
    <2>2. IsChar(8, u) <=> \/ u[1] \in A3 /\ u[2] \in B3 /\ u[3] \in Any
                           \/ u[1] \in A4 /\ u[2] \in Any /\ u[3] \in Any
                           \/ u[1] \in A5 /\ u[2] \in B5 /\ u[3] \in Any
                           \/ u[1] \in A6 /\ u[2] \in Any /\ u[3] \in Any
      <3>1. n # 1 /\ n # 2 /\ n # 4
        BY <1>10
      <3> QED
        BY <1>5, <1>10, <3>1, Zenon
    <2>3. Fit8(u, n) <=> /\ 224 <= a /\ a <= 239 /\ IsTrail8(b) /\ IsTrail8(c)
                         /\ (a = 224 => b >= 160) /\ (a = 237 => b <= 159)
      BY <1>10 DEF Fit8
    <2> HIDE DEF a, b, c
    <2>4. /\ a \in A3 /\ b \in B3 <=> a = 224 /\ 160 <= b /\ b <= 191
          /\ a \in A4 /\ b \in Any <=> 225 <= a /\ a <= 236 /\ IsTrail8(b)
          /\ a \in A5 /\ b \in B5 <=> a = 237 /\ 128 <= b /\ b <= 159
          /\ a \in A6 /\ b \in Any <=> 238 <= a /\ a <= 239 /\ IsTrail8(b)
          /\ c \in Any <=> IsTrail8(c)
      BY <1>6, <1>7, <2>1
    <2>5. (\/ a = 224 /\ 160 <= b /\ b <= 191
           \/ 225 <= a /\ a <= 236 /\ IsTrail8(b)
           \/ a = 237 /\ 128 <= b /\ b <= 159
           \/ 238 <= a /\ a <= 239 /\ IsTrail8(b))
          <=> /\ 224 <= a /\ a <= 239 /\ IsTrail8(b)
              /\ (a = 224 => b >= 160) /\ (a = 237 => b <= 159)
      BY <2>1 DEF IsTrail8
    <2>6. IsChar(8, u) <=> \/ a \in A3 /\ b \in B3 /\ c \in Any
                           \/ a \in A4 /\ b \in Any /\ c \in Any
                           \/ a \in A5 /\ b \in B5 /\ c \in Any
                           \/ a \in A6 /\ b \in Any /\ c \in Any
      BY <2>2, Zenon DEF a, b, c
    <2>7. IsChar(8, u) <=> /\ IsTrail8(c)
                           /\ \/ a = 224 /\ 160 <= b /\ b <= 191
                              \/ 225 <= a /\ a <= 236 /\ IsTrail8(b)
                              \/ a = 237 /\ 128 <= b /\ b <= 159
                              \/ 238 <= a /\ a <= 239 /\ IsTrail8(b)
      BY <2>4, <2>6
    <2> QED
      BY <2>3, <2>5, <2>7 DEF n
  <1>11. CASE n = 4
    <2>1. a \in Nat /\ b \in Nat /\ c \in Nat /\ d \in Nat
      BY <1>1, <1>11
    <2>2. IsChar(8, u) <=> \/ u[1] \in A7 /\ u[2] \in B7 /\ u[3] \in Any /\ u[4] \in Any
                           \/ u[1] \in A8 /\ u[2] \in Any /\ u[3] \in Any /\ u[4] \in Any
                           \/ u[1] \in A9 /\ u[2] \in B9 /\ u[3] \in Any /\ u[4] \in Any
      <3>1. n # 1 /\ n # 2 /\ n # 3
        BY <1>11
      <3> QED
        BY <1>5, <1>11, <3>1, Zenon
    <2>3. Fit8(u, n) <=> /\ 240 <= a /\ a <= 244 /\ IsTrail8(b) /\ IsTrail8(c) /\ IsTrail8(d)
                         /\ (a = 240 => b >= 144) /\ (a = 244 => b <= 143)
      BY <1>11 DEF Fit8
    <2> HIDE DEF a, b, c, d
    <2>4. /\ a \in A7 /\ b \in B7 <=> a = 240 /\ 144 <= b /\ b <= 191
          /\ a \in A8 /\ b \in Any <=> 241 <= a /\ a <= 243 /\ IsTrail8(b)
          /\ a \in A9 /\ b \in B9 <=> a = 244 /\ 128 <= b /\ b <= 143
          /\ (c \in Any <=> IsTrail8(c)) /\ (d \in Any <=> IsTrail8(d))
      BY <1>6, <1>7, <2>1
    <2>5. (\/ a = 240 /\ 144 <= b /\ b <= 191
           \/ 241 <= a /\ a <= 243 /\ IsTrail8(b)
           \/ a = 244 /\ 128 <= b /\ b <= 143)
          <=> /\ 240 <= a /\ a <= 244 /\ IsTrail8(b)
              /\ (a = 240 => b >= 144) /\ (a = 244 => b <= 143)
      BY <2>1 DEF IsTrail8
    <2>6. IsChar(8, u) <=> \/ a \in A7 /\ b \in B7 /\ c \in Any /\ d \in Any
                           \/ a \in A8 /\ b \in Any /\ c \in Any /\ d \in Any
                           \/ a \in A9 /\ b \in B9 /\ c \in Any /\ d \in Any
      BY <2>2, Zenon DEF a, b, c, d
    <2>7. IsChar(8, u) <=> /\ IsTrail8(c) /\ IsTrail8(d)
                           /\ \/ a = 240 /\ 144 <= b /\ b <= 191
                              \/ 241 <= a /\ a <= 243 /\ IsTrail8(b)
                              \/ a = 244 /\ 128 <= b /\ b <= 143
      BY <2>4, <2>6
    <2> QED
      BY <2>3, <2>5, <2>7 DEF n
  <1>12. CASE ~(n = 1 \/ n = 2 \/ n = 3 \/ n = 4)
    BY <1>5, <1>12 DEF Fit8, n
  <1> QED
    BY <1>8, <1>9, <1>10, <1>11, <1>12

\* The same for UTF-16.
Fit16(s, m) ==
    \/ m = 1 /\ IsSingleCodepoint(s[1])
    \/ m = 2 /\ IsFirstSurrogate(s[1]) /\ IsSecondSurrogate(s[2])

LEMMA CharFits16 ==
    ASSUME NEW u \in Seq(Units16), u # <<>>
    PROVE  IsChar(16, u) <=> Fit16(u, Len(u))
  <1> DEFINE n == Len(u)
             a == u[1]
             b == u[2]
  <1>1. n \in Nat /\ n >= 1 /\ DOMAIN u = 1..n /\ \A i \in 1..n : u[i] \in Units16
    <2>1. n \in Nat /\ n >= 1 /\ DOMAIN u = 1..n
      BY NotEmpty
    <2>2. \A i \in 1..n : u[i] \in Units16
      BY UnitOfText
    <2> QED
      BY <2>1, <2>2
  <1>2. IsChar(16, u) <=> \E r \in Rows16 : InRow(r, u)
    <2>1. Rows(16) = Rows16
      BY DEF Rows
    <2> QED
      BY <2>1, Zenon DEF IsChar, InRow
  <1>4. PICK A, B, C, D :
            /\ A = Span(0, 55295) /\ B = Span(57344, 65535) /\ C = Span(55296, 56319)
            /\ D = Span(56320, 57343)
    BY SMT
  <1>5. Rows16 = {<<A>>, <<B>>, <<C, D>>}
    BY <1>4, SMT DEF Rows16
  <1>6. \A x \in Units16 :
            /\ x \in A \/ x \in B <=> IsSingleCodepoint(x)
            /\ x \in C <=> IsFirstSurrogate(x)
            /\ x \in D <=> IsSecondSurrogate(x)
    BY <1>4, SpanIs, SMT DEF Units16, IsSingleCodepoint, IsFirstSurrogate, IsSecondSurrogate
  <1> HIDE DEF n
  <1>7. IsChar(16, u)
        <=> \/ n = 1 /\ (u[1] \in A \/ u[1] \in B)
            \/ n = 2 /\ u[1] \in C /\ u[2] \in D
    <2>1. Word(u)
      BY <1>1 DEF n, Word
    <2>2. (\E r \in {<<A>>, <<B>>, <<C, D>>} : InRow(r, u)) <=> Shape16(u, A, B, C, D)
      BY <2>1, RowsOfSixteen, Zenon
    <2>3. IsChar(16, u) <=> Shape16(u, A, B, C, D)
      BY <1>2, <1>5, <2>2, Zenon
    <2> QED
      BY <2>3, Zenon DEF Shape16, n
  <1>8. CASE n = 1
    <2>1. a \in Units16
      BY <1>1, <1>8
    <2> QED
      BY <1>6, <1>7, <1>8, <2>1 DEF Fit16, n
  <1>9. CASE n = 2
    <2>1. a \in Units16 /\ b \in Units16
      BY <1>1, <1>9
    <2> QED
      BY <1>6, <1>7, <1>9, <2>1 DEF Fit16, n
  <1>10. CASE ~(n = 1 \/ n = 2)
    BY <1>7, <1>10 DEF Fit16, n
  <1> QED
    BY <1>8, <1>9, <1>10

LEMMA CharFits32 ==
    ASSUME NEW u \in Seq(Nat), u # <<>>
    PROVE  IsChar(32, u) <=> Len(u) = 1 /\ u[1] \in CodePoints
  <1> DEFINE n == Len(u)
  <1>1. n \in Nat /\ n >= 1 /\ DOMAIN u = 1..n /\ u[1] \in Nat
    BY NotEmpty
  <1>2. IsChar(32, u) <=> \E r \in Rows32 : InRow(r, u)
    <2>1. Rows(32) = Rows32
      BY DEF Rows
    <2> QED
      BY <2>1, Zenon DEF IsChar, InRow
  <1>4. PICK A, B : A = Span(0, 55295) /\ B = Span(57344, 1114111)
    BY SMT
  <1>5. Rows32 = {<<A>>, <<B>>}
    BY <1>4, SMT DEF Rows32
  <1>6. \A x \in Nat : x \in A \/ x \in B <=> x \in CodePoints
    BY <1>4, SpanIs, SMT DEF CodePoints, IsValidCodepoint
  <1> HIDE DEF n
  <1>7. IsChar(32, u) <=> n = 1 /\ (u[1] \in A \/ u[1] \in B)
    <2>1. Word(u)
      BY <1>1 DEF n, Word
    <2>2. (\E r \in {<<A>>, <<B>>} : InRow(r, u)) <=> n = 1 /\ (u[1] \in A \/ u[1] \in B)
      BY <2>1, RowsOfThirtyTwo, Zenon DEF n
    <2> QED
      BY <1>2, <1>5, <2>2, Zenon
  <1> QED
    BY <1>1, <1>6, <1>7 DEF n

\* A character of three or four bytes, or of two units of UTF-16, and its number.
Three(u) == (u[1] * 64 + u[2]) * 64 + u[3] - 925824
Four(u) == ((u[1] * 64 + u[2]) * 64 + u[3]) * 64 + u[4] - 63447168
Pair(a, b) == a * 1024 + b - 56613888

LEMMA NumberThree ==
    ASSUME NEW u, Len(u) = 3, u[1] \in Nat, u[2] \in Nat, u[3] \in Nat
    PROVE  Number(8, u) = Three(u)
  <1>1. Radix(8) = 64 /\ Offset(8, u) = 925824
    BY SMT DEF Radix, Offset
  <1>2. Len(u) \in 1..4 /\ Radix(8) \in Nat /\ \A i \in 1..Len(u) : u[i] \in Nat
    BY <1>1, SMT
  <1> DEFINE y(r) == (u[1] * r + u[2]) * r + u[3]
  <1>3. Number(8, u) = y(Radix(8)) - Offset(8, u)
    <2> DEFINE a == u[1]
               b(r) == u[1] * r + u[2]
               c(r) == (u[1] * r + u[2]) * r + u[3]
               d(r) == ((u[1] * r + u[2]) * r + u[3]) * r + u[4]
               x(r) == IF Len(u) = 1 THEN a ELSE IF Len(u) = 2 THEN b(r)
                       ELSE IF Len(u) = 3 THEN c(r) ELSE d(r)
    <2>1. Number(8, u) = x(Radix(8)) - Offset(8, u)
      BY <1>2, NumberIs
    <2>2. ASSUME NEW r PROVE x(r) = c(r)
      <3> HIDE DEF a, b, c, d
      <3> QED
        BY SMT
    <2> HIDE DEF x
    <2>3. x(Radix(8)) = y(Radix(8))
      BY <2>2
    <2> QED
      BY <2>1, <2>3
  <1>4. Number(8, u) = y(64) - 925824
    BY <1>1, <1>3
  <1> QED
    BY <1>4, SMT DEF Three

LEMMA NumberFour ==
    ASSUME NEW u, Len(u) = 4, u[1] \in Nat, u[2] \in Nat, u[3] \in Nat, u[4] \in Nat
    PROVE  Number(8, u) = Four(u)
  <1>1. Radix(8) = 64 /\ Offset(8, u) = 63447168
    BY SMT DEF Radix, Offset
  <1>2. Len(u) \in 1..4 /\ Radix(8) \in Nat /\ \A i \in 1..Len(u) : u[i] \in Nat
    BY <1>1, SMT
  <1> DEFINE y(r) == ((u[1] * r + u[2]) * r + u[3]) * r + u[4]
  <1>3. Number(8, u) = y(Radix(8)) - Offset(8, u)
    <2> DEFINE a == u[1]
               b(r) == u[1] * r + u[2]
               c(r) == (u[1] * r + u[2]) * r + u[3]
               d(r) == ((u[1] * r + u[2]) * r + u[3]) * r + u[4]
               x(r) == IF Len(u) = 1 THEN a ELSE IF Len(u) = 2 THEN b(r)
                       ELSE IF Len(u) = 3 THEN c(r) ELSE d(r)
    <2>1. Number(8, u) = x(Radix(8)) - Offset(8, u)
      BY <1>2, NumberIs
    <2>2. ASSUME NEW r PROVE x(r) = d(r)
      <3> HIDE DEF a, b, c, d
      <3> QED
        BY SMT
    <2> HIDE DEF x
    <2>3. x(Radix(8)) = y(Radix(8))
      BY <2>2
    <2> QED
      BY <2>1, <2>3
  <1>4. Number(8, u) = y(64) - 63447168
    BY <1>1, <1>3
  <1> QED
    BY <1>4, SMT DEF Four

LEMMA ValueThree ==
    ASSUME NEW s, s[1] \in Nat, s[2] \in Nat, s[3] \in Nat
    PROVE  Value8(s, 3) = Three(s)
BY SMT DEF Value8, Three

LEMMA ValueFour ==
    ASSUME NEW s, s[1] \in Nat, s[2] \in Nat, s[3] \in Nat, s[4] \in Nat
    PROVE  Value8(s, 4) = Four(s)
BY SMT DEF Value8, Four

LEMMA PairCombines ==
    ASSUME NEW a \in Nat, NEW b \in Nat, IsFirstSurrogate(a), IsSecondSurrogate(b)
    PROVE  CombineSurrogate(a, b) = Pair(a, b)
  <1>1. a % 1024 = a - 55296 /\ b % 1024 = b - 56320
    BY SMT DEF IsFirstSurrogate, IsSecondSurrogate
  <1> QED
    BY <1>1, SMT DEF CombineSurrogate, Pair

LEMMA CharRead8 ==
    ASSUME NEW s \in Seq(Bytes), NEW m \in 1..Len(s), IsChar(8, SubSeq(s, 1, m))
    PROVE  /\ Decode8(s) = Decoded(Number(8, SubSeq(s, 1, m)), m)
           /\ Number(8, SubSeq(s, 1, m)) \in CodePoints
  <1> DEFINE u == SubSeq(s, 1, m)
  <1>1. /\ u \in Seq(Bytes) /\ Len(u) = m /\ m \in Nat /\ m >= 1
        /\ \A i \in 1..m : u[i] = s[i] /\ s[i] \in Nat
    <2>1. m \in 0..Len(s) /\ m >= 1
      OBVIOUS
    <2>2. \A i \in 1..m : s[i] \in Nat
      BY UnitOfText DEF Bytes
    <2> QED
      BY <2>1, <2>2, Beginning
  <1> HIDE DEF u
  <1>2. u # <<>>
    BY <1>1
  <1>3. Fit8(u, m)
    BY <1>1, <1>2, CharFits8 DEF u
  <1>4. m = 1 \/ m = 2 \/ m = 3 \/ m = 4
    BY <1>3 DEF Fit8
  <1>5. /\ s[1] = u[1] /\ s[1] \in Nat /\ (m >= 2 => s[2] = u[2] /\ s[2] \in Nat)
        /\ (m >= 3 => s[3] = u[3] /\ s[3] \in Nat) /\ (m >= 4 => s[4] = u[4] /\ s[4] \in Nat)
    BY <1>1
  <1>6. Fit8(s, m)
    BY <1>3, <1>4, <1>5 DEF Fit8
  <1>7. Number(8, u) = Value8(s, m)
    <2>1. Radix(8) = 64
      BY DEF Radix
    <2>2. Len(u) \in 1..4 /\ \A i \in 1..Len(u) : u[i] \in Nat
      BY <1>1, <1>4
    <2> DEFINE x == IF Len(u) = 1 THEN u[1]
                    ELSE IF Len(u) = 2 THEN u[1] * 64 + u[2]
                    ELSE IF Len(u) = 3 THEN (u[1] * 64 + u[2]) * 64 + u[3]
                    ELSE ((u[1] * 64 + u[2]) * 64 + u[3]) * 64 + u[4]
    <2>3. Number(8, u) = x - Offset(8, u)
      <3>1. Radix(8) \in Nat
        BY <2>1
      <3>2. LET r == Radix(8)
                y == IF Len(u) = 1 THEN u[1]
                     ELSE IF Len(u) = 2 THEN u[1] * r + u[2]
                     ELSE IF Len(u) = 3 THEN (u[1] * r + u[2]) * r + u[3]
                     ELSE ((u[1] * r + u[2]) * r + u[3]) * r + u[4]
            IN Number(8, u) = y - Offset(8, u)
        BY <2>2, <3>1, NumberIs
      <3> QED
        BY <2>1, <3>2
    <2>4. Offset(8, u) = <<0, 12416, 925824, 63447168>>[m]
      BY <1>1 DEF Offset
    <2>5. CASE m = 1
      BY <1>1, <1>5, <2>3, <2>4, <2>5, SMT DEF Value8
    <2>6. CASE m = 2
      BY <1>1, <1>5, <2>3, <2>4, <2>6, SMT DEF Value8
    <2>7. CASE m = 3
      <3>1. Number(8, u) = Three(u)
        BY <1>1, <1>5, <2>7, NumberThree
      <3>2. Value8(s, 3) = Three(s)
        BY <1>5, <2>7, ValueThree
      <3>3. Three(u) = Three(s)
        BY <1>5, <2>7, SMT DEF Three
      <3> QED
        BY <2>7, <3>1, <3>2, <3>3
    <2>8. CASE m = 4
      <3>1. Number(8, u) = Four(u)
        BY <1>1, <1>5, <2>8, NumberFour
      <3>2. Value8(s, 4) = Four(s)
        BY <1>5, <2>8, ValueFour
      <3>3. Four(u) = Four(s)
        BY <1>5, <2>8, SMT DEF Four
      <3> QED
        BY <2>8, <3>1, <3>2, <3>3
    <2> QED
      BY <1>4, <2>5, <2>6, <2>7, <2>8
  <1>8. Decode8(s) = Decoded(Value8(s, m), m) /\ Value8(s, m) \in CodePoints
    BY <1>6, Fit8Decodes
  <1> QED
    BY <1>7, <1>8 DEF u

LEMMA CharRead16 ==
    ASSUME NEW s \in Seq(Units16), NEW m \in 1..Len(s), IsChar(16, SubSeq(s, 1, m))
    PROVE  /\ Decode16(s) = Decoded(Number(16, SubSeq(s, 1, m)), m)
           /\ Number(16, SubSeq(s, 1, m)) \in CodePoints
  <1> DEFINE u == SubSeq(s, 1, m)
  <1>1. /\ u \in Seq(Units16) /\ Len(u) = m /\ m \in Nat /\ m >= 1 /\ s # <<>> /\ m <= Len(s)
        /\ \A i \in 1..m : u[i] = s[i] /\ s[i] \in Nat /\ s[i] <= 65535
    <2>1. m \in 0..Len(s) /\ m >= 1 /\ s # <<>> /\ m <= Len(s)
      OBVIOUS
    <2>2. \A i \in 1..m : s[i] \in Nat /\ s[i] <= 65535
      <3>1. \A i \in 1..m : s[i] \in Units16
        BY UnitOfText
      <3> QED
        BY <3>1, SMT DEF Units16
    <2> QED
      BY <2>1, <2>2, Beginning, SMT
  <1> HIDE DEF u
  <1>2. u # <<>>
    BY <1>1, SMT
  <1>3. Fit16(u, m)
    <2>1. IsChar(16, u)
      BY DEF u
    <2>2. IsChar(16, u) <=> Fit16(u, Len(u))
      <3>1. u \in Seq(Units16)
        BY <1>1, SMT
      <3> QED
        BY <1>2, <3>1, CharFits16
    <2>3. Len(u) = m
      BY <1>1, SMT
    <2> QED
      BY <2>1, <2>2, <2>3
  <1>4. m = 1 \/ m = 2
    BY <1>3 DEF Fit16
  <1>5. /\ s[1] = u[1] /\ s[1] \in Nat /\ s[1] <= 65535
        /\ (m = 2 => s[2] = u[2] /\ s[2] \in Nat)
    BY <1>1, SMT
  <1>6. Len(u) \in 1..4 /\ (\A i \in 1..Len(u) : u[i] \in Nat) /\ Radix(16) = 1024
        /\ Radix(16) \in Nat
    BY <1>1, <1>4, SMT DEF Radix
  <1>7. LET r == Radix(16)
            y == IF Len(u) = 1 THEN u[1]
                 ELSE IF Len(u) = 2 THEN u[1] * r + u[2]
                 ELSE IF Len(u) = 3 THEN (u[1] * r + u[2]) * r + u[3]
                 ELSE ((u[1] * r + u[2]) * r + u[3]) * r + u[4]
        IN Number(16, u) = y - Offset(16, u)
    BY <1>6, NumberIs
  <1>8. Offset(16, u) = <<0, 56613888>>[m]
    BY <1>1, SMT DEF Offset
  <1>9. CASE m = 1
    <2>1. Number(16, u) = s[1]
      BY <1>1, <1>5, <1>7, <1>8, <1>9, SMT
    <2>2. IsSingleCodepoint(s[1])
      BY <1>3, <1>5, <1>9 DEF Fit16
    <2>3. Decode16(s) = Decoded(s[1], 1)
      BY <1>1, <2>2, <1>5, SMT
         DEF Decode16, IsSingleCodepoint, IsFirstSurrogate, IsSecondSurrogate
    <2>4. s[1] \in CodePoints
      BY <1>5, <2>2, SMT DEF CodePoints, IsValidCodepoint, IsSingleCodepoint
    <2> QED
      BY <1>9, <2>1, <2>3, <2>4 DEF u
  <1>10. CASE m = 2
    <2>1. IsFirstSurrogate(s[1]) /\ IsSecondSurrogate(s[2]) /\ s[1] \in Nat /\ s[2] \in Nat
      BY <1>3, <1>5, <1>10 DEF Fit16
    <2>2. Number(16, u) = Pair(s[1], s[2])
      BY <1>1, <1>5, <1>6, <1>7, <1>8, <1>10, SMT DEF Pair
    <2>4. CombineSurrogate(s[1], s[2]) = Number(16, u)
      BY <2>1, <2>2, PairCombines
    <2>5. CombineSurrogate(s[1], s[2]) \in CodePoints
      BY <2>1, SurrogatesCombine
    <2>6. Decode16(s) = Decoded(CombineSurrogate(s[1], s[2]), 2)
      <3>1. /\ ~IsSingleCodepoint(s[1]) /\ ~IsSecondSurrogate(s[1]) /\ Len(s) # 1
        BY <1>1, <1>10, <2>1, SMT DEF IsSingleCodepoint, IsFirstSurrogate, IsSecondSurrogate
      <3> QED
        BY <1>1, <2>1, <3>1 DEF Decode16
    <2> QED
      BY <1>10, <2>4, <2>5, <2>6 DEF u
  <1> QED
    BY <1>4, <1>9, <1>10

LEMMA CharRead32 ==
    ASSUME NEW s \in Seq(Nat), NEW m \in 1..Len(s), IsChar(32, SubSeq(s, 1, m))
    PROVE  /\ Decode32(s) = Decoded(Number(32, SubSeq(s, 1, m)), m)
           /\ Number(32, SubSeq(s, 1, m)) \in CodePoints
  <1> DEFINE u == SubSeq(s, 1, m)
  <1>1. /\ u \in Seq(Nat) /\ Len(u) = m /\ m \in Nat /\ m >= 1 /\ s # <<>>
        /\ u[1] = s[1] /\ s[1] \in Nat
    <2>1. m \in 0..Len(s) /\ m >= 1 /\ s # <<>> /\ 1 \in 1..m
      OBVIOUS
    <2> QED
      BY <2>1, Beginning, NotEmpty
  <1> HIDE DEF u
  <1>2. u # <<>>
    BY <1>1
  <1>3. m = 1 /\ s[1] \in CodePoints
    BY <1>1, <1>2, CharFits32 DEF u
  <1>4. Number(32, u) = s[1]
    <2>1. Len(u) \in 1..4 /\ (\A i \in 1..Len(u) : u[i] \in Nat) /\ Radix(32) \in Nat
      BY <1>1, <1>3 DEF Radix
    <2>2. Offset(32, u) = 0
      BY DEF Offset
    <2>3. Number(32, u) = u[1] - Offset(32, u)
      BY <1>1, <1>3, <2>1, NumberIs
    <2> QED
      BY <1>1, <2>2, <2>3
  <1>5. IsValidCodepoint(s[1])
    BY <1>3 DEF CodePoints
  <1>6. Decode32(s) = Decoded(s[1], 1)
    BY <1>1, <1>5 DEF Decode32
  <1> QED
    BY <1>3, <1>4, <1>6 DEF u

\* A character at the beginning of a text is what decode reads, and its number what it returns.
LEMMA CharIsRead ==
    ASSUME NEW w \in Encodings, NEW s \in Seq(Units(w)), NEW m \in 1..Len(s),
           IsChar(w, SubSeq(s, 1, m))
    PROVE  /\ Decode(w, s) = Decoded(Number(w, SubSeq(s, 1, m)), m)
           /\ Number(w, SubSeq(s, 1, m)) \in CodePoints
  <1>1. CASE w = 8
    BY <1>1, CharRead8 DEF Units, Decode
  <1>2. CASE w = 16
    BY <1>2, CharRead16 DEF Units, Decode
  <1>3. CASE w = 32
    BY <1>3, CharRead32 DEF Units, Decode
  <1> QED
    BY <1>1, <1>2, <1>3 DEF Encodings

\* What decode reads as a code point is a character.
LEMMA ReadIsChar ==
    ASSUME NEW w \in Encodings, NEW s \in Seq(Units(w)), s # <<>>,
           Decode(w, s).cp \in CodePoints
    PROVE  IsChar(w, SubSeq(s, 1, Decode(w, s).used))
  <1> DEFINE m == Decode(w, s).used
             u == SubSeq(s, 1, m)
  <1>1. m \in 1..Len(s)
    BY DecodeProgress
  <1> HIDE DEF m
  <1>2. /\ u \in Seq(Units(w)) /\ Len(u) = m /\ m \in Nat /\ m >= 1
        /\ \A i \in 1..m : u[i] = s[i]
    <2>1. m \in 0..Len(s) /\ m >= 1
      BY <1>1
    <2> QED
      BY <2>1, Beginning
  <1> HIDE DEF u
  <1>3. u # <<>> /\ u[1] = s[1] /\ (m >= 2 => u[2] = s[2]) /\ (m >= 3 => u[3] = s[3])
        /\ (m >= 4 => u[4] = s[4])
    BY <1>2
  <1>4. CASE w = 8
    <2>1. Decode(w, s) = Decode8(s) /\ s \in Seq(Bytes) /\ u \in Seq(Bytes)
      BY <1>2, <1>4 DEF Decode, Units
    <2>2. Fit8(s, m)
      BY <2>1, DecodedFits8 DEF m
    <2>3. Fit8(u, m)
      BY <1>3, <2>2 DEF Fit8
    <2> QED
      BY <1>2, <1>3, <1>4, <2>1, <2>3, CharFits8 DEF u, m
  <1>5. CASE w = 16
    <2>1. Decode(w, s) = Decode16(s) /\ s \in Seq(Units16) /\ u \in Seq(Units16)
      BY <1>2, <1>5 DEF Decode, Units
    <2>2. s[1] \in Units16 /\ Len(s) \in Nat
      BY <2>1, NotEmpty
    <2>3. s[1] \in Nat
      BY <2>2 DEF Units16
    <2>4. Fit16(s, m)
      <3>1. CASE IsSingleCodepoint(s[1])
        <4>1. Decode16(s) = Decoded(s[1], 1)
          <5>1. ~IsFirstSurrogate(s[1]) /\ ~IsSecondSurrogate(s[1])
            BY <2>3, <3>1, SMT DEF IsSingleCodepoint, IsFirstSurrogate, IsSecondSurrogate
          <5> QED
            BY <3>1, <5>1 DEF Decode16
        <4> QED
          BY <2>1, <3>1, <4>1, DecodedFields DEF Fit16, m
      <3>2. CASE IsSecondSurrogate(s[1])
        <4>1. Decode16(s) = Decoded(Illegal, 1)
          <5>1. ~IsFirstSurrogate(s[1]) /\ ~IsSingleCodepoint(s[1])
            BY <2>3, <3>2, SMT DEF IsSingleCodepoint, IsFirstSurrogate, IsSecondSurrogate
          <5> QED
            BY <3>2, <5>1 DEF Decode16
        <4> QED
          BY <2>1, <4>1, NoSpecialResult, DecodedFields
      <3>3. CASE IsFirstSurrogate(s[1])
        <4>1. ~IsSecondSurrogate(s[1]) /\ ~IsSingleCodepoint(s[1])
          BY <2>3, <3>3, SMT DEF IsSingleCodepoint, IsFirstSurrogate, IsSecondSurrogate
        <4>2. CASE Len(s) = 1
          <5>1. Decode16(s) = Decoded(Incomplete, 1)
            BY <3>3, <4>1, <4>2 DEF Decode16
          <5> QED
            BY <2>1, <5>1, NoSpecialResult, DecodedFields
        <4>3. CASE Len(s) # 1 /\ ~IsSecondSurrogate(s[2])
          <5>1. Decode16(s) = Decoded(Illegal, 2)
            BY <3>3, <4>1, <4>3 DEF Decode16
          <5> QED
            BY <2>1, <5>1, NoSpecialResult, DecodedFields
        <4>4. CASE Len(s) # 1 /\ IsSecondSurrogate(s[2])
          <5>1. Decode16(s) = Decoded(CombineSurrogate(s[1], s[2]), 2)
            BY <3>3, <4>1, <4>4 DEF Decode16
          <5> QED
            BY <2>1, <3>3, <4>4, <5>1, DecodedFields DEF Fit16, m
        <4> QED
          BY <4>2, <4>3, <4>4
      <3>4. IsSingleCodepoint(s[1]) \/ IsSecondSurrogate(s[1]) \/ IsFirstSurrogate(s[1])
        BY <2>3, SMT DEF IsSingleCodepoint, IsFirstSurrogate, IsSecondSurrogate
      <3> QED
        BY <3>1, <3>2, <3>3, <3>4
    <2>5. Fit16(u, m)
      BY <1>3, <2>4 DEF Fit16
    <2> QED
      BY <1>2, <1>3, <1>5, <2>1, <2>5, CharFits16 DEF u, m
  <1>6. CASE w = 32
    <2>1. Decode(w, s) = Decode32(s) /\ s \in Seq(Nat) /\ u \in Seq(Nat)
      BY <1>2, <1>6 DEF Decode, Units
    <2>2. IsValidCodepoint(s[1])
      <3>1. SUFFICES ASSUME ~IsValidCodepoint(s[1]) PROVE FALSE
        OBVIOUS
      <3>2. Decode32(s) = Decoded(Illegal, 1)
        BY <3>1 DEF Decode32
      <3> QED
        BY <2>1, <3>2, NoSpecialResult, DecodedFields
    <2>3. Decode32(s) = Decoded(s[1], 1)
      BY <2>2 DEF Decode32
    <2>4. m = 1 /\ s[1] \in CodePoints
      BY <2>1, <2>3, DecodedFields DEF m
    <2> QED
      BY <1>2, <1>3, <1>6, <2>1, <2>4, CharFits32 DEF u, m
  <1> QED
    BY <1>4, <1>5, <1>6 DEF Encodings

\* What encode writes is a character, with the number of the code point.
LEMMA WrittenIsChar ==
    ASSUME NEW w \in Encodings, NEW v \in CodePoints
    PROVE  IsChar(w, Encode(w, v)) /\ Number(w, Encode(w, v)) = v
  <1> DEFINE s == Encode(w, v)
             m == Width(w, v)
  <1>1. s \in Seq(Units(w)) /\ Len(s) = m
    BY EncodeHasItsWidth
  <1>2. m \in 1..MaxWidth(w)
    BY WidthBounds
  <1>3. Decode(w, s) = Decoded(v, m)
    BY <1>1, RoundTrip
  <1> HIDE DEF s, m
  <1>4. m >= 1 /\ s # <<>> /\ m \in 0..Len(s) /\ m \in 1..Len(s)
    <2>1. MaxWidth(w) \in Nat
      BY DEF MaxWidth, Encodings
    <2> QED
      BY <1>1, <1>2, <2>1
  <1>5. SubSeq(s, 1, m) = s
    BY <1>1, <1>4, Beginning
  <1>6. Decode(w, s).cp = v /\ Decode(w, s).used = m
    BY <1>3, DecodedFields
  <1>7. IsChar(w, s)
    BY <1>1, <1>4, <1>5, <1>6, ReadIsChar
  <1>8. Decode(w, s) = Decoded(Number(w, s), m)
    BY <1>1, <1>4, <1>5, <1>7, CharIsRead
  <1> QED
    BY <1>6, <1>7, <1>8, DecodedFields DEF s

\* The first unit of a character tells its length, and it is the only one that is no trail unit.
LEMMA CharShape ==
    ASSUME NEW w \in Encodings, NEW u \in Seq(Units(w)), u # <<>>, IsChar(w, u)
    PROVE  /\ TrailLength(w, u[1]) = Len(u) - 1
           /\ \A i \in 1..Len(u) : IsTrail(w, u[i]) <=> i > 1
  <1> DEFINE m == Len(u)
  <1>1. m \in 1..Len(u) /\ m \in 0..Len(u)
    BY NotEmpty
  <1>2. SubSeq(u, 1, m) = u
    BY <1>1, Beginning
  <1>3. Decode(w, u) = Decoded(Number(w, u), m) /\ Number(w, u) \in CodePoints
    BY <1>1, <1>2, CharIsRead
  <1>4. Decode(w, u).cp \in CodePoints /\ Decode(w, u).used = m
    BY <1>3, DecodedFields
  <1>5. Agree(w, u)
    BY <1>4, DecodeValidAgrees
  <1> QED
    BY <1>4, <1>5 DEF Agree

----------------------------------------------------------------------------
\* A text read from its end: its last character, and the text before it.

\* The n units that end at k are a character, and its number.
LastIs(w, s, k, n) == IsChar(w, SubSeq(s, k - n + 1, k))
LastNumber(w, s, k, n) == Number(w, SubSeq(s, k - n + 1, k))

\* One round of the recursion in Texted.
Ends(w, s, t, k) == {n \in 1..k : LastIs(w, s, k, n) /\ t[k - n].is}
Read(w, s, t, k) ==
    IF k = 0 THEN [is |-> TRUE, numbers |-> <<>>]
    ELSE IF Ends(w, s, t, k) = {} THEN [is |-> FALSE, numbers |-> <<>>]
    ELSE LET n == CHOOSE n \in Ends(w, s, t, k) : TRUE
         IN [is |-> TRUE, numbers |-> Append(t[k - n].numbers, LastNumber(w, s, k, n))]
Reads(w, s, t, m) == [k \in 0..m |-> Read(w, s, t, k)]

\* A round looks at what comes before only.
LEMMA ReadIsLocal ==
    ASSUME NEW w, NEW s, NEW r, NEW t, NEW u, NEW k \in Nat,
           \A i \in 0..(k - 1) : t[i] = u[i],
           \A n \in 1..k : LastIs(w, s, k, n) <=> LastIs(w, r, k, n),
           \A n \in 1..k : LastNumber(w, s, k, n) = LastNumber(w, r, k, n)
    PROVE  Read(w, s, t, k) = Read(w, r, u, k)
  <1>1. CASE k = 0
    BY <1>1 DEF Read
  <1>2. CASE k # 0
    <2>1. \A n \in 1..k : t[k - n] = u[k - n]
      <3>1. \A n \in 1..k : k - n \in 0..(k - 1)
        OBVIOUS
      <3> QED
        BY <3>1
    <2>2. Ends(w, s, t, k) = Ends(w, r, u, k)
      BY <2>1 DEF Ends
    <2>3. CASE Ends(w, s, t, k) = {}
      BY <1>2, <2>2, <2>3 DEF Read
    <2>4. CASE Ends(w, s, t, k) # {}
      <3> DEFINE n == CHOOSE i \in Ends(w, s, t, k) : TRUE
                 p == CHOOSE i \in Ends(w, r, u, k) : TRUE
      <3>1. n \in Ends(w, s, t, k) /\ n = p
        BY <2>2, <2>4
      <3>2. n \in 1..k
        BY <3>1 DEF Ends
      <3>3. /\ Read(w, s, t, k)
               = [is |-> TRUE, numbers |-> Append(t[k - n].numbers, LastNumber(w, s, k, n))]
            /\ Read(w, r, u, k)
               = [is |-> TRUE, numbers |-> Append(u[k - p].numbers, LastNumber(w, r, k, p))]
        BY <1>2, <2>2, <2>4, Zenon DEF Read
      <3> HIDE DEF n, p
      <3>4. t[k - n] = u[k - p] /\ LastNumber(w, s, k, n) = LastNumber(w, r, k, p)
        BY <2>1, <3>1, <3>2, Zenon
      <3> QED
        BY <3>3, <3>4, Zenon
    <2> QED
      BY <2>3, <2>4
  <1> QED
    BY <1>1, <1>2

LEMMA ReadsExist ==
    ASSUME NEW w, NEW s, NEW n \in Nat
    PROVE  \E t : t = Reads(w, s, t, n)
  <1> DEFINE T == {m \in Nat : ~\E t : t = Reads(w, s, t, m)}
  <1>1. SUFFICES ASSUME T # {} PROVE FALSE
    OBVIOUS
  <1>2. PICK m \in T : \A y \in T : m <= y
    BY <1>1, LeastNumber
  <1>3. CASE m = 0
    <2> DEFINE t == [k \in 0..0 |-> [is |-> TRUE, numbers |-> <<>>]]
    <2>1. t = Reads(w, s, t, 0)
      <3>1. \A k \in 0..0 : Read(w, s, t, k) = [is |-> TRUE, numbers |-> <<>>]
        BY DEF Read
      <3> QED
        BY <3>1 DEF Reads
    <2> QED
      BY <1>2, <1>3, <2>1
  <1>4. CASE m # 0
    <2>1. m - 1 \in Nat /\ m - 1 \notin T /\ m \in Nat
      BY <1>2, <1>4
    <2>2. PICK t : t = Reads(w, s, t, m - 1)
      BY <2>1
    <2> DEFINE g == [k \in 0..m |-> IF k = m THEN Read(w, s, t, m) ELSE t[k]]
    <2>3. \A k \in 0..(m - 1) : g[k] = t[k]
      BY <2>1
    <2>4. ASSUME NEW k \in 0..m
          PROVE  g[k] = Read(w, s, g, k)
      <3>1. k \in Nat /\ \A i \in 0..(k - 1) : t[i] = g[i]
        BY <2>1, <2>3
      <3> HIDE DEF g
      <3>2. Read(w, s, t, k) = Read(w, s, g, k)
        BY <3>1, ReadIsLocal
      <3>3. CASE k = m
        <4>1. g[k] = Read(w, s, t, k)
          BY <2>1, <3>3 DEF g
        <4> QED
          BY <3>2, <4>1
      <3>4. CASE k # m
        <4>1. k \in 0..(m - 1)
          BY <2>1, <3>4
        <4>2. t[k] = Read(w, s, t, k)
          BY <2>2, <4>1, Zenon DEF Reads
        <4> QED
          BY <2>3, <3>2, <4>1, <4>2
      <3> QED
        BY <3>3, <3>4
    <2>5. g = [k \in 0..m |-> Read(w, s, g, k)]
      <3> DEFINE h == [k \in 0..m |-> Read(w, s, g, k)]
      <3>1. \A k \in 0..m : g[k] = h[k]
        BY <2>4, Zenon
      <3>2. DOMAIN g = 0..m /\ DOMAIN h = 0..m
        OBVIOUS
      <3> QED
        BY <2>4, Zenon
    <2> HIDE DEF g
    <2>6. g = Reads(w, s, g, m)
      BY <2>5 DEF Reads
    <2> QED
      BY <1>2, <2>6
  <1> QED
    BY <1>3, <1>4

\* The units from i to j are the same in a text and in a beginning of it.
LEMMA SameSlice ==
    ASSUME NEW S, NEW s \in Seq(S), NEW m \in 0..Len(s), NEW j \in 1..m, NEW i \in 1..j
    PROVE  SubSeq(SubSeq(s, 1, m), i, j) = SubSeq(s, i, j)
  <1> DEFINE r == SubSeq(s, 1, m)
  <1>1. r \in Seq(S) /\ Len(r) = m /\ m \in Nat /\ \A k \in 1..m : r[k] = s[k]
    BY Beginning
  <1>2. j \in Nat /\ i \in Nat /\ i <= j /\ j <= m /\ 1 <= i /\ m <= Len(s) /\ Len(s) \in Nat
    OBVIOUS
  <1>3. \A k \in i..j : s[k] \in S /\ r[k] = s[k]
    <2>1. \A k \in i..j : k \in 1..m /\ k \in 1..Len(s)
      BY <1>2
    <2> HIDE DEF r
    <2> QED
      BY <1>1, <2>1, UnitOfText
  <1> HIDE DEF r
  <1> DEFINE x == SubSeq(r, i, j)
             y == SubSeq(s, i, j)
  <1>4. x \in Seq(S) /\ Len(x) = j - i + 1 /\ \A k \in 1..(j - i + 1) : x[k] = r[i + k - 1]
    BY SMT, <1>1, <1>2, <1>3
  <1>5. y \in Seq(S) /\ Len(y) = j - i + 1 /\ \A k \in 1..(j - i + 1) : y[k] = s[i + k - 1]
    BY SMT, <1>1, <1>2, <1>3
  <1>6. \A k \in 1..(j - i + 1) : i + k - 1 \in i..j
    BY <1>2
  <1> HIDE DEF x, y
  <1>7. x = y
    <2>1. \A k \in 1..Len(x) : x[k] = y[k]
      BY <1>3, <1>4, <1>5, <1>6
    <2> QED
      BY <1>4, <1>5, <2>1, SameText
  <1> QED
    BY <1>7 DEF x, y, r

\* The function in the definition of Texted.
LEMMA TextedIsRead ==
    ASSUME NEW w, NEW s, Len(s) \in Nat
    PROVE  \E t : t = Reads(w, s, t, Len(s)) /\ Texted(w, s) = t[Len(s)]
  <1> DEFINE e(t) == [k \in 0..Len(s) |->
            IF k = 0 THEN [is |-> TRUE, numbers |-> <<>>]
            ELSE LET ends == {n \in 1..k : IsChar(w, SubSeq(s, k - n + 1, k)) /\ t[k - n].is}
                 IN IF ends = {} THEN [is |-> FALSE, numbers |-> <<>>]
                    ELSE LET n == CHOOSE n \in ends : TRUE
                         IN [is |-> TRUE,
                             numbers |-> Append(t[k - n].numbers,
                                                Number(w, SubSeq(s, k - n + 1, k)))]]
             f == CHOOSE t : t = e(t)
  <1>1. ASSUME NEW t PROVE e(t) = Reads(w, s, t, Len(s))
    BY Zenon DEF Reads, Read, Ends, LastIs, LastNumber
  <1>2. Texted(w, s) = f[Len(s)]
    BY DEF Texted
  <1> HIDE DEF e
  <1>3. \E t : t = e(t)
    <2>1. \E t : t = Reads(w, s, t, Len(s))
      BY ReadsExist
    <2> QED
      BY <1>1, <2>1, Zenon
  <1>4. f = e(f)
    BY <1>3, Zenon
  <1> HIDE DEF f
  <1>5. f = Reads(w, s, f, Len(s))
    BY <1>1, <1>4, Zenon
  <1> QED
    BY <1>2, <1>5

\* What stands at k in the function is what the first k units are.
LEMMA TextedBeginnings ==
    ASSUME NEW w, NEW S, NEW s \in Seq(S), NEW t, t = Reads(w, s, t, Len(s)),
           NEW m \in 0..Len(s)
    PROVE  Texted(w, SubSeq(s, 1, m)) = t[m]
  <1> DEFINE r == SubSeq(s, 1, m)
  <1>1. r \in Seq(S) /\ Len(r) = m /\ m \in Nat /\ Len(s) \in Nat /\ m <= Len(s)
    BY Beginning
  <1>2. ASSUME NEW k \in 1..m, NEW n \in 1..k
        PROVE  /\ LastIs(w, r, k, n) <=> LastIs(w, s, k, n)
               /\ LastNumber(w, r, k, n) = LastNumber(w, s, k, n)
    <2>1. k - n + 1 \in 1..k
      BY <1>1
    <2>2. SubSeq(r, k - n + 1, k) = SubSeq(s, k - n + 1, k)
      BY <2>1, SameSlice
    <2> HIDE DEF r
    <2> QED
      BY <2>2, Zenon DEF LastIs, LastNumber
  <1> HIDE DEF r
  <1>3. PICK u : u = Reads(w, r, u, m) /\ Texted(w, r) = u[m]
    BY <1>1, TextedIsRead
  <1> DEFINE T == {k \in 0..m : u[k] # t[k]}
  <1>4. T = {}
    <2>1. SUFFICES ASSUME T # {} PROVE FALSE
      OBVIOUS
    <2>2. T \in SUBSET Nat
      BY <1>1
    <2>3. PICK k \in T : \A y \in T : k <= y
      BY <2>1, <2>2, LeastNumber
    <2>4. k \in 0..m /\ k \in Nat /\ k \in 0..Len(s) /\ u[k] # t[k]
      BY <1>1, <2>3
    <2>5. \A i \in 0..(k - 1) : u[i] = t[i]
      <3>1. ASSUME NEW i \in 0..(k - 1) PROVE u[i] = t[i]
        <4>1. i \in 0..m /\ ~(k <= i)
          BY <1>1, <2>4
        <4> QED
          BY <2>3, <4>1
      <3> QED
        BY <3>1
    <2>6. u[k] = Read(w, r, u, k) /\ t[k] = Read(w, s, t, k)
      BY <1>3, <2>4, Zenon DEF Reads
    <2>7. Read(w, r, u, k) = Read(w, s, t, k)
      <3>1. \A n \in 1..k : LastIs(w, r, k, n) <=> LastIs(w, s, k, n)
        <4>1. ASSUME NEW n \in 1..k PROVE LastIs(w, r, k, n) <=> LastIs(w, s, k, n)
          <5>1. k \in 1..m
            BY <1>1, <2>4
          <5> QED
            BY <1>2, <5>1
        <4> QED
          BY <4>1
      <3>2. \A n \in 1..k : LastNumber(w, r, k, n) = LastNumber(w, s, k, n)
        <4>1. ASSUME NEW n \in 1..k PROVE LastNumber(w, r, k, n) = LastNumber(w, s, k, n)
          <5>1. k \in 1..m
            BY <1>1, <2>4
          <5> QED
            BY <1>2, <5>1
        <4> QED
          BY <4>1
      <3> QED
        BY <2>4, <2>5, <3>1, <3>2, ReadIsLocal
    <2> QED
      BY <2>4, <2>6, <2>7
  <1>5. m \in 0..m
    BY <1>1
  <1>6. u[m] = t[m]
    BY <1>4, <1>5
  <1> QED
    BY <1>3, <1>6 DEF r

\* The n units of a text that end at k.
LEMMA Slice ==
    ASSUME NEW S, NEW s \in Seq(S), NEW k \in 0..Len(s), NEW n \in 1..k
    PROVE  LET u == SubSeq(s, k - n + 1, k)
           IN u \in Seq(S) /\ Len(u) = n /\ u # <<>> /\ \A i \in 1..n : u[i] = s[k - n + i]
  <1>1. /\ k \in Nat /\ n \in Nat /\ n >= 1 /\ n <= k /\ k <= Len(s) /\ Len(s) \in Nat
        /\ k - n + 1 \in Nat /\ k - n + 1 >= 1
    OBVIOUS
  <1> DEFINE a == k - n + 1
             u == SubSeq(s, a, k)
  <1>2. \A i \in a..k : s[i] \in S
    BY <1>1, UnitOfText
  <1>3. a \in Nat /\ a >= 1 /\ a <= k /\ k - a + 1 = n /\ \A i \in 1..n : a + i - 1 = k - n + i
    BY <1>1
  <1> HIDE DEF a
  <1>4. u \in Seq(S) /\ Len(u) = k - a + 1 /\ \A i \in 1..(k - a + 1) : u[i] = s[a + i - 1]
    BY SMT, <1>1, <1>2, <1>3
  <1>5. u # <<>>
    BY <1>1, <1>3, <1>4
  <1>6. \A i \in 1..n : u[i] = s[k - n + i]
    BY <1>3, <1>4
  <1>7. Len(u) = n
    BY <1>3, <1>4
  <1> QED
    BY <1>4, <1>5, <1>6, <1>7 DEF a

\* The units of the character that ends at k.
LEMMA LastShape ==
    ASSUME NEW w \in Encodings, NEW s \in Seq(Units(w)), NEW k \in 0..Len(s), NEW n \in 1..k,
           LastIs(w, s, k, n)
    PROVE  /\ TrailLength(w, s[k - n + 1]) = n - 1
           /\ \A i \in 1..n : IsTrail(w, s[k - n + i]) <=> i > 1
  <1> DEFINE u == SubSeq(s, k - n + 1, k)
  <1>1. u \in Seq(Units(w)) /\ Len(u) = n /\ u # <<>> /\ \A i \in 1..n : u[i] = s[k - n + i]
    BY Slice
  <1>2. IsChar(w, u)
    BY DEF LastIs
  <1> HIDE DEF u
  <1>3. TrailLength(w, u[1]) = n - 1 /\ \A i \in 1..n : IsTrail(w, u[i]) <=> i > 1
    BY <1>1, <1>2, CharShape
  <1>4. 1 \in 1..n /\ u[1] = s[k - n + 1]
    BY <1>1
  <1> QED
    BY <1>1, <1>3, <1>4

\* Two characters of a text that share a unit are the same.
LEMMA CharsDoNotOverlap ==
    ASSUME NEW w \in Encodings, NEW s \in Seq(Units(w)),
           NEW k \in 0..Len(s), NEW n \in 1..k, LastIs(w, s, k, n),
           NEW j \in 0..Len(s), NEW p \in 1..j, LastIs(w, s, j, p),
           k - n < j, j - p < k
    PROVE  k = j /\ n = p
  <1>1. k \in Nat /\ n \in Nat /\ j \in Nat /\ p \in Nat /\ 1 <= n /\ n <= k /\ 1 <= p /\ p <= j
    OBVIOUS
  <1>2. /\ TrailLength(w, s[k - n + 1]) = n - 1
        /\ \A i \in 1..n : IsTrail(w, s[k - n + i]) <=> i > 1
    BY LastShape
  <1>3. /\ TrailLength(w, s[j - p + 1]) = p - 1
        /\ \A i \in 1..p : IsTrail(w, s[j - p + i]) <=> i > 1
    BY LastShape
  <1>4. ASSUME k - n < j - p PROVE FALSE
    <2> DEFINE i == j - p + 1 - (k - n)
    <2>1. i \in 1..n /\ i > 1 /\ k - n + i = j - p + 1 /\ 1 \in 1..p
      BY <1>1, <1>4
    <2> HIDE DEF i
    <2>2. IsTrail(w, s[j - p + 1])
      BY <1>2, <2>1
    <2>3. ~IsTrail(w, s[j - p + 1])
      BY <1>3, <2>1
    <2> QED
      BY <2>2, <2>3
  <1>5. ASSUME j - p < k - n PROVE FALSE
    <2> DEFINE i == k - n + 1 - (j - p)
    <2>1. i \in 1..p /\ i > 1 /\ j - p + i = k - n + 1 /\ 1 \in 1..n
      BY <1>1, <1>5
    <2> HIDE DEF i
    <2>2. IsTrail(w, s[k - n + 1])
      BY <1>3, <2>1
    <2>3. ~IsTrail(w, s[k - n + 1])
      BY <1>2, <2>1
    <2> QED
      BY <2>2, <2>3
  <1>6. k - n = j - p
    BY <1>1, <1>4, <1>5
  <1>7. n - 1 = p - 1
    BY <1>2, <1>3, <1>6
  <1> QED
    BY <1>1, <1>6, <1>7

\* What the first k units of a text are, by the character that ends there.
LEMMA TextedUnfolds ==
    ASSUME NEW w \in Encodings, NEW s \in Seq(Units(w)), NEW k \in 0..Len(s)
    PROVE  LET P(i) == Texted(w, SubSeq(s, 1, i))
           IN /\ k = 0 => P(k) = [is |-> TRUE, numbers |-> <<>>]
              /\ k # 0 /\ P(k).is => \E n \in 1..k : LastIs(w, s, k, n) /\ P(k - n).is
              /\ \A n \in 1..k : LastIs(w, s, k, n) /\ P(k - n).is =>
                     /\ P(k).is
                     /\ P(k).numbers = Append(P(k - n).numbers, LastNumber(w, s, k, n))
  <1> DEFINE P(i) == Texted(w, SubSeq(s, 1, i))
  <1>1. k \in Nat /\ Len(s) \in Nat /\ k <= Len(s)
    OBVIOUS
  <1>2. PICK t : t = Reads(w, s, t, Len(s))
    BY <1>1, TextedIsRead
  <1>3. \A i \in 0..Len(s) : P(i) = t[i]
    BY <1>2, TextedBeginnings
  <1>4. t[k] = Read(w, s, t, k)
    BY <1>2, Zenon DEF Reads
  <1>5. P(k) = Read(w, s, t, k)
    BY <1>3, <1>4
  <1>6. \A n \in 1..k : P(k - n) = t[k - n]
    <2>1. \A n \in 1..k : k - n \in 0..Len(s)
      BY <1>1
    <2> QED
      BY <1>3, <2>1, Zenon
  <1> HIDE DEF P
  <1>7. Ends(w, s, t, k) = {n \in 1..k : LastIs(w, s, k, n) /\ P(k - n).is}
    BY <1>6 DEF Ends
  <1>8. k = 0 => P(k) = [is |-> TRUE, numbers |-> <<>>]
    BY <1>5 DEF Read
  <1>9. k # 0 /\ P(k).is => \E n \in 1..k : LastIs(w, s, k, n) /\ P(k - n).is
    <2>1. SUFFICES ASSUME k # 0, P(k).is, Ends(w, s, t, k) = {} PROVE FALSE
      BY <1>7
    <2>2. P(k) = [is |-> FALSE, numbers |-> <<>>]
      BY <1>5, <2>1 DEF Read
    <2> QED
      BY <2>1, <2>2
  <1>10. ASSUME NEW n \in 1..k, LastIs(w, s, k, n), P(k - n).is
         PROVE  P(k).is /\ P(k).numbers = Append(P(k - n).numbers, LastNumber(w, s, k, n))
    <2> DEFINE p == CHOOSE i \in Ends(w, s, t, k) : TRUE
    <2>1. n \in Ends(w, s, t, k)
      BY <1>7, <1>10
    <2>2. p \in Ends(w, s, t, k)
      BY <2>1
    <2>3. k # 0
      BY <1>1
    <2>4. P(k) = [is |-> TRUE, numbers |-> Append(t[k - p].numbers, LastNumber(w, s, k, p))]
      BY <1>5, <2>1, <2>3, Zenon DEF Read
    <2> HIDE DEF p
    <2>5. p \in 1..k /\ LastIs(w, s, k, p)
      BY <1>7, <2>2
    <2>6. p = n
      <3>1. k - p < k /\ k - n < k
        BY <1>1, <2>5
      <3> QED
        BY <1>10, <2>5, <3>1, CharsDoNotOverlap
    <2>7. t[k - p] = P(k - n)
      BY <1>6, <2>6
    <2> QED
      BY <2>4, <2>6, <2>7
  <1> QED
    BY <1>8, <1>9, <1>10 DEF P

\* After a beginning of a text that is a text comes a character, after which there is a text again.
LEMMA NextChar ==
    ASSUME NEW w \in Encodings, NEW s \in Seq(Units(w)), Texted(w, s).is,
           NEW k \in 0..(Len(s) - 1), Texted(w, SubSeq(s, 1, k)).is
    PROVE  \E m \in 1..(Len(s) - k) : LastIs(w, s, k + m, m)
  <1> DEFINE P(i) == Texted(w, SubSeq(s, 1, i)).is
             T == {i \in (k + 1)..Len(s) : P(i)}
  <1>1. Len(s) \in Nat /\ k \in Nat /\ k + 1 <= Len(s) /\ Len(s) \in 0..Len(s)
    OBVIOUS
  <1>2. P(Len(s))
    <2>1. SubSeq(s, 1, Len(s)) = s
      BY <1>1, Beginning
    <2> QED
      BY <2>1
  <1>3. P(k)
    OBVIOUS
  <1> HIDE DEF P
  <1>4. T \in SUBSET Nat /\ T # {}
    <2>1. Len(s) \in T
      BY <1>1, <1>2
    <2> QED
      BY <1>1, <2>1
  <1>5. PICK j \in T : \A y \in T : j <= y
    BY <1>4, LeastNumber
  <1>6. j \in Nat /\ k < j /\ j <= Len(s) /\ j \in 0..Len(s) /\ j # 0 /\ P(j)
    BY <1>1, <1>5
  <1>7. PICK n \in 1..j : LastIs(w, s, j, n) /\ P(j - n)
    BY <1>6, TextedUnfolds DEF P
  <1>8. j - n \in Nat /\ j - n < j /\ n \in Nat /\ j - n <= Len(s)
    BY <1>6
  <1>9. ~(k < j - n)
    <2>1. SUFFICES ASSUME k < j - n PROVE FALSE
      OBVIOUS
    <2>2. j - n \in T
      BY <1>1, <1>7, <1>8, <2>1
    <2> QED
      BY <1>5, <1>6, <1>8, <2>2
  <1>10. ~(j - n < k)
    <2>1. SUFFICES ASSUME j - n < k PROVE FALSE
      OBVIOUS
    <2>2. k # 0 /\ k \in 0..Len(s)
      BY <1>1, <1>8, <2>1
    <2>3. PICK p \in 1..k : LastIs(w, s, k, p)
      BY <1>3, <2>2, TextedUnfolds DEF P
    <2>4. k - p < j
      BY <1>1, <1>6
    <2>5. j = k
      BY <1>6, <1>7, <2>1, <2>2, <2>3, <2>4, CharsDoNotOverlap
    <2> QED
      BY <1>6, <2>5
  <1>11. j = k + n
    BY <1>1, <1>6, <1>8, <1>9, <1>10
  <1>12. n \in 1..(Len(s) - k)
    BY <1>1, <1>6, <1>8, <1>11
  <1> QED
    BY <1>7, <1>11, <1>12

\* A character at the end of a text makes a text.
LEMMA TextedAppended ==
    ASSUME NEW w \in Encodings, NEW a \in Seq(Units(w)), Texted(w, a).is,
           NEW u \in Seq(Units(w)), u # <<>>, IsChar(w, u)
    PROVE  /\ Texted(w, a \o u).is
           /\ Texted(w, a \o u).numbers = Append(Texted(w, a).numbers, Number(w, u))
  <1> DEFINE s == a \o u
             n == Len(u)
             k == Len(a) + Len(u)
  <1>1. /\ s \in Seq(Units(w)) /\ Len(s) = k /\ k \in Nat /\ n \in 1..k /\ k \in 0..Len(s)
        /\ Len(a) \in 0..Len(s) /\ k - n = Len(a) /\ Len(a) \in Nat /\ n \in Nat
    OBVIOUS
  <1>2. /\ \A i \in 1..Len(a) : s[i] = a[i]
        /\ \A i \in 1..n : s[Len(a) + i] = u[i]
    OBVIOUS
  <1> HIDE DEF s, n, k
  <1>3. SubSeq(s, 1, k - n) = a
    <2> DEFINE x == SubSeq(s, 1, Len(a))
    <2>1. x \in Seq(Units(w)) /\ Len(x) = Len(a) /\ \A i \in 1..Len(a) : x[i] = s[i]
      BY <1>1, Beginning
    <2> HIDE DEF x
    <2>2. x = a
      BY <1>2, <2>1, SameText
    <2> QED
      BY <1>1, <2>2 DEF x
  <1>4. SubSeq(s, k - n + 1, k) = u
    <2> DEFINE x == SubSeq(s, k - n + 1, k)
    <2>1. x \in Seq(Units(w)) /\ Len(x) = n /\ \A i \in 1..n : x[i] = s[k - n + i]
      BY <1>1, Slice
    <2> HIDE DEF x
    <2>2. Len(x) = Len(u) /\ \A i \in 1..Len(x) : x[i] = u[i]
      BY <1>1, <1>2, <2>1 DEF n
    <2>3. x = u
      BY <2>1, <2>2, SameText
    <2> QED
      BY <2>3 DEF x
  <1>5. LastIs(w, s, k, n) /\ LastNumber(w, s, k, n) = Number(w, u)
    BY <1>4, Zenon DEF LastIs, LastNumber
  <1>6. SubSeq(s, 1, k) = s
    BY <1>1, Beginning
  <1>7. /\ Texted(w, SubSeq(s, 1, k)).is
        /\ Texted(w, SubSeq(s, 1, k)).numbers
           = Append(Texted(w, SubSeq(s, 1, k - n)).numbers, LastNumber(w, s, k, n))
    BY <1>1, <1>3, <1>5, TextedUnfolds
  <1> QED
    BY <1>3, <1>5, <1>6, <1>7 DEF s

----------------------------------------------------------------------------
\* The characters that are stored.

\* The replacement character is among the numbers x.
Shown(x) == \E i \in DOMAIN x : x[i] = Replacement

LEMMA ShownAppended ==
    ASSUME NEW x \in Seq(CodePoints), NEW v \in CodePoints, Shown(x) \/ v = Replacement
    PROVE  Shown(Append(x, v))
  <1> DEFINE y == Append(x, v)
  <1>1. Len(x) \in Nat /\ DOMAIN x = 1..Len(x) /\ DOMAIN y = 1..(Len(x) + 1)
    OBVIOUS
  <1>2. y[Len(x) + 1] = v /\ \A i \in 1..Len(x) : y[i] = x[i]
    OBVIOUS
  <1> HIDE DEF y
  <1>3. CASE Shown(x)
    <2>1. PICK i \in 1..Len(x) : x[i] = Replacement
      BY <1>1, <1>3 DEF Shown
    <2>2. i \in DOMAIN y /\ y[i] = Replacement
      BY <1>1, <1>2, <2>1
    <2> QED
      BY <2>2 DEF Shown, y
  <1>4. CASE v = Replacement
    <2>1. Len(x) + 1 \in DOMAIN y /\ y[Len(x) + 1] = Replacement
      BY <1>1, <1>2, <1>4
    <2> QED
      BY <2>1 DEF Shown, y
  <1> QED
    BY <1>3, <1>4

\* The next m units of the rest of a text are m units of the text.
LEMMA RestSlice ==
    ASSUME NEW S, NEW s \in Seq(S), NEW k \in 0..Len(s), NEW m \in 1..(Len(s) - k)
    PROVE  SubSeq(After(s, k), 1, m) = SubSeq(s, (k + m) - m + 1, k + m)
  <1>1. /\ After(s, k) \in Seq(S) /\ Len(After(s, k)) = Len(s) - k
        /\ \A i \in 1..(Len(s) - k) : After(s, k)[i] = s[k + i]
    BY RestOfText
  <1>2. /\ k \in Nat /\ m \in Nat /\ Len(s) \in Nat /\ k + m \in 0..Len(s) /\ m \in 1..(k + m)
        /\ (k + m) - m = k /\ m \in 0..(Len(s) - k)
    OBVIOUS
  <1> DEFINE r == After(s, k)
             x == SubSeq(r, 1, m)
             y == SubSeq(s, (k + m) - m + 1, k + m)
  <1>3. y \in Seq(S) /\ Len(y) = m /\ \A i \in 1..m : y[i] = s[(k + m) - m + i]
    BY <1>2, Slice
  <1> HIDE DEF r, y
  <1>4. x \in Seq(S) /\ Len(x) = m /\ \A i \in 1..m : x[i] = r[i]
    <2>1. r \in Seq(S) /\ m \in 0..Len(r)
      BY <1>1, <1>2 DEF r
    <2> QED
      BY <2>1, Beginning
  <1> HIDE DEF x
  <1>5. \A i \in 1..m : x[i] = y[i]
    <2>1. ASSUME NEW i \in 1..m PROVE x[i] = y[i]
      <3>1. i \in 1..(Len(s) - k)
        BY <1>2
      <3>2. r[i] = s[k + i]
        BY <1>1, <3>1 DEF r
      <3> QED
        BY <1>2, <1>3, <1>4, <3>2
    <2> QED
      BY <2>1
  <1>6. x = y
    BY <1>3, <1>4, <1>5, SameText
  <1> QED
    BY <1>6 DEF x, y, r

\* Reading on from a place where what precedes is a text: a code point is the next character, and
\* where there is none the whole is no text.
LEMMA ReadingOn ==
    ASSUME NEW w \in Encodings, NEW s \in Seq(Units(w)), NEW k \in 0..(Len(s) - 1),
           Texted(w, SubSeq(s, 1, k)).is
    PROVE  LET d == Decode(w, After(s, k))
               P(i) == Texted(w, SubSeq(s, 1, i))
           IN /\ d.cp \in CodePoints => /\ P(k + d.used).is
                                        /\ P(k + d.used).numbers = Append(P(k).numbers, d.cp)
              /\ d.cp \notin CodePoints => ~Texted(w, s).is
  <1> DEFINE r == After(s, k)
             d == Decode(w, r)
             P(i) == Texted(w, SubSeq(s, 1, i))
  <1>1. k \in Nat /\ Len(s) \in Nat /\ k < Len(s) /\ k \in 0..Len(s)
    OBVIOUS
  <1>2. r \in Seq(Units(w)) /\ Len(r) = Len(s) - k /\ r # <<>>
    BY <1>1, RestOfText
  <1>3. ASSUME NEW m \in 1..(Len(s) - k)
        PROVE  /\ LastIs(w, s, k + m, m) <=> IsChar(w, SubSeq(r, 1, m))
               /\ LastNumber(w, s, k + m, m) = Number(w, SubSeq(r, 1, m))
    <2>1. SubSeq(r, 1, m) = SubSeq(s, (k + m) - m + 1, k + m)
      BY <1>1, RestSlice
    <2> HIDE DEF r
    <2>2. IsChar(w, SubSeq(s, (k + m) - m + 1, k + m)) <=> IsChar(w, SubSeq(r, 1, m))
      BY <2>1
    <2>3. Number(w, SubSeq(s, (k + m) - m + 1, k + m)) = Number(w, SubSeq(r, 1, m))
      BY <2>1
    <2> QED
      BY <2>2, <2>3, Zenon DEF LastIs, LastNumber
  <1>4. P(k).is
    OBVIOUS
  <1> HIDE DEF r, d, P
  <1>5. ASSUME d.cp \in CodePoints
        PROVE  P(k + d.used).is /\ P(k + d.used).numbers = Append(P(k).numbers, d.cp)
    <2> DEFINE m == d.used
    <2>1. m \in 1..Len(r)
      BY <1>2, DecodeProgress DEF d
    <2>2. IsChar(w, SubSeq(r, 1, m))
      BY <1>2, <1>5, ReadIsChar DEF d
    <2>3. d = Decoded(Number(w, SubSeq(r, 1, m)), m)
      BY <1>2, <2>1, <2>2, CharIsRead DEF d
    <2>4. d.cp = Number(w, SubSeq(r, 1, m))
      BY <2>3, DecodedFields
    <2> HIDE DEF m
    <2>5. m \in 1..(Len(s) - k)
      BY <1>2, <2>1
    <2>6. LastIs(w, s, k + m, m) /\ LastNumber(w, s, k + m, m) = d.cp
      BY <1>3, <2>2, <2>4, <2>5
    <2>7. k + m \in 0..Len(s) /\ m \in 1..(k + m) /\ (k + m) - m = k
      BY <1>1, <2>5
    <2>8. P((k + m) - m).is
      BY <1>4, <2>7
    <2>9. /\ P(k + m).is
          /\ P(k + m).numbers = Append(P((k + m) - m).numbers, LastNumber(w, s, k + m, m))
      BY <2>6, <2>7, <2>8, TextedUnfolds DEF P
    <2> QED
      BY <2>6, <2>7, <2>9 DEF m
  <1>6. ASSUME Texted(w, s).is PROVE d.cp \in CodePoints
    <2>1. PICK m \in 1..(Len(s) - k) : LastIs(w, s, k + m, m)
      BY <1>4, <1>6, NextChar DEF P
    <2>2. IsChar(w, SubSeq(r, 1, m))
      BY <1>3, <2>1
    <2>3. m \in 1..Len(r)
      BY <1>2
    <2>4. d = Decoded(Number(w, SubSeq(r, 1, m)), m) /\ Number(w, SubSeq(r, 1, m)) \in CodePoints
      BY <1>2, <2>2, <2>3, CharIsRead DEF d
    <2> QED
      BY <2>4, DecodedFields
  <1> QED
    BY <1>5, <1>6 DEF r, d, P

\* What has been stored is a text: the characters of what has been read, or the replacement
\* character shows in it and what is converted is no text.
SoFar(k) ==
    LET p == Texted(given.from, SubSeq(given.text, 1, k))
        o == Texted(given.to, output)
    IN /\ o.is /\ o.numbers \in Seq(CodePoints)
       /\ \/ p.is /\ o.numbers = p.numbers
          \/ ~Texted(given.from, given.text).is /\ Shown(o.numbers)
Kept ==
    /\ state \in {"entry", "loop"} =>
           LET k == Len(given.text) - Len(source)
           IN source = After(given.text, k) /\ SoFar(k)
    /\ AlwaysValid /\ TextKept /\ IllFormedShows

LEMMA NothingIsText ==
    ASSUME NEW w \in Encodings, NEW s \in Seq(Units(w))
    PROVE  /\ Texted(w, SubSeq(s, 1, 0)) = [is |-> TRUE, numbers |-> <<>>]
           /\ Texted(w, <<>>) = [is |-> TRUE, numbers |-> <<>>]
  <1>1. 0 \in 0..Len(s)
    OBVIOUS
  <1>2. Texted(w, SubSeq(s, 1, 0)) = [is |-> TRUE, numbers |-> <<>>]
    BY <1>1, TextedUnfolds
  <1>3. SubSeq(s, 1, 0) = <<>>
    BY <1>1, Beginning
  <1> QED
    BY <1>2, <1>3

LEMMA InitKept == IInv /\ Init => Kept
  <1> SUFFICES ASSUME IInv, Init PROVE Kept
    OBVIOUS
  <1>1. /\ given.from \in Encodings /\ given.to \in Encodings
        /\ given.text \in Seq(Units(given.from))
    BY CallFields DEF IInv
  <1>2. state = "entry" /\ source = given.text /\ output = <<>>
    BY DEF Init
  <1> DEFINE k == Len(given.text) - Len(source)
  <1>3. k = 0 /\ 0 \in 0..Len(given.text)
    BY <1>1, <1>2
  <1> HIDE DEF k
  <1>4. source = After(given.text, k)
    BY <1>1, <1>2, <1>3, RestOfText
  <1>5. SoFar(0)
    <2>1. Texted(given.from, SubSeq(given.text, 1, 0)) = [is |-> TRUE, numbers |-> <<>>]
      BY <1>1, NothingIsText
    <2>2. Texted(given.to, output) = [is |-> TRUE, numbers |-> <<>>]
      <3>1. <<>> \in Seq(Units(given.to))
        OBVIOUS
      <3> QED
        BY <1>1, <1>2, <3>1, NothingIsText
    <2>3. <<>> \in Seq(CodePoints)
      OBVIOUS
    <2> QED
      BY <2>1, <2>2, <2>3 DEF SoFar
  <1>6. AlwaysValid /\ TextKept /\ IllFormedShows
    BY <1>2 DEF AlwaysValid, TextKept, IllFormedShows
  <1> QED
    BY <1>3, <1>4, <1>5, <1>6 DEF Kept, k

LEMMA EnterKept ==
    ASSUME IInv, Kept, Enter
    PROVE  Kept'
  <1>1. /\ state = "entry" /\ UNCHANGED <<given, source, output>>
        /\ state' \in {"refused", "loop"}
    BY DEF Enter
  <1>2. (AlwaysValid /\ TextKept /\ IllFormedShows)'
    BY <1>1 DEF AlwaysValid, TextKept, IllFormedShows
  <1> DEFINE k == Len(given.text) - Len(source)
  <1>3. source = After(given.text, k) /\ SoFar(k)
    BY <1>1 DEF Kept
  <1>4. k' = k
    BY <1>1
  <1> HIDE DEF k
  <1>5. (source = After(given.text, k) /\ SoFar(k))'
    BY <1>1, <1>3, <1>4 DEF SoFar
  <1> QED
    BY <1>2, <1>5 DEF Kept, k

LEMMA TranscodeKept ==
    ASSUME IInv, Kept, Transcode
    PROVE  Kept'
  <1> DEFINE d == Decode(given.from, source)
             c == Repaired(d.cp)
             e == Encode(given.to, c)
             s == given.text
             k == Len(s) - Len(source)
             P(i) == Texted(given.from, SubSeq(s, 1, i))
             o == Texted(given.to, output)
  <1>1. /\ given.from \in Encodings /\ given.to \in Encodings /\ s \in Seq(Units(given.from))
        /\ source \in Seq(Units(given.from)) /\ output \in Seq(Units(given.to))
    BY CallFields DEF IInv, TypeOK
  <1>2. /\ state = "loop" /\ source # <<>> /\ given' = given
        /\ source' = After(source, d.used)
        /\ state' \in {"loop", "full"}
        /\ state' = "loop" => output' = output \o e
    BY DEF Transcode, Store
  <1>3. (AlwaysValid /\ TextKept /\ IllFormedShows)'
    BY <1>2 DEF AlwaysValid, TextKept, IllFormedShows
  <1> SUFFICES ASSUME state' = "loop"
               PROVE  (source = After(given.text, k) /\ SoFar(k))'
    BY <1>2, <1>3 DEF Kept
  <1>4. source = After(s, k) /\ SoFar(k)
    BY <1>2 DEF Kept
  <1>5. d.cp \in Results /\ d.used \in 1..Len(source)
    BY <1>1, <1>2, DecodeProgress
  <1>6. /\ Len(s) \in Nat /\ Len(source) \in Nat /\ Len(source) >= 1 /\ Len(source) <= Len(s)
        /\ d.used \in Nat /\ d.used <= Len(source) /\ d.used >= 1
    <2>1. Len(source) <= Len(s)
      BY DEF IInv, Pace
    <2>2. Len(s) \in Nat /\ Len(source) \in Nat /\ Len(source) >= 1
      BY <1>1, <1>2, NotEmpty
    <2> HIDE DEF s, d
    <2> QED
      BY <1>5, <2>1, <2>2
  <1>7. /\ k \in 0..(Len(s) - 1) /\ k \in 0..Len(s) /\ d.used \in 0..(Len(s) - k)
        /\ k + d.used \in 0..Len(s) /\ Len(s) - k = Len(source)
    <2> HIDE DEF d, s
    <2> QED
      BY <1>6
  <1>8. source' = After(s, k + d.used) /\ Len(source') = Len(s) - (k + d.used)
    <2> HIDE DEF d, s, k
    <2>1. After(After(s, k), d.used) = After(s, k + d.used)
      BY <1>1, <1>7, RestOfRest
    <2>2. Len(After(s, k + d.used)) = Len(s) - (k + d.used)
      BY <1>1, <1>7, RestOfText
    <2> QED
      BY <1>2, <1>4, <2>1, <2>2
  <1>9. k' = k + d.used
    <2>1. k' = Len(s) - Len(source')
      BY <1>2
    <2> HIDE DEF k, d, s
    <2> QED
      BY <1>6, <1>7, <1>8, <2>1
  <1>10. c \in CodePoints
    BY <1>5, RepairedIsCodePoint
  <1>11. e \in Seq(Units(given.to)) /\ e # <<>> /\ IsChar(given.to, e) /\ Number(given.to, e) = c
    <2>1. IsChar(given.to, e) /\ Number(given.to, e) = c
      BY <1>1, <1>10, WrittenIsChar
    <2>2. e \in Seq(Units(given.to)) /\ Len(e) = Width(given.to, c)
      BY <1>1, <1>10, EncodeHasItsWidth
    <2>3. Width(given.to, c) >= 1
      <3>1. Width(given.to, c) \in 1..MaxWidth(given.to) /\ MaxWidth(given.to) \in {1, 2, 4}
        BY <1>1, <1>10, WidthBounds, MaxWidths
      <3> QED
        BY <3>1
    <2> HIDE DEF e, c
    <2> QED
      BY <2>1, <2>2, <2>3
  <1>12. /\ o.is /\ o.numbers \in Seq(CodePoints)
         /\ \/ P(k).is /\ o.numbers = P(k).numbers
            \/ ~Texted(given.from, s).is /\ Shown(o.numbers)
    BY <1>4 DEF SoFar
  <1>13. P(k).is => /\ d.cp \in CodePoints =>
                           /\ P(k + d.used).is
                           /\ P(k + d.used).numbers = Append(P(k).numbers, d.cp)
                    /\ d.cp \notin CodePoints => ~Texted(given.from, s).is
    <2>1. SUFFICES ASSUME P(k).is
                   PROVE  /\ d.cp \in CodePoints =>
                                 /\ P(k + d.used).is
                                 /\ P(k + d.used).numbers = Append(P(k).numbers, d.cp)
                          /\ d.cp \notin CodePoints => ~Texted(given.from, s).is
      OBVIOUS
    <2>2. d = Decode(given.from, After(s, k))
      BY <1>4
    <2> HIDE DEF k, d, s
    <2> QED
      BY <1>1, <1>7, <2>1, <2>2, ReadingOn
  <1>14. /\ Texted(given.to, output').is
         /\ Texted(given.to, output').numbers = Append(o.numbers, c)
    <2>1. output' = output \o e
      BY <1>2
    <2> HIDE DEF e, c
    <2> QED
      BY <1>1, <1>11, <1>12, <2>1, TextedAppended
  <1> DEFINE q == Texted(given.to, output')
  <1>15. q.is /\ q.numbers = Append(o.numbers, c)
    BY <1>14
  <1>16. Texted(given.to, output)' = q
    BY <1>2
  <1>17. d.cp \in CodePoints => c = d.cp
    BY NoSpecialResult DEF Repaired
  <1>18. d.cp \notin CodePoints => c = Replacement
    BY <1>5 DEF Repaired, Results
  <1> DEFINE pk == P(k)
             pn == P(k + d.used)
             t == Texted(given.from, s)
  <1>19. /\ Texted(given.from, given.text)' = t
         /\ Texted(given.from, SubSeq(given.text, 1, k))' = pn
    <2>1. Texted(given.from, given.text)' = t
      BY <1>2
    <2>2. Texted(given.from, SubSeq(given.text, 1, k))' = Texted(given.from, SubSeq(s, 1, k'))
      BY <1>2
    <2> HIDE DEF k, d, s
    <2> QED
      BY <1>9, <2>1, <2>2
  <1> HIDE DEF d, c, e, o, q, pk, pn, t
  <1>20. q.numbers \in Seq(CodePoints)
    BY <1>10, <1>12, <1>15, Appended
  <1>21. \/ pn.is /\ q.numbers = pn.numbers
         \/ ~t.is /\ Shown(q.numbers)
    <2>1. CASE pk.is /\ o.numbers = pk.numbers /\ d.cp \in CodePoints
      BY <1>13, <1>15, <1>17, <2>1 DEF pk, pn, t
    <2>2. CASE pk.is /\ o.numbers = pk.numbers /\ d.cp \notin CodePoints
      BY <1>10, <1>12, <1>13, <1>15, <1>18, <2>2, ShownAppended DEF pk, t
    <2>3. CASE ~t.is /\ Shown(o.numbers)
      BY <1>10, <1>12, <1>15, <2>3, ShownAppended
    <2> QED
      BY <1>12, <2>1, <2>2, <2>3 DEF pk, t
  <1>22. SoFar(k)'
    BY <1>15, <1>16, <1>19, <1>20, <1>21 DEF SoFar
  <1>23. (source = After(given.text, k))'
    <2>1. source' = After(given.text, k + d.used) /\ given' = given
      BY <1>2, <1>8 DEF d
    <2> HIDE DEF k
    <2> QED
      BY <1>9, <2>1
  <1> QED
    BY <1>22, <1>23

LEMMA TerminatedIsStored ==
    ASSUME IInv, Terminate, state = "loop"
    PROVE  Stored' = output
  <1>1. /\ given.to \in Encodings /\ output \in Seq(Units(given.to))
    BY CallFields DEF IInv, TypeOK
  <1>2. /\ given' = given /\ state' = "done"
        /\ output' = IF given.into = "buffer" THEN Append(output, 0) ELSE output
    BY DEF Terminate
  <1>3. CASE given.into = "buffer"
    <2>1. 0 \in Nat /\ output \in Seq(Nat)
      <3>1. Units(given.to) \subseteq Nat
        BY <1>1 DEF Units, Encodings, Bytes, Units16
      <3> QED
        BY <1>1, <3>1
    <2>2. SubSeq(Append(output, 0), 1, Len(Append(output, 0)) - 1) = output
      BY <2>1
    <2> QED
      BY <1>2, <1>3, <2>2 DEF Stored
  <1>4. CASE given.into # "buffer"
    BY <1>2, <1>4 DEF Stored
  <1> QED
    BY <1>3, <1>4

LEMMA TerminateKept ==
    ASSUME IInv, Kept, Terminate
    PROVE  Kept'
  <1>1. /\ given.from \in Encodings /\ given.to \in Encodings
        /\ given.text \in Seq(Units(given.from)) /\ output \in Seq(Units(given.to))
    BY CallFields DEF IInv, TypeOK
  <1>2. /\ UNCHANGED <<given, source, room>>
        /\ output' = IF given.into = "buffer" THEN Append(output, 0) ELSE output
        /\ state' = IF state = "full" THEN "refused" ELSE "done"
        /\ state = "full" \/ (state = "loop" /\ source = <<>>)
    BY DEF Terminate
  <1>3. CASE state = "full"
    BY <1>2, <1>3 DEF Kept, AlwaysValid, TextKept, IllFormedShows
  <1>4. CASE state = "loop" /\ source = <<>>
    <2> DEFINE k == Len(given.text) - Len(source)
               t == Texted(given.from, given.text)
               o == Texted(given.to, output)
    <2>1. SoFar(k)
      BY <1>4 DEF Kept
    <2>2. k = Len(given.text) /\ Len(given.text) \in 0..Len(given.text)
      BY <1>1, <1>4
    <2>3. SubSeq(given.text, 1, Len(given.text)) = given.text
      BY <1>1, <2>2, Beginning
    <2>4. /\ o.is
          /\ \/ t.is /\ o.numbers = t.numbers
             \/ ~t.is /\ Shown(o.numbers)
      BY <2>1, <2>2, <2>3 DEF SoFar
    <2>5. Stored' = output
      BY <1>4, TerminatedIsStored
    <2>6. Texted(given.to, Stored)' = o /\ Texted(given.from, given.text)' = t
      <3>1. Texted(given.to, Stored)' = Texted(given'.to, Stored')
        OBVIOUS
      <3> QED
        BY <1>2, <2>5, <3>1
    <2> HIDE DEF o, t
    <2>7. state' = "done"
      BY <1>2, <1>4
    <2>8. AlwaysValid'
      BY <2>4, <2>6 DEF AlwaysValid
    <2>9. TextKept'
      BY <2>4, <2>6 DEF TextKept
    <2>10. IllFormedShows'
      BY <2>4, <2>6 DEF IllFormedShows, Shown
    <2> QED
      BY <2>7, <2>8, <2>9, <2>10 DEF Kept
  <1> QED
    BY <1>2, <1>3, <1>4

LEMMA AlwaysKept == Spec => []Kept
  <1>1. Init => IInv /\ Kept
    BY InitInv, InitKept
  <1>2. IInv /\ Kept /\ [Next]_vars => Kept'
    <2> SUFFICES ASSUME IInv, Kept, [Next]_vars PROVE Kept'
      OBVIOUS
    <2>1. CASE UNCHANGED vars
      BY <2>1 DEF Kept, SoFar, AlwaysValid, TextKept, IllFormedShows, Stored, vars
    <2> QED
      BY <2>1, EnterKept, TranscodeKept, TerminateKept DEF Next
  <1> QED
    BY <1>1, <1>2, AlwaysIInv, PTL DEF Spec

\* Whatever is passed in, valid or not, in every encoding, what a conversion yields is a text.
THEOREM WhatComesOutIsText == Spec => []AlwaysValid
  <1>1. Kept => AlwaysValid
    BY DEF Kept
  <1> QED
    BY <1>1, AlwaysKept, PTL

\* Every text comes out as the same characters, whatever the encodings.
THEOREM ConversionKeepsText == Spec => []TextKept
  <1>1. Kept => TextKept
    BY DEF Kept
  <1> QED
    BY <1>1, AlwaysKept, PTL

\* Whatever is no text, however broken, shows in the output as a replacement character.
THEOREM BrokenTextShows == Spec => []IllFormedShows
  <1>1. Kept => IllFormedShows
    BY DEF Kept
  <1> QED
    BY <1>1, AlwaysKept, PTL
=============================================================================
