----------------------------- MODULE UtfProofs -----------------------------
(***************************************************************************)
(* Facts about Utf that hold for every code point and every sequence of    *)
(* code units, and that the proofs of its users cite.                      *)
(***************************************************************************)
EXTENDS Utf, TLAPS, WellFoundedInduction

\* What decode may return for the code point.
Results == CodePoints \cup {Illegal, Incomplete}

LEMMA UnitOfText ==
    ASSUME NEW S, NEW s \in Seq(S), NEW i \in 1..Len(s)
    PROVE  s[i] \in S
OBVIOUS

LEMMA SecondIndex ==
    ASSUME NEW n \in Nat, n >= 1, n # 1
    PROVE  2 \in 1..n
BY SMT

LEMMA Remainder ==
    ASSUME NEW a \in Nat, NEW m \in Nat \ {0}
    PROVE  a % m \in Nat /\ a % m < m
BY SMT

LEMMA NotEmpty ==
    ASSUME NEW S, NEW s \in Seq(S), s # <<>>
    PROVE  Len(s) \in Nat /\ Len(s) >= 1 /\ s[1] \in S
BY SMT

LEMMA SecondOfText ==
    ASSUME NEW S, NEW s \in Seq(S), s # <<>>, Len(s) # 1
    PROVE  2 \in 1..Len(s) /\ s[2] \in S
<1>1. 2 \in 1..Len(s)
  BY NotEmpty, SecondIndex
<1> QED BY <1>1, UnitOfText

LEMMA ValidIsCodePoint ==
    ASSUME NEW v \in Int
    PROVE  IsValidCodepoint(v) <=> v \in CodePoints
BY SMT DEF IsValidCodepoint, CodePoints

LEMMA CodePointBounds ==
    ASSUME NEW v \in CodePoints
    PROVE  v \in Nat /\ v <= 1114111
BY SMT DEF CodePoints, IsValidCodepoint

\* The fields of what decode returns.
LEMMA DecodedFields ==
    ASSUME NEW c, NEW n
    PROVE  Decoded(c, n).cp = c /\ Decoded(c, n).used = n
BY DEF Decoded

LEMMA NoCodePointIsAResult ==
    Illegal \in Results /\ Incomplete \in Results /\ CodePoints \subseteq Results
BY DEF Results

LEMMA Weighted ==
    ASSUME NEW a \in Nat, NEW b \in Nat, NEW c \in Nat, NEW d \in Nat
    PROVE  /\ (a * 64) + b \in Int
           /\ (a * 4096) + (b * 64) + c = 64 * (64 * a + b) + c
           /\ (a * 4096) + (b * 64) + c \in Int
           /\ (a * 262144) + (b * 4096) + (c * 64) + d = 64 * (64 * (64 * a + b) + c) + d
           /\ (a * 262144) + (b * 4096) + (c * 64) + d \in Int
BY SMT

LEMMA Combine8IsInt ==
    ASSUME NEW n \in 1..3, NEW s \in Seq(Bytes), Len(s) >= n + 1
    PROVE  Combine8(s, n) \in Int
<1>1. Len(s) \in Nat /\ Len(s) >= n + 1
  BY SMT
<1>2. CASE n = 1
  <2>1. Combine8(s, n) = ((s[1] % 32) * 64) + (s[2] % 64)
    BY SMT, <1>2 DEF Combine8
  <2>2. 1 \in 1..Len(s) /\ 2 \in 1..Len(s)
    BY SMT, <1>1, <1>2
  <2>3. s[1] \in Nat /\ s[2] \in Nat
    BY SMT, <2>2, UnitOfText DEF Bytes
  <2>4. s[1] % 32 \in Nat /\ s[2] % 64 \in Nat
    <3>1. 32 \in Nat \ {0} /\ 64 \in Nat \ {0}
      BY SMT
    <3> QED BY <2>3, <3>1, Remainder
  <2> QED BY SMT, <2>1, <2>4, Weighted
<1>3. CASE n = 2
  <2>1. Combine8(s, n) = ((s[1] % 16) * 4096) + ((s[2] % 64) * 64) + (s[3] % 64)
    BY SMT, <1>3 DEF Combine8
  <2>2. 1 \in 1..Len(s) /\ 2 \in 1..Len(s) /\ 3 \in 1..Len(s)
    BY SMT, <1>1, <1>3
  <2>3. s[1] \in Nat /\ s[2] \in Nat /\ s[3] \in Nat
    BY SMT, <2>2, UnitOfText DEF Bytes
  <2>4. s[1] % 16 \in Nat /\ s[2] % 64 \in Nat /\ s[3] % 64 \in Nat
    <3>1. 16 \in Nat \ {0} /\ 64 \in Nat \ {0}
      BY SMT
    <3> QED BY <2>3, <3>1, Remainder
  <2> QED BY SMT, <2>1, <2>4, Weighted
<1>4. CASE n = 3
  <2>1. Combine8(s, n) = ((s[1] % 8) * 262144) + ((s[2] % 64) * 4096) + ((s[3] % 64) * 64)
                         + (s[4] % 64)
    BY SMT, <1>4 DEF Combine8
  <2>2. 1 \in 1..Len(s) /\ 2 \in 1..Len(s) /\ 3 \in 1..Len(s) /\ 4 \in 1..Len(s)
    BY SMT, <1>1, <1>4
  <2>3. s[1] \in Nat /\ s[2] \in Nat /\ s[3] \in Nat /\ s[4] \in Nat
    BY SMT, <2>2, UnitOfText DEF Bytes
  <2>4. s[1] % 8 \in Nat /\ s[2] % 64 \in Nat /\ s[3] % 64 \in Nat /\ s[4] % 64 \in Nat
    <3>1. 8 \in Nat \ {0} /\ 64 \in Nat \ {0}
      BY SMT
    <3> QED BY <2>3, <3>1, Remainder
  <2> DEFINE a == s[1] % 8
             b == s[2] % 64
             c == s[3] % 64
             d == s[4] % 64
  <2>5. Combine8(s, n) = (a * 262144) + (b * 4096) + (c * 64) + d
    BY SMT, <2>1
  <2>6. a \in Nat /\ b \in Nat /\ c \in Nat /\ d \in Nat
    BY SMT, <2>4
  <2> HIDE DEF a, b, c, d
  <2> QED BY SMT, <2>5, <2>6, Weighted
<1> QED BY SMT, <1>2, <1>3, <1>4

LEMMA DecodeTrailsProgress ==
    ASSUME NEW n \in 1..3, NEW s \in Seq(Bytes), s # <<>>
    PROVE  /\ DecodeTrails(s, n).cp \in Results
           /\ DecodeTrails(s, n).used \in 1..Len(s)
<1> DEFINE k == TrailsAt(s, n)
           v == Combine8(s, n)
           sound == IsValidCodepoint(v) /\ Width8(v) = n + 1
<1>1. Len(s) \in Nat /\ Len(s) >= 1
  BY SMT
<1>2. k \in 0..n /\ k < Len(s)
  BY SMT, <1>1 DEF TrailsAt
<1>3. DecodeTrails(s, n) = CASE k < n /\ Len(s) = k + 1 -> Decoded(Incomplete, k + 1)
                             [] k < n /\ Len(s) # k + 1 -> Decoded(Illegal, k + 2)
                             [] k = n /\ sound -> Decoded(v, n + 1)
                             [] k = n /\ ~sound -> Decoded(Illegal, 1)
  BY SMT DEF DecodeTrails
<1>4. k = n => v \in Int
  BY SMT, <1>1, <1>2, Combine8IsInt
<1>5. k = n /\ sound => v \in CodePoints
  BY <1>4, ValidIsCodePoint
<1> HIDE DEF k, v, sound
<1>6. CASE k < n /\ Len(s) = k + 1
  <2>1. DecodeTrails(s, n) = Decoded(Incomplete, k + 1)
    BY SMT, <1>2, <1>3, <1>6
  <2> QED BY SMT, <2>1, <1>1, <1>2, DecodedFields, NoCodePointIsAResult
<1>7. CASE k < n /\ Len(s) # k + 1
  <2>1. DecodeTrails(s, n) = Decoded(Illegal, k + 2)
    BY SMT, <1>2, <1>3, <1>7
  <2> QED BY SMT, <2>1, <1>1, <1>2, <1>7, DecodedFields, NoCodePointIsAResult
<1>8. CASE k = n /\ sound
  <2>1. DecodeTrails(s, n) = Decoded(v, n + 1)
    BY SMT, <1>2, <1>3, <1>8
  <2> QED BY SMT, <2>1, <1>1, <1>2, <1>5, <1>8, DecodedFields, NoCodePointIsAResult
<1>9. CASE k = n /\ ~sound
  <2>1. DecodeTrails(s, n) = Decoded(Illegal, 1)
    BY SMT, <1>2, <1>3, <1>9
  <2> QED BY SMT, <2>1, <1>1, DecodedFields, NoCodePointIsAResult
<1> QED BY SMT, <1>2, <1>6, <1>7, <1>8, <1>9

LEMMA Decode8Progress ==
    ASSUME NEW s \in Seq(Bytes), s # <<>>
    PROVE  /\ Decode8(s).cp \in Results
           /\ Decode8(s).used \in 1..Len(s)
<1>1. Len(s) \in Nat /\ Len(s) >= 1 /\ s[1] \in Nat /\ s[1] <= 255
  BY SMT, NotEmpty DEF Bytes
<1>2. TrailLength8(s[1]) \in {-1, 0, 1, 2, 3} /\ (TrailLength8(s[1]) = 0 => s[1] < 128)
  BY SMT, <1>1 DEF TrailLength8
<1>3. CASE TrailLength8(s[1]) = -1
  <2>1. Decode8(s) = Decoded(Illegal, 1)
    BY SMT, <1>3 DEF Decode8
  <2> QED BY SMT, <2>1, <1>1, DecodedFields, NoCodePointIsAResult
<1>4. CASE TrailLength8(s[1]) = 0
  <2>1. Decode8(s) = Decoded(s[1], 1)
    BY SMT, <1>4 DEF Decode8
  <2>2. s[1] \in CodePoints
    BY SMT, <1>1, <1>2, <1>4 DEF CodePoints, IsValidCodepoint
  <2> QED BY SMT, <2>1, <2>2, <1>1, DecodedFields, NoCodePointIsAResult
<1>5. CASE TrailLength8(s[1]) \in 1..3
  <2>1. Decode8(s) = DecodeTrails(s, TrailLength8(s[1]))
    BY SMT, <1>5 DEF Decode8
  <2> QED BY SMT, <2>1, <1>5, DecodeTrailsProgress
<1> QED BY SMT, <1>2, <1>3, <1>4, <1>5

LEMMA SurrogatesCombine ==
    ASSUME NEW w1 \in Nat, NEW w2 \in Nat
    PROVE  CombineSurrogate(w1, w2) \in CodePoints
<1>1. /\ w1 % 1024 \in Nat /\ w1 % 1024 <= 1023
      /\ w2 % 1024 \in Nat /\ w2 % 1024 <= 1023
  BY SMT
<1>2. CombineSurrogate(w1, w2) \in Nat
  BY SMT, <1>1 DEF CombineSurrogate
<1>3. 65536 <= CombineSurrogate(w1, w2) /\ CombineSurrogate(w1, w2) <= 1114111
  BY SMT, <1>1 DEF CombineSurrogate
<1> QED BY SMT, <1>2, <1>3 DEF CodePoints, IsValidCodepoint

LEMMA Decode16Progress ==
    ASSUME NEW s \in Seq(Units16), s # <<>>
    PROVE  /\ Decode16(s).cp \in Results
           /\ Decode16(s).used \in 1..Len(s)
<1>1. /\ Len(s) \in Nat /\ Len(s) >= 1 /\ s[1] \in Nat /\ s[1] <= 65535
      /\ Len(s) # 1 => s[2] \in Nat
  <2>1. Len(s) \in Nat /\ Len(s) >= 1 /\ s[1] \in Units16
    BY NotEmpty
  <2>2. Len(s) # 1 => s[2] \in Units16
    BY SecondOfText
  <2> QED BY SMT, <2>1, <2>2 DEF Units16
<1>2. CASE IsSingleCodepoint(s[1])
  <2>1. Decode16(s) = Decoded(s[1], 1)
    BY SMT, <1>1, <1>2 DEF Decode16, IsSingleCodepoint, IsSecondSurrogate, IsFirstSurrogate
  <2> QED BY SMT, <2>1, <1>1, <1>2 DEF Decoded, Results, CodePoints, IsValidCodepoint, IsSingleCodepoint
<1>3. CASE IsSecondSurrogate(s[1])
  <2>1. Decode16(s) = Decoded(Illegal, 1)
    BY SMT, <1>1, <1>3 DEF Decode16, IsSingleCodepoint, IsSecondSurrogate, IsFirstSurrogate
  <2> QED BY SMT, <2>1, <1>1 DEF Decoded, Results
<1>4. CASE IsFirstSurrogate(s[1])
  <2>1. Decode16(s) = IF Len(s) = 1 THEN Decoded(Incomplete, 1)
                      ELSE IF ~IsSecondSurrogate(s[2]) THEN Decoded(Illegal, 2)
                      ELSE Decoded(CombineSurrogate(s[1], s[2]), 2)
    BY SMT, <1>1, <1>4 DEF Decode16, IsSingleCodepoint, IsSecondSurrogate, IsFirstSurrogate
  <2>2. Len(s) # 1 => CombineSurrogate(s[1], s[2]) \in CodePoints
    BY SMT, <1>1, <1>4, SurrogatesCombine
  <2>3. CASE Len(s) = 1
    BY SMT, <2>1, <2>3, DecodedFields, NoCodePointIsAResult
  <2>4. CASE Len(s) # 1 /\ ~IsSecondSurrogate(s[2])
    <3>1. Decode16(s) = Decoded(Illegal, 2)
      BY SMT, <2>1, <2>4
    <3>2. 2 \in 1..Len(s)
      BY <2>4, SecondOfText
    <3> QED BY <3>1, <3>2, DecodedFields, NoCodePointIsAResult
  <2>5. CASE Len(s) # 1 /\ IsSecondSurrogate(s[2])
    <3>1. Decode16(s) = Decoded(CombineSurrogate(s[1], s[2]), 2)
      BY SMT, <2>1, <2>5
    <3>2. 2 \in 1..Len(s)
      BY SMT, <2>5, SecondOfText
    <3> QED BY <3>1, <3>2, <2>2, <2>5, DecodedFields, NoCodePointIsAResult
  <2> QED BY SMT, <2>3, <2>4, <2>5
<1> QED BY SMT, <1>1, <1>2, <1>3, <1>4 DEF IsSingleCodepoint, IsSecondSurrogate, IsFirstSurrogate

LEMMA Decode32Progress ==
    ASSUME NEW s \in Seq(Nat), s # <<>>
    PROVE  /\ Decode32(s).cp \in Results
           /\ Decode32(s).used \in 1..Len(s)
<1>1. Len(s) \in Nat /\ Len(s) >= 1 /\ s[1] \in Nat
  BY SMT
<1> QED BY SMT, <1>1, ValidIsCodePoint DEF Decode32, Decoded, Results

\* decode always advances and never past the end, and what it returns is a code point or one of
\* the two results that are none: the loops over decode in convert_buffer, convert_string and
\* the console buffers end and stay inside their input.
THEOREM DecodeProgress ==
    ASSUME NEW w \in Encodings, NEW s \in Seq(Units(w)), s # <<>>
    PROVE  /\ Decode(w, s).cp \in Results
           /\ Decode(w, s).used \in 1..Len(s)
<1>1. CASE w = 8
  BY SMT, <1>1, Decode8Progress DEF Decode, Units
<1>2. CASE w = 16
  BY SMT, <1>2, Decode16Progress DEF Decode, Units
<1>3. CASE w = 32
  BY SMT, <1>3, Decode32Progress DEF Decode, Units
<1> QED BY SMT, <1>1, <1>2, <1>3 DEF Encodings

LEMMA RepairedIsCodePoint ==
    ASSUME NEW c \in Results
    PROVE  Repaired(c) \in CodePoints
BY SMT DEF Repaired, Results, CodePoints, IsValidCodepoint, Replacement, Illegal, Incomplete

LEMMA WidthBounds ==
    ASSUME NEW w \in Encodings, NEW v \in CodePoints
    PROVE  Width(w, v) \in 1..MaxWidth(w)
BY SMT DEF Width, MaxWidth, Encodings, Width8, Width16

\* The bytes that encode writes for a code point.
LEMMA Encode8Bytes ==
    ASSUME NEW v \in CodePoints
    PROVE  Encode8(v) \in Seq(Bytes) /\ Len(Encode8(v)) = Width8(v)
<1>1. v \in Nat /\ v <= 1114111
  BY CodePointBounds
<1>2. CASE v <= 127
  <2>1. Encode8(v) = <<v>> /\ Width8(v) = 1
    BY SMT, <1>1, <1>2 DEF Encode8, Width8
  <2> QED BY SMT, <2>1, <1>1, <1>2 DEF Bytes
<1>3. CASE 128 <= v /\ v <= 2047
  <2>1. Encode8(v) = <<192 + (v \div 64), 128 + (v % 64)>> /\ Width8(v) = 2
    BY SMT, <1>1, <1>3 DEF Encode8, Width8
  <2>2. 192 + (v \div 64) \in Bytes /\ 128 + (v % 64) \in Bytes
    BY SMT, <1>1, <1>3 DEF Bytes
  <2> QED BY SMT, <2>1, <2>2 DEF Bytes
<1>4. CASE 2048 <= v /\ v <= 65535
  <2>1. /\ Encode8(v) = <<224 + (v \div 4096), 128 + ((v \div 64) % 64), 128 + (v % 64)>>
        /\ Width8(v) = 3
    BY SMT, <1>1, <1>4 DEF Encode8, Width8
  <2>2. /\ 224 + (v \div 4096) \in Bytes /\ 128 + (v % 64) \in Bytes
        /\ 128 + ((v \div 64) % 64) \in Bytes
    BY SMT, <1>1, <1>4 DEF Bytes
  <2> QED BY SMT, <2>1, <2>2 DEF Bytes
<1>5. CASE 65536 <= v
  <2>1. /\ Encode8(v) = <<240 + (v \div 262144), 128 + ((v \div 4096) % 64),
                          128 + ((v \div 64) % 64), 128 + (v % 64)>>
        /\ Width8(v) = 4
    BY SMT, <1>1, <1>5 DEF Encode8, Width8
  <2>2. /\ 240 + (v \div 262144) \in Bytes /\ 128 + (v % 64) \in Bytes
        /\ 128 + ((v \div 64) % 64) \in Bytes /\ 128 + ((v \div 4096) % 64) \in Bytes
    BY SMT, <1>1, <1>5 DEF Bytes
  <2> QED BY SMT, <2>1, <2>2 DEF Bytes
<1> QED BY SMT, <1>1, <1>2, <1>3, <1>4, <1>5

LEMMA Encode16Units ==
    ASSUME NEW v \in CodePoints
    PROVE  Encode16(v) \in Seq(Units16) /\ Len(Encode16(v)) = Width16(v)
<1>1. v \in Nat /\ v <= 1114111
  BY CodePointBounds
<1>2. CASE v <= 65535
  <2>1. Encode16(v) = <<v>> /\ Width16(v) = 1
    BY SMT, <1>1, <1>2 DEF Encode16, Width16
  <2> QED BY SMT, <2>1, <1>1, <1>2 DEF Units16
<1>3. CASE 65536 <= v
  <2>1. /\ Encode16(v) = <<55296 + ((v - 65536) \div 1024), 56320 + ((v - 65536) % 1024)>>
        /\ Width16(v) = 2
    BY SMT, <1>1, <1>3 DEF Encode16, Width16
  <2>2. 55296 + ((v - 65536) \div 1024) \in Units16 /\ 56320 + ((v - 65536) % 1024) \in Units16
    BY SMT, <1>1, <1>3 DEF Units16
  <2> QED BY SMT, <2>1, <2>2 DEF Units16
<1> QED BY SMT, <1>1, <1>2, <1>3

\* encode stores as many units as width says, each of them a unit of the encoding: the room that
\* convert_buffer and the console buffers count with width is the room encode takes.
THEOREM EncodeHasItsWidth ==
    ASSUME NEW w \in Encodings, NEW v \in CodePoints
    PROVE  Encode(w, v) \in Seq(Units(w)) /\ Len(Encode(w, v)) = Width(w, v)
<1>1. CASE w = 8
  BY SMT, <1>1, Encode8Bytes DEF Encode, Units, Width
<1>2. CASE w = 16
  BY SMT, <1>2, Encode16Units DEF Encode, Units, Width
<1>3. CASE w = 32
  <2>1. Encode(w, v) = <<v>> /\ Width(w, v) = 1 /\ Units(w) = Nat
    BY SMT, <1>3 DEF Encode, Units, Width
  <2> QED BY SMT, <2>1 DEF CodePoints
<1> QED BY SMT, <1>1, <1>2, <1>3 DEF Encodings

----------------------------------------------------------------------------
\* The six bits of a trail byte, and the bits of the lead bytes.
LEMMA SixBits ==
    ASSUME NEW v \in Nat
    PROVE  /\ v = 64 * (v \div 64) + (v % 64)
           /\ v \div 64 = 64 * (v \div 4096) + ((v \div 64) % 64)
           /\ v \div 4096 = 64 * (v \div 262144) + ((v \div 4096) % 64)
           /\ v \div 64 \in Nat /\ v \div 4096 \in Nat /\ v \div 262144 \in Nat
           /\ v % 64 \in Nat /\ v % 64 < 64
           /\ (v \div 64) % 64 \in Nat /\ (v \div 64) % 64 < 64
           /\ (v \div 4096) % 64 \in Nat /\ (v \div 4096) % 64 < 64
<1>1. v = 64 * (v \div 64) + (v % 64)
  BY SMT
<1>2. v \div 64 = 64 * (v \div 4096) + ((v \div 64) % 64)
  BY SMT
<1>3. v \div 4096 = 64 * (v \div 262144) + ((v \div 4096) % 64)
  BY SMT
<1>4. v \div 64 \in Nat /\ v \div 4096 \in Nat /\ v \div 262144 \in Nat
  BY SMT
<1>5. 64 \in Nat \ {0}
  BY SMT
<1> QED BY SMT, <1>1, <1>2, <1>3, <1>4, <1>5, Remainder

LEMMA TrailByte ==
    ASSUME NEW r \in Nat, r < 64
    PROVE  IsTrail8(128 + r) /\ (128 + r) % 64 = r
BY SMT DEF IsTrail8

LEMMA Decode8Encoded ==
    ASSUME NEW v \in CodePoints, NEW s \in Seq(Bytes),
           Width8(v) <= Len(s), \A i \in 1..Width8(v) : s[i] = Encode8(v)[i]
    PROVE  Decode8(s) = Decoded(v, Width8(v))
<1>1. v \in Nat /\ v <= 1114111 /\ Len(s) \in Nat /\ IsValidCodepoint(v)
  BY SMT, CodePointBounds DEF CodePoints
<1>2. CASE v <= 127
  <2>1. Encode8(v) = <<v>> /\ Width8(v) = 1
    BY SMT, <1>1, <1>2 DEF Encode8, Width8
  <2>2. s # <<>> /\ s[1] = v
    BY SMT, <2>1, <1>1
  <2>3. TrailLength8(s[1]) = 0
    BY SMT, <2>2, <1>1, <1>2 DEF TrailLength8
  <2> QED BY SMT, <2>1, <2>2, <2>3 DEF Decode8
<1>3. CASE 128 <= v /\ v <= 2047
  <2> DEFINE q1 == v \div 64
             r0 == v % 64
  <2>1. /\ v = 64 * q1 + r0
        /\ q1 \in Nat /\ r0 \in Nat /\ r0 < 64
    BY SMT, <1>1, SixBits
  <2>2. Encode8(v) = <<192 + q1, 128 + r0>> /\ Width8(v) = 2
    <3>1. Width8(v) = 2
      BY SMT, <1>1, <1>3 DEF Width8
    <3> QED BY SMT, <3>1 DEF Encode8
  <2> HIDE DEF q1, r0
  <2>3. s # <<>> /\ Len(s) >= 2 /\ s[1] = 192 + q1 /\ s[2] = 128 + r0
    BY SMT, <2>2, <1>1
  <2>4. 2 <= q1 /\ q1 < 32
    BY SMT, <2>1, <1>3
  <2>5. TrailLength8(s[1]) = 1
    <3>1. q1 \in Nat /\ s[1] = 192 + q1
      BY SMT, <2>1, <2>3
    <3> QED BY SMT, <3>1, <2>4 DEF TrailLength8
  <2>6. TrailsAt(s, 1) = 1
    BY SMT, <2>1, <2>3, <1>1, TrailByte DEF TrailsAt
  <2>7. (192 + q1) % 32 = q1
    BY SMT, <2>1, <2>4
  <2>8. Combine8(s, 1) = v
    <3>1. Combine8(s, 1) = ((s[1] % 32) * 64) + (s[2] % 64)
      BY SMT DEF Combine8
    <3>2. s[1] % 32 = q1 /\ s[2] % 64 = r0
      BY SMT, <2>1, <2>3, <2>7, TrailByte
    <3> QED BY SMT, <3>1, <3>2, <2>1, Weighted
  <2>9. Decode8(s) = DecodeTrails(s, 1)
    BY SMT, <2>3, <2>5 DEF Decode8
  <2> QED BY SMT, <2>2, <2>6, <2>8, <2>9, <1>1 DEF DecodeTrails
<1>4. CASE 2048 <= v /\ v <= 65535
  <2> DEFINE q2 == v \div 4096
             r1 == (v \div 64) % 64
             r0 == v % 64
  <2>1. /\ v = 64 * (64 * q2 + r1) + r0
        /\ q2 \in Nat /\ r1 \in Nat /\ r1 < 64 /\ r0 \in Nat /\ r0 < 64
    BY SMT, <1>1, SixBits
  <2>2. Encode8(v) = <<224 + q2, 128 + r1, 128 + r0>> /\ Width8(v) = 3
    <3>1. Width8(v) = 3
      BY SMT, <1>1, <1>4 DEF Width8
    <3> QED BY SMT, <3>1 DEF Encode8
  <2> HIDE DEF q2, r1, r0
  <2>3. /\ s # <<>> /\ Len(s) >= 3
        /\ s[1] = 224 + q2 /\ s[2] = 128 + r1 /\ s[3] = 128 + r0
    BY SMT, <2>2, <1>1
  <2>4. q2 < 16
    BY SMT, <2>1, <1>4
  <2>5. TrailLength8(s[1]) = 2
    <3>1. q2 \in Nat /\ s[1] = 224 + q2
      BY SMT, <2>1, <2>3
    <3> QED BY SMT, <3>1, <2>4 DEF TrailLength8
  <2>6. TrailsAt(s, 2) = 2
    BY SMT, <2>1, <2>3, <1>1, TrailByte DEF TrailsAt
  <2>7. (224 + q2) % 16 = q2
    BY SMT, <2>1, <2>4
  <2>8. Combine8(s, 2) = v
    <3>1. Combine8(s, 2) = ((s[1] % 16) * 4096) + ((s[2] % 64) * 64) + (s[3] % 64)
      BY SMT DEF Combine8
    <3>2. s[1] % 16 = q2 /\ s[2] % 64 = r1 /\ s[3] % 64 = r0
      BY SMT, <2>1, <2>3, <2>7, TrailByte
    <3> QED BY SMT, <3>1, <3>2, <2>1, Weighted
  <2>9. Decode8(s) = DecodeTrails(s, 2)
    BY SMT, <2>3, <2>5 DEF Decode8
  <2> QED BY SMT, <2>2, <2>6, <2>8, <2>9, <1>1 DEF DecodeTrails
<1>5. CASE 65536 <= v
  <2> DEFINE q3 == v \div 262144
             r2 == (v \div 4096) % 64
             r1 == (v \div 64) % 64
             r0 == v % 64
  <2>1. /\ v = 64 * (64 * (64 * q3 + r2) + r1) + r0
        /\ q3 \in Nat /\ r2 \in Nat /\ r2 < 64 /\ r1 \in Nat /\ r1 < 64 /\ r0 \in Nat /\ r0 < 64
    BY SMT, <1>1, SixBits
  <2>2. Encode8(v) = <<240 + q3, 128 + r2, 128 + r1, 128 + r0>> /\ Width8(v) = 4
    <3>1. Width8(v) = 4
      BY SMT, <1>1, <1>5 DEF Width8
    <3> QED BY SMT, <3>1 DEF Encode8
  <2> HIDE DEF q3, r2, r1, r0
  <2>3. /\ s # <<>> /\ Len(s) >= 4
        /\ s[1] = 240 + q3 /\ s[2] = 128 + r2 /\ s[3] = 128 + r1 /\ s[4] = 128 + r0
    BY SMT, <2>2, <1>1
  <2>4. q3 <= 4
    BY SMT, <2>1, <1>1
  <2>5. TrailLength8(s[1]) = 3
    <3>1. q3 \in Nat /\ s[1] = 240 + q3
      BY SMT, <2>1, <2>3
    <3> QED BY SMT, <3>1, <2>4 DEF TrailLength8
  <2>6. TrailsAt(s, 3) = 3
    BY SMT, <2>1, <2>3, <1>1, TrailByte DEF TrailsAt
  <2>7. (240 + q3) % 8 = q3
    BY SMT, <2>1, <2>4
  <2>8. Combine8(s, 3) = v
    <3>1. Combine8(s, 3)
            = ((s[1] % 8) * 262144) + ((s[2] % 64) * 4096) + ((s[3] % 64) * 64) + (s[4] % 64)
      BY SMT DEF Combine8
    <3>2. s[1] % 8 = q3 /\ s[2] % 64 = r2 /\ s[3] % 64 = r1 /\ s[4] % 64 = r0
      BY SMT, <2>1, <2>3, <2>7, TrailByte
    <3> QED BY SMT, <3>1, <3>2, <2>1, Weighted
  <2>9. Decode8(s) = DecodeTrails(s, 3)
    BY SMT, <2>3, <2>5 DEF Decode8
  <2> QED BY SMT, <2>2, <2>6, <2>8, <2>9, <1>1 DEF DecodeTrails
<1> QED BY SMT, <1>1, <1>2, <1>3, <1>4, <1>5

LEMMA Decode16Encoded ==
    ASSUME NEW v \in CodePoints, NEW s \in Seq(Units16),
           Width16(v) <= Len(s), \A i \in 1..Width16(v) : s[i] = Encode16(v)[i]
    PROVE  Decode16(s) = Decoded(v, Width16(v))
<1>1. v \in Nat /\ v <= 1114111 /\ Len(s) \in Nat /\ IsValidCodepoint(v)
  BY SMT, CodePointBounds DEF CodePoints
<1>2. CASE v <= 65535
  <2>1. Encode16(v) = <<v>> /\ Width16(v) = 1
    BY SMT, <1>1, <1>2 DEF Encode16, Width16
  <2>2. s # <<>> /\ s[1] = v
    BY SMT, <2>1, <1>1
  <2>3. IsSingleCodepoint(s[1]) /\ ~IsFirstSurrogate(s[1]) /\ ~IsSecondSurrogate(s[1])
    BY SMT, <2>2, <1>1 DEF IsSingleCodepoint, IsFirstSurrogate, IsSecondSurrogate, IsValidCodepoint
  <2> QED BY SMT, <2>1, <2>2, <2>3 DEF Decode16
<1>3. CASE 65536 <= v
  <2> DEFINE u == v - 65536
             h == u \div 1024
             l == u % 1024
  <2>1. Encode16(v) = <<55296 + h, 56320 + l>> /\ Width16(v) = 2
    BY SMT, <1>1, <1>3 DEF Encode16, Width16
  <2>2. u \in Nat /\ u <= 1048575 /\ v = u + 65536
    BY SMT, <1>1, <1>3
  <2> HIDE DEF u
  <2>3. u = 1024 * h + l /\ h \in Nat /\ l \in Nat /\ l < 1024
    BY SMT, <2>2
  <2> HIDE DEF h, l
  <2>4. h < 1024
    BY SMT, <2>2, <2>3
  <2>5. s # <<>> /\ Len(s) >= 2 /\ s[1] = 55296 + h /\ s[2] = 56320 + l
    BY SMT, <2>1, <1>1
  <2>6. /\ ~IsSingleCodepoint(s[1]) /\ IsFirstSurrogate(s[1]) /\ ~IsSecondSurrogate(s[1])
        /\ IsSecondSurrogate(s[2])
    BY SMT, <2>3, <2>4, <2>5 DEF IsSingleCodepoint, IsFirstSurrogate, IsSecondSurrogate
  <2>7. CombineSurrogate(s[1], s[2]) = v
    <3>1. (55296 + h) % 1024 = h
      BY SMT, <2>3, <2>4
    <3>2. (56320 + l) % 1024 = l
      BY SMT, <2>3
    <3>3. CombineSurrogate(s[1], s[2]) = (h * 1024) + l + 65536
      BY SMT, <3>1, <3>2, <2>5 DEF CombineSurrogate
    <3> QED BY SMT, <3>3, <2>2, <2>3
  <2>8. Decode16(s) = Decoded(CombineSurrogate(s[1], s[2]), 2)
    BY SMT, <1>1, <2>5, <2>6 DEF Decode16
  <2> QED BY SMT, <2>1, <2>7, <2>8
<1> QED BY SMT, <1>1, <1>2, <1>3

\* What encode writes for a code point is what decode reads back, whatever follows it and in
\* each encoding: every character survives narrow and widen, which chain the two.
THEOREM RoundTrip ==
    ASSUME NEW w \in Encodings, NEW v \in CodePoints, NEW s \in Seq(Units(w)),
           Width(w, v) <= Len(s), \A i \in 1..Width(w, v) : s[i] = Encode(w, v)[i]
    PROVE  Decode(w, s) = Decoded(v, Width(w, v))
<1>1. CASE w = 8
  BY SMT, <1>1, Decode8Encoded DEF Decode, Encode, Width, Units
<1>2. CASE w = 16
  BY SMT, <1>2, Decode16Encoded DEF Decode, Encode, Width, Units
<1>3. CASE w = 32
  <2>1. Encode(w, v) = <<v>> /\ Width(w, v) = 1 /\ Decode(w, s) = Decode32(s)
    BY SMT, <1>3 DEF Encode, Width, Decode
  <2>2. s # <<>> /\ s[1] = v
    BY SMT, <2>1
  <2> QED BY SMT, <2>1, <2>2 DEF Decode32, CodePoints
<1> QED BY <1>1, <1>2, <1>3 DEF Encodings

----------------------------------------------------------------------------
\* What the readers of one character agree on when decode finds one.
Agree(w, s) ==
    /\ DecodeValid(w, s) = Decode(w, s)
    /\ TrailLength(w, s[1]) = Decode(w, s).used - 1
    /\ \A i \in 1..Decode(w, s).used : IsTrail(w, s[i]) <=> i > 1

LEMMA NoSpecialResult == Illegal \notin CodePoints /\ Incomplete \notin CodePoints
BY SMT DEF Illegal, Incomplete, CodePoints

\* What DecodeTrails takes for a code point has its n trail bytes.
LEMMA DecodeTrailsFound ==
    ASSUME NEW n \in 1..3, NEW s \in Seq(Bytes), s # <<>>, DecodeTrails(s, n).cp \in CodePoints
    PROVE  /\ DecodeTrails(s, n) = Decoded(Combine8(s, n), n + 1)
           /\ TrailsAt(s, n) = n
<1> DEFINE k == TrailsAt(s, n)
           v == Combine8(s, n)
           sound == IsValidCodepoint(v) /\ Width8(v) = n + 1
<1>1. k \in 0..n
  BY SMT DEF TrailsAt
<1>2. DecodeTrails(s, n) = CASE k < n /\ Len(s) = k + 1 -> Decoded(Incomplete, k + 1)
                             [] k < n /\ Len(s) # k + 1 -> Decoded(Illegal, k + 2)
                             [] k = n /\ sound -> Decoded(v, n + 1)
                             [] k = n /\ ~sound -> Decoded(Illegal, 1)
  BY SMT DEF DecodeTrails
<1> HIDE DEF k, v, sound
<1>3. ~(k < n)
  BY SMT, <1>1, <1>2, DecodedFields, NoSpecialResult
<1>4. k = n
  BY SMT, <1>1, <1>3
<1>5. sound
  BY SMT, <1>2, <1>4, DecodedFields, NoSpecialResult
<1>6. DecodeTrails(s, n) = Decoded(v, n + 1)
  BY SMT, <1>2, <1>4, <1>5
<1> QED BY <1>4, <1>6 DEF k, v

LEMMA TrailsAreTrails ==
    ASSUME NEW n \in 1..3, NEW s \in Seq(Bytes), TrailsAt(s, n) = n
    PROVE  \A i \in 2..(n + 1) : IsTrail8(s[i])
BY SMT DEF TrailsAt

LEMMA ReadersAgree8 ==
    ASSUME NEW s \in Seq(Bytes), s # <<>>, Decode8(s).cp \in CodePoints
    PROVE  /\ DecodeValid8(s) = Decode8(s)
           /\ TrailLength8(s[1]) = Decode8(s).used - 1
           /\ \A i \in 1..Decode8(s).used : IsTrail8(s[i]) <=> i > 1
<1> DEFINE n == TrailLength8(s[1])
<1>1. s[1] \in Nat /\ s[1] <= 255
  BY SMT, NotEmpty DEF Bytes
<1>2. /\ n \in {-1, 0, 1, 2, 3}
      /\ n = 0 => s[1] < 128
      /\ n = 1 => 194 <= s[1] /\ s[1] < 224
      /\ n = 2 => 224 <= s[1] /\ s[1] < 240
      /\ n = 3 => 240 <= s[1] /\ s[1] <= 244
  BY SMT, <1>1 DEF TrailLength8
<1>3. n \in 0..3 => DecodeValid8(s) = Decoded(Combine8(s, n), n + 1) /\ ~IsTrail8(s[1])
  BY SMT, <1>1, <1>2 DEF DecodeValid8, IsTrail8
<1>4. CASE n = -1
  <2>1. Decode8(s) = Decoded(Illegal, 1)
    BY SMT, <1>4 DEF Decode8
  <2> QED BY <2>1, DecodedFields, NoSpecialResult
<1>5. CASE n = 0
  <2>1. Decode8(s) = Decoded(s[1], 1)
    BY SMT, <1>5 DEF Decode8
  <2>2. DecodeValid8(s) = Decoded(s[1], 1)
    BY SMT, <1>3, <1>5 DEF Combine8
  <2>3. Decode8(s).used = 1
    BY <2>1, DecodedFields
  <2>4. \A i \in 1..1 : i = 1 /\ ~(i > 1)
    BY SMT
  <2>5. ~IsTrail8(s[1])
    BY SMT, <1>3, <1>5
  <2> QED BY SMT, <1>5, <2>1, <2>2, <2>3, <2>4, <2>5
<1>6. CASE n \in 1..3
  <2>1. Decode8(s) = DecodeTrails(s, n)
    BY SMT, <1>6 DEF Decode8
  <2>2. Decode8(s) = Decoded(Combine8(s, n), n + 1) /\ TrailsAt(s, n) = n
    BY <1>6, <2>1, DecodeTrailsFound
  <2>3. Decode8(s).used = n + 1
    BY <2>2, DecodedFields
  <2>4. \A i \in 2..(n + 1) : IsTrail8(s[i])
    BY <1>6, <2>2, TrailsAreTrails
  <2>5. DecodeValid8(s) = Decode8(s) /\ ~IsTrail8(s[1])
    BY SMT, <1>3, <1>6, <2>2
  <2> HIDE DEF n
  <2>6. \A i \in 1..(n + 1) : IsTrail8(s[i]) <=> i > 1
    BY SMT, <1>6, <2>4, <2>5
  <2>7. n = (n + 1) - 1
    BY SMT, <1>6
  <2> QED BY <2>3, <2>5, <2>6, <2>7 DEF n
<1> QED BY SMT, <1>2, <1>4, <1>5, <1>6

LEMMA ReadersAgree16 ==
    ASSUME NEW s \in Seq(Units16), s # <<>>, Decode16(s).cp \in CodePoints
    PROVE  /\ DecodeValid16(s) = Decode16(s)
           /\ TrailLength16(s[1]) = Decode16(s).used - 1
           /\ \A i \in 1..Decode16(s).used : IsSecondSurrogate(s[i]) <=> i > 1
<1>1. Len(s) \in Nat /\ Len(s) >= 1 /\ s[1] \in Nat
  BY SMT, NotEmpty DEF Units16
<1>2. CASE IsSingleCodepoint(s[1])
  <2>1. ~IsSecondSurrogate(s[1]) /\ ~IsFirstSurrogate(s[1])
    BY SMT, <1>1, <1>2 DEF IsSingleCodepoint, IsSecondSurrogate, IsFirstSurrogate
  <2>2. Decode16(s) = Decoded(s[1], 1)
    BY SMT, <1>1, <1>2, <2>1 DEF Decode16
  <2>3. Decode16(s).used = 1
    BY <2>2, DecodedFields
  <2>4. DecodeValid16(s) = Decoded(s[1], 1) /\ TrailLength16(s[1]) = 0
    BY SMT, <1>2, <2>1 DEF DecodeValid16, TrailLength16
  <2> QED BY SMT, <2>1, <2>2, <2>3, <2>4
<1>3. CASE IsSecondSurrogate(s[1])
  <2>1. Decode16(s) = Decoded(Illegal, 1)
    BY SMT, <1>1, <1>3 DEF Decode16, IsSingleCodepoint, IsSecondSurrogate, IsFirstSurrogate
  <2> QED BY <2>1, DecodedFields, NoSpecialResult
<1>4. CASE IsFirstSurrogate(s[1])
  <2>1. ~IsSingleCodepoint(s[1]) /\ ~IsSecondSurrogate(s[1])
    BY SMT, <1>1, <1>4 DEF IsSingleCodepoint, IsSecondSurrogate, IsFirstSurrogate
  <2>2. Decode16(s) = IF Len(s) = 1 THEN Decoded(Incomplete, 1)
                      ELSE IF ~IsSecondSurrogate(s[2]) THEN Decoded(Illegal, 2)
                      ELSE Decoded(CombineSurrogate(s[1], s[2]), 2)
    BY SMT, <1>1, <1>4, <2>1 DEF Decode16
  <2>3. IsSecondSurrogate(s[2]) /\ Decode16(s) = Decoded(CombineSurrogate(s[1], s[2]), 2)
    BY <2>2, DecodedFields, NoSpecialResult
  <2>4. Decode16(s).used = 2
    BY <2>3, DecodedFields
  <2>5. DecodeValid16(s) = Decode16(s) /\ TrailLength16(s[1]) = 1
    BY SMT, <1>4, <2>1, <2>3 DEF DecodeValid16, TrailLength16
  <2>6. \A i \in 1..2 : IsSecondSurrogate(s[i]) <=> i > 1
    BY SMT, <2>1, <2>3
  <2> QED BY SMT, <2>4, <2>5, <2>6
<1> QED BY SMT, <1>1, <1>2, <1>3, <1>4 DEF IsSingleCodepoint, IsSecondSurrogate, IsFirstSurrogate

LEMMA ReadersAgree32 ==
    ASSUME NEW s \in Seq(Nat), s # <<>>, Decode32(s).cp \in CodePoints
    PROVE  /\ DecodeValid32(s) = Decode32(s)
           /\ TrailLength32(s[1]) = 0 /\ Decode32(s).used = 1
<1>1. CASE ~IsValidCodepoint(s[1])
  <2>1. Decode32(s) = Decoded(Illegal, 1)
    BY <1>1 DEF Decode32
  <2> QED BY <2>1, DecodedFields, NoSpecialResult
<1>2. CASE IsValidCodepoint(s[1])
  <2>1. Decode32(s) = Decoded(s[1], 1)
    BY <1>2 DEF Decode32
  <2>2. Decode32(s).used = 1
    BY <2>1, DecodedFields
  <2>3. TrailLength32(s[1]) = 0
    BY <1>2 DEF TrailLength32
  <2> QED BY <2>1, <2>2, <2>3 DEF DecodeValid32
<1> QED BY <1>1, <1>2

\* Wherever decode finds a code point, decode_valid, trail_length and is_trail agree with it, in
\* each encoding and whatever follows: a caller may find the next character with any of them.
THEOREM DecodeValidAgrees ==
    ASSUME NEW w \in Encodings, NEW s \in Seq(Units(w)), s # <<>>,
           Decode(w, s).cp \in CodePoints
    PROVE  Agree(w, s)
<1>1. CASE w = 8
  <2>1. Decode(w, s) = Decode8(s) /\ DecodeValid(w, s) = DecodeValid8(s) /\ s \in Seq(Bytes)
    BY SMT, <1>1 DEF Decode, DecodeValid, Units
  <2>2. TrailLength(w, s[1]) = TrailLength8(s[1]) /\ \A c : IsTrail(w, c) = IsTrail8(c)
    BY SMT, <1>1 DEF TrailLength, IsTrail
  <2> QED BY <2>1, <2>2, ReadersAgree8 DEF Agree
<1>2. CASE w = 16
  <2>1. Decode(w, s) = Decode16(s) /\ DecodeValid(w, s) = DecodeValid16(s) /\ s \in Seq(Units16)
    BY SMT, <1>2 DEF Decode, DecodeValid, Units
  <2>2. TrailLength(w, s[1]) = TrailLength16(s[1]) /\ \A c : IsTrail(w, c) = IsSecondSurrogate(c)
    BY SMT, <1>2 DEF TrailLength, IsTrail
  <2> QED BY <2>1, <2>2, ReadersAgree16 DEF Agree
<1>3. CASE w = 32
  <2>1. Decode(w, s) = Decode32(s) /\ DecodeValid(w, s) = DecodeValid32(s) /\ s \in Seq(Nat)
    BY SMT, <1>3 DEF Decode, DecodeValid, Units
  <2>2. TrailLength(w, s[1]) = TrailLength32(s[1]) /\ \A c : IsTrail(w, c) = FALSE
    BY SMT, <1>3 DEF TrailLength, IsTrail
  <2>3. DecodeValid32(s) = Decode32(s) /\ TrailLength32(s[1]) = 0 /\ Decode32(s).used = 1
    BY <2>1, ReadersAgree32
  <2>4. 0 = 1 - 1 /\ \A i \in 1..1 : ~(i > 1)
    BY SMT
  <2>5. TrailLength(w, s[1]) = Decode(w, s).used - 1
    BY <2>1, <2>2, <2>3, <2>4
  <2>6. \A i \in 1..Decode(w, s).used : IsTrail(w, s[i]) <=> i > 1
    BY <2>1, <2>2, <2>3, <2>4
  <2> QED BY <2>1, <2>3, <2>5, <2>6 DEF Agree
<1> QED BY <1>1, <1>2, <1>3 DEF Encodings

----------------------------------------------------------------------------
\* A text converted in one piece: its first character, then the rest.

\* Every set of numbers that is not empty has a least one: induction, for a set instead of a predicate.
LEMMA LeastNumber ==
    ASSUME NEW T \in SUBSET Nat, T # {}
    PROVE  \E x \in T : \A y \in T : x <= y
  <1> DEFINE R == OpToRel(<, Nat)
  <1>1. IsWellFoundedOn(R, Nat)
    BY NatLessThanWellFounded
  <1> HIDE DEF R
  <1>2. PICK x \in T : \A y \in T : ~(<<y, x>> \in R)
    BY <1>1, WFMin
  <1>3. ASSUME NEW y \in T PROVE x <= y
    <2>1. ~(<<y, x>> \in OpToRel(<, Nat))
      BY <1>2 DEF R
    <2>2. x \in Nat /\ y \in Nat
      OBVIOUS
    <2>3. ~(y < x)
      BY <2>1, <2>2 DEF OpToRel
    <2> QED
      BY <2>2, <2>3
  <1> QED
    BY <1>3

\* One round of the recursion in Whole: what is at k comes before the rest, which begins at u[k].
Tails(n, h, u, t, m) == [k \in m..n |-> IF k = n THEN <<>> ELSE h[k] \o t[u[k]]]

\* Recursion over the rest of a text is well-defined, as each round takes something of it.
LEMMA TailsExist ==
    ASSUME NEW n \in Nat, NEW h, NEW u, \A k \in 0..(n - 1) : u[k] \in (k + 1)..n
    PROVE  \E t : t = Tails(n, h, u, t, 0)
  <1> DEFINE T == {m \in 0..n : \E t : t = Tails(n, h, u, t, m)}
  <1>1. n \in T
    <2> DEFINE t == [k \in n..n |-> <<>>]
    <2>1. t = Tails(n, h, u, t, n)
      BY DEF Tails
    <2> QED
      BY <2>1
  <1>2. T \in SUBSET Nat /\ T # {}
    BY <1>1
  <1>3. PICK m \in T : \A y \in T : m <= y
    BY <1>2, LeastNumber
  <1>4. PICK t : t = Tails(n, h, u, t, m)
    BY <1>3
  <1>5. ASSUME m # 0 PROVE FALSE
    <2>1. m \in 1..n /\ m - 1 \in 0..(n - 1)
      BY <1>3, <1>5
    <2> DEFINE g == [k \in (m - 1)..n |-> IF k = m - 1 THEN h[k] \o t[u[k]] ELSE t[k]]
    <2>2. ASSUME NEW k \in (m - 1)..n
          PROVE  g[k] = IF k = n THEN <<>> ELSE h[k] \o g[u[k]]
      <3>1. CASE k = m - 1
        <4>1. u[k] \in m..n /\ k # n
          BY <2>1, <3>1
        <4>2. g[u[k]] = t[u[k]]
          BY <2>1, <4>1
        <4> QED
          BY <3>1, <4>1, <4>2
      <3>2. CASE k # m - 1
        <4>1. k \in m..n /\ g[k] = t[k]
          BY <2>1, <3>2
        <4>2. t[k] = IF k = n THEN <<>> ELSE h[k] \o t[u[k]]
          BY <1>4, <4>1 DEF Tails
        <4>3. k # n => u[k] \in m..n
          BY <2>1, <4>1
        <4>4. k # n => g[u[k]] = t[u[k]]
          BY <2>1, <4>3
        <4> QED
          BY <4>1, <4>2, <4>4
      <3> QED
        BY <3>1, <3>2
    <2>3. g = Tails(n, h, u, g, m - 1)
      BY <2>2 DEF Tails
    <2>4. m - 1 \in T
      BY <2>1, <2>3
    <2> QED
      BY <1>3, <2>1, <2>4
  <1> QED
    BY <1>4, <1>5

\* What a recursion over the rest of a text yields does not depend on what comes before.
Advances(n, u) == \A k \in 0..(n - 1) : u[k] \in (k + 1)..n
Solves(n, h, u, t) == t = Tails(n, h, u, t, 0)
Shifted(n, a, h, u, v, w) ==
    \A k \in 0..(n - a - 1) : v[k] = h[a + k] /\ a + w[k] = u[a + k] /\ w[k] \in Int

LEMMA TailsAgree ==
    ASSUME NEW n \in Nat, NEW h, NEW u, Advances(n, u), NEW t, Solves(n, h, u, t),
           NEW a \in 0..n, NEW v, NEW w, NEW r, Solves(n - a, v, w, r),
           Shifted(n, a, h, u, v, w)
    PROVE  r[0] = t[a]
  <1> SUFFICES \A k \in 0..(n - a) : r[k] = t[a + k]
    <2>1. 0 \in 0..(n - a) /\ a + 0 = a
      OBVIOUS
    <2> QED
      BY <2>1
  <1> USE DEF Advances, Solves, Shifted
  <1> DEFINE T == {j \in 0..(n - a) : r[n - a - j] # t[n - j]}
  <1>1. SUFFICES ASSUME T # {} PROVE FALSE
    <2> SUFFICES ASSUME NEW k \in 0..(n - a), r[k] # t[a + k] PROVE T # {}
      OBVIOUS
    <2>1. n - a - k \in 0..(n - a) /\ n - a - (n - a - k) = k /\ n - (n - a - k) = a + k
      OBVIOUS
    <2> QED
      BY <2>1
  <1>2. T \in SUBSET Nat
    OBVIOUS
  <1>3. PICK j \in T : \A y \in T : j <= y
    BY <1>1, <1>2, LeastNumber
  <1> DEFINE k == n - a - j
  <1>4. k \in 0..(n - a) /\ a + k = n - j /\ r[k] # t[a + k] /\ a + k \in 0..n
    BY <1>3
  <1>5. /\ t[a + k] = IF a + k = n THEN <<>> ELSE h[a + k] \o t[u[a + k]]
        /\ r[k] = IF k = n - a THEN <<>> ELSE v[k] \o r[w[k]]
    BY <1>4 DEF Tails
  <1>6. CASE k = n - a
    BY <1>4, <1>5, <1>6
  <1>7. CASE k # n - a
    <2>1. k \in 0..(n - a - 1) /\ a + k \in 0..(n - 1)
      BY <1>4, <1>7
    <2>2. u[a + k] \in (a + k + 1)..n /\ a + w[k] = u[a + k] /\ v[k] = h[a + k]
          /\ w[k] \in Int
      BY <2>1
    <2>3. w[k] \in (k + 1)..(n - a)
      BY <2>1, <2>2
    <2> DEFINE i == n - a - w[k]
    <2>4. i \in 0..(n - a) /\ i < j /\ n - a - i = w[k] /\ n - i = u[a + k]
      BY <1>3, <2>2, <2>3
    <2>5. i \notin T
      BY <1>3, <2>4
    <2>6. r[w[k]] = t[u[a + k]]
      BY <2>4, <2>5
    <2> QED
      BY <1>4, <1>5, <1>7, <2>2, <2>6
  <1> QED
    BY <1>6, <1>7

LEMMA SameText ==
    ASSUME NEW S, NEW x \in Seq(S), NEW y \in Seq(S), Len(x) = Len(y),
           \A i \in 1..Len(x) : x[i] = y[i]
    PROVE  x = y
OBVIOUS

\* What is left of a text after n units, and after m more.
LEMMA RestOfText ==
    ASSUME NEW S, NEW s \in Seq(S), NEW n \in 0..Len(s)
    PROVE  /\ After(s, n) \in Seq(S) /\ Len(After(s, n)) = Len(s) - n
           /\ \A i \in 1..(Len(s) - n) : After(s, n)[i] = s[n + i]
           /\ n < Len(s) => After(s, n) # <<>>
           /\ n = Len(s) => After(s, n) = <<>>
           /\ n = 0 => After(s, n) = s
  <1>1. n \in Nat /\ Len(s) \in Nat /\ n <= Len(s)
    OBVIOUS
  <1>2. \A i \in (n + 1)..Len(s) : s[i] \in S
    BY <1>1, UnitOfText
  <1>3. After(s, n) \in Seq(S) /\ Len(After(s, n)) = Len(s) - n
    BY SMT, <1>1, <1>2 DEF After
  <1>4. \A i \in 1..(Len(s) - n) : After(s, n)[i] = s[n + i]
    BY <1>1 DEF After
  <1>5. n < Len(s) => After(s, n) # <<>>
    BY <1>1, <1>3
  <1>6. n = Len(s) => After(s, n) = <<>>
    BY <1>3
  <1>7. n = 0 => After(s, n) = s
    BY <1>3, <1>4
  <1> QED
    BY <1>3, <1>4, <1>5, <1>6, <1>7

LEMMA RestOfRest ==
    ASSUME NEW S, NEW s \in Seq(S), NEW n \in 0..Len(s), NEW m \in 0..(Len(s) - n)
    PROVE  After(After(s, n), m) = After(s, n + m)
  <1>1. After(s, n) \in Seq(S) /\ Len(After(s, n)) = Len(s) - n
        /\ n \in Nat /\ m \in Nat /\ Len(s) \in Nat /\ n + m \in 0..Len(s)
    BY RestOfText
  <1> DEFINE a == After(s, n)
             x == After(a, m)
             y == After(s, n + m)
  <1>2. x \in Seq(S) /\ Len(x) = Len(s) - n - m
        /\ \A i \in 1..(Len(s) - n - m) : x[i] = a[m + i]
    <2>1. m \in 0..Len(a)
      BY <1>1
    <2> QED
      BY <1>1, <2>1, RestOfText
  <1>3. y \in Seq(S) /\ Len(y) = Len(s) - (n + m)
        /\ \A i \in 1..(Len(s) - (n + m)) : y[i] = s[n + m + i]
    BY <1>1, RestOfText
  <1>4. ASSUME NEW i \in 1..(Len(s) - n - m) PROVE x[i] = y[i]
    <2>1. m + i \in 1..(Len(s) - n) /\ n + (m + i) = n + m + i
      BY <1>1
    <2>2. a[m + i] = s[n + (m + i)]
      BY <2>1, RestOfText
    <2> QED
      BY <1>1, <1>2, <1>3, <2>1, <2>2
  <1> HIDE DEF x, y, a
  <1>5. x = y
    <2>1. Len(x) = Len(y)
      BY <1>1, <1>2, <1>3
    <2>2. \A i \in 1..Len(x) : x[i] = y[i]
      BY <1>2, <1>4
    <2> QED
      BY <1>2, <1>3, <2>1, <2>2, SameText
  <1> QED
    BY <1>5 DEF x, y, a

\* What a conversion makes of the character at k, and where the next one begins.
Heads(w, v, s) ==
    [k \in 0..(Len(s) - 1) |-> Encode(v, Repaired(Decode(w, After(s, k)).cp))]
Nexts(w, s) == [k \in 0..(Len(s) - 1) |-> k + Decode(w, After(s, k)).used]

LEMMA NextsAdvance ==
    ASSUME NEW w \in Encodings, NEW s \in Seq(Units(w))
    PROVE  /\ Len(s) \in Nat
           /\ \A k \in 0..(Len(s) - 1) : Nexts(w, s)[k] \in (k + 1)..Len(s)
  <1>1. Len(s) \in Nat
    OBVIOUS
  <1>2. ASSUME NEW k \in 0..(Len(s) - 1)
        PROVE  Nexts(w, s)[k] \in (k + 1)..Len(s)
    <2> DEFINE d == Decode(w, After(s, k))
    <2>1. k \in 0..Len(s) /\ k < Len(s)
      BY <1>1
    <2>2. After(s, k) \in Seq(Units(w)) /\ After(s, k) # <<>> /\ Len(After(s, k)) = Len(s) - k
      BY <2>1, RestOfText
    <2>3. d.used \in 1..(Len(s) - k)
      BY <2>2, DecodeProgress
    <2>4. Nexts(w, s)[k] = k + d.used
      BY DEF Nexts
    <2> HIDE DEF d
    <2> QED
      BY <1>1, <2>3, <2>4
  <1> QED
    BY <1>1, <1>2

\* The function in the definition of Whole.
Table(w, v, s, t) ==
    t = Tails(Len(s), Heads(w, v, s), Nexts(w, s), t, 0)

LEMMA WholeIsTable ==
    ASSUME NEW w \in Encodings, NEW v \in Encodings, NEW s \in Seq(Units(w))
    PROVE  \E t : Table(w, v, s, t) /\ Whole(w, v, s) = t[0]
  <1> DEFINE e(t) == [k \in 0..Len(s) |->
                          IF k = Len(s) THEN <<>>
                          ELSE Encode(v, Repaired(Decode(w, After(s, k)).cp))
                               \o t[k + Decode(w, After(s, k)).used]]
             f == CHOOSE t : t = e(t)
  <1>1. ASSUME NEW t
        PROVE  e(t) = Tails(Len(s), Heads(w, v, s), Nexts(w, s), t, 0)
    <2>1. \A k \in 0..Len(s) : k # Len(s) => k \in 0..(Len(s) - 1)
      BY NextsAdvance
    <2>2. ASSUME NEW k \in 0..Len(s), k # Len(s)
          PROVE  /\ Heads(w, v, s)[k] = Encode(v, Repaired(Decode(w, After(s, k)).cp))
                 /\ Nexts(w, s)[k] = k + Decode(w, After(s, k)).used
      BY <2>1, <2>2 DEF Heads, Nexts
    <2> QED
      BY <2>2, Zenon DEF Tails
  <1>2. \E t : t = e(t)
    <2>1. \E t : t = Tails(Len(s), Heads(w, v, s), Nexts(w, s), t, 0)
      BY NextsAdvance, TailsExist
    <2> QED
      BY <1>1, <2>1, Zenon
  <1>3. Whole(w, v, s) = f[0]
    BY DEF Whole
  <1> HIDE DEF e
  <1>4. f = e(f)
    BY <1>2, Zenon
  <1>5. Table(w, v, s, f)
    BY <1>1, <1>4, Zenon DEF Table
  <1> QED
    BY <1>3, <1>5

\* Converting a text in one piece: the first character, then the rest.
LEMMA WholeUnfolds ==
    ASSUME NEW w \in Encodings, NEW v \in Encodings, NEW s \in Seq(Units(w))
    PROVE  /\ s = <<>> => Whole(w, v, s) = <<>>
           /\ s # <<>> => LET d == Decode(w, s)
                          IN Whole(w, v, s) = Encode(v, Repaired(d.cp)) \o Whole(w, v, After(s, d.used))
  <1>1. PICK t : Table(w, v, s, t) /\ Whole(w, v, s) = t[0]
    BY WholeIsTable
  <1>2. Len(s) \in Nat /\ (s = <<>> => Len(s) = 0) /\ (s # <<>> => Len(s) >= 1)
    BY NotEmpty
  <1>3. t[0] = IF 0 = Len(s) THEN <<>> ELSE Heads(w, v, s)[0] \o t[Nexts(w, s)[0]]
    BY <1>1, <1>2 DEF Table, Tails
  <1>4. CASE s = <<>>
    BY <1>1, <1>2, <1>3, <1>4
  <1>5. CASE s # <<>>
    <2> DEFINE d == Decode(w, s)
               a == d.used
               r == After(s, a)
               n == Len(s)
    <2>1. a \in 1..n /\ After(s, 0) = s /\ 0 \in 0..(n - 1) /\ a \in 0..n
      BY <1>2, <1>5, DecodeProgress, RestOfText
    <2>2. Heads(w, v, s)[0] = Encode(v, Repaired(d.cp)) /\ Nexts(w, s)[0] = a
      BY <2>1 DEF Heads, Nexts
    <2>3. r \in Seq(Units(w)) /\ Len(r) = n - a
      BY <2>1, RestOfText
    <2>4. PICK u : Table(w, v, r, u) /\ Whole(w, v, r) = u[0]
      BY <2>3, WholeIsTable
    <2>5. ASSUME NEW k \in 0..(n - a - 1)
          PROVE  /\ Heads(w, v, r)[k] = Heads(w, v, s)[a + k]
                 /\ a + Nexts(w, r)[k] = Nexts(w, s)[a + k]
                 /\ Nexts(w, r)[k] \in Int
      <3>1. k \in 0..(Len(s) - a) /\ k \in 0..(Len(r) - 1) /\ a + k \in 0..(Len(s) - 1)
        BY <1>2, <2>1, <2>3
      <3>2. After(r, k) = After(s, a + k)
        BY <2>1, <3>1, RestOfRest
      <3> DEFINE c == Decode(w, After(s, a + k))
      <3>3. Nexts(w, r)[k] = k + c.used /\ Nexts(w, s)[a + k] = (a + k) + c.used
            /\ Heads(w, v, r)[k] = Heads(w, v, s)[a + k]
        BY <3>1, <3>2 DEF Heads, Nexts
      <3>4. Nexts(w, r)[k] \in (k + 1)..Len(r) /\ Nexts(w, s)[a + k] \in (a + k + 1)..Len(s)
        BY <2>3, <3>1, NextsAdvance
      <3>5. c.used \in Int
        <4>1. a + k \in 0..Len(s) /\ a + k < Len(s)
          BY <1>2, <3>1
        <4>2. After(s, a + k) \in Seq(Units(w)) /\ After(s, a + k) # <<>>
          BY <4>1, RestOfText
        <4> QED
          BY <4>2, DecodeProgress
      <3> HIDE DEF c, r, a
      <3> QED
        BY <2>1, <3>3, <3>4, <3>5
    <2>6. u[0] = t[a]
      <3>1. n \in Nat /\ (\A k \in 0..(n - 1) : Nexts(w, s)[k] \in (k + 1)..n)
            /\ t = Tails(n, Heads(w, v, s), Nexts(w, s), t, 0)
        BY <1>1, NextsAdvance DEF Table
      <3>2. u = Tails(n - a, Heads(w, v, r), Nexts(w, r), u, 0)
        BY <2>3, <2>4 DEF Table
      <3> DEFINE hs == Heads(w, v, s)
                 hr == Heads(w, v, r)
                 us == Nexts(w, s)
                 ur == Nexts(w, r)
      <3>3. Shifted(n, a, hs, us, hr, ur)
        BY <2>5 DEF Shifted
      <3>4. Advances(n, us) /\ Solves(n, hs, us, t) /\ Solves(n - a, hr, ur, u)
        BY <3>1, <3>2 DEF Advances, Solves
      <3>5. n \in Nat /\ a \in 0..n
        BY <2>1, <3>1
      <3> HIDE DEF n, r, a, hs, hr, us, ur
      <3> QED
        BY <3>3, <3>4, <3>5, TailsAgree
    <2> HIDE DEF r
    <2>7. Whole(w, v, s) = Encode(v, Repaired(d.cp)) \o Whole(w, v, r)
      <3> DEFINE hs == Heads(w, v, s)
                 us == Nexts(w, s)
                 c == Encode(v, Repaired(d.cp))
      <3>1. 0 # Len(s)
        BY <1>2, <1>5
      <3>2. t[0] = hs[0] \o t[us[0]] /\ hs[0] = c /\ us[0] = a
        BY <1>3, <2>2, <3>1, Zenon
      <3> HIDE DEF hs, us, c
      <3>3. t[0] = c \o u[0]
        BY <2>6, <3>2, Zenon
      <3> QED
        BY <1>1, <2>4, <3>3, Zenon DEF c
    <2> QED
      BY <1>5, <2>7 DEF r
  <1> QED
    BY <1>4, <1>5

LEMMA JoinedText ==
    ASSUME NEW S, NEW a \in Seq(S), NEW b \in Seq(S)
    PROVE  /\ a \o b \in Seq(S) /\ Len(a \o b) = Len(a) + Len(b)
           /\ \A i \in 1..Len(a) : (a \o b)[i] = a[i]
           /\ \A i \in 1..Len(b) : (a \o b)[Len(a) + i] = b[i]
           /\ Len(a) \in Nat /\ Len(b) \in Nat
           /\ b = <<>> => a \o b = a
           /\ a = <<>> => a \o b = b
OBVIOUS

LEMMA JoinAssociates ==
    ASSUME NEW S, NEW a \in Seq(S), NEW b \in Seq(S), NEW c \in Seq(S)
    PROVE  (a \o b) \o c = a \o (b \o c)
OBVIOUS

\* What a text becomes is made of units of the other encoding.
LEMMA WholeType ==
    ASSUME NEW w \in Encodings, NEW v \in Encodings, NEW s \in Seq(Units(w))
    PROVE  Whole(w, v, s) \in Seq(Units(v))
  <1> DEFINE n == Len(s)
             T == {j \in 0..n : Whole(w, v, After(s, n - j)) \notin Seq(Units(v))}
  <1>1. n \in Nat /\ After(s, 0) = s
    BY RestOfText
  <1> HIDE DEF n
  <1>2. SUFFICES ASSUME T # {} PROVE FALSE
    <2> SUFFICES ASSUME Whole(w, v, s) \notin Seq(Units(v)) PROVE T # {}
      OBVIOUS
    <2>1. n \in 0..n /\ n - n = 0
      BY <1>1
    <2> QED
      BY <1>1, <2>1
  <1>3. T \in SUBSET Nat
    BY <1>1
  <1>4. PICK j \in T : \A y \in T : j <= y
    BY <1>2, <1>3, LeastNumber
  <1> DEFINE k == n - j
             r == After(s, k)
             d == Decode(w, r)
             a == d.used
  <1>5. k \in 0..n /\ Whole(w, v, r) \notin Seq(Units(v)) /\ j \in Nat
    BY <1>1, <1>4
  <1>6. r \in Seq(Units(w)) /\ Len(r) = n - k
    BY <1>5, RestOfText DEF n
  <1>7. r # <<>>
    <2>1. <<>> \in Seq(Units(v))
      OBVIOUS
    <2> HIDE DEF r
    <2> QED
      BY <1>5, <1>6, <2>1, WholeUnfolds
  <1>8. d.cp \in Results /\ a \in 1..(n - k)
    BY <1>6, <1>7, DecodeProgress
  <1>9. After(r, a) = After(s, k + a)
    <2>1. a \in 0..(Len(s) - k) /\ k \in 0..Len(s)
      BY <1>5, <1>8 DEF n
    <2> HIDE DEF a, k
    <2> QED
      BY <2>1, RestOfRest DEF r
  <1>10. Whole(w, v, After(r, a)) \in Seq(Units(v))
    <2>1. j - a \in 0..n /\ j - a < j /\ n - (j - a) = k + a
      BY <1>1, <1>5, <1>8
    <2>2. j - a \notin T
      BY <1>4, <2>1
    <2> HIDE DEF a, k, r
    <2> QED
      BY <1>9, <2>1, <2>2
  <1>11. Encode(v, Repaired(d.cp)) \in Seq(Units(v))
    BY <1>8, RepairedIsCodePoint, EncodeHasItsWidth
  <1>12. Whole(w, v, r) = Encode(v, Repaired(d.cp)) \o Whole(w, v, After(r, a))
    BY <1>6, <1>7, WholeUnfolds
  <1> HIDE DEF r, d, a
  <1> QED
    BY <1>5, <1>10, <1>11, <1>12, JoinedText
----------------------------------------------------------------------------
\* A character that is there to its end is read the same whatever follows it.

\* The text s begins with b.
Begins(b, s) == Len(b) <= Len(s) /\ \A i \in 1..Len(b) : b[i] = s[i]

LEMMA TrailsAtMore ==
    ASSUME NEW n \in 1..3, NEW s \in Seq(Bytes), NEW b \in Seq(Bytes), b # <<>>, Begins(b, s),
           TrailsAt(b, n) = n \/ Len(b) # TrailsAt(b, n) + 1
    PROVE  TrailsAt(s, n) = TrailsAt(b, n) /\ TrailsAt(b, n) \in 0..n /\ TrailsAt(b, n) < Len(b)
<1>1. Len(b) \in Nat /\ Len(s) \in Nat /\ Len(b) >= 1 /\ Len(b) <= Len(s)
  BY NotEmpty DEF Begins
<1>2. /\ Len(b) >= 2 => b[2] = s[2]
      /\ Len(b) >= 3 => b[3] = s[3]
      /\ Len(b) >= 4 => b[4] = s[4]
  BY <1>1 DEF Begins
<1>3. TrailsAt(b, n) \in 0..n /\ TrailsAt(b, n) < Len(b)
  BY SMT, <1>1 DEF TrailsAt
<1> DEFINE k == TrailsAt(b, n)
<1>4. Len(b) >= k + 1 /\ (k < n => Len(b) >= k + 2) /\ k \in 0..n
  <2>1. k = n \/ Len(b) # k + 1
    OBVIOUS
  <2> HIDE DEF k
  <2> QED
    BY <1>1, <1>3, <2>1 DEF k
<1>5. TrailsAt(s, n) = k
  <2>1. CASE n = 1
    <3>1. Len(b) >= 2
      <4> HIDE DEF k
      <4> QED
        BY <1>1, <1>4, <2>1
    <3> QED
      BY SMT, <1>1, <1>2, <2>1, <3>1 DEF TrailsAt
  <2>2. CASE n = 2
    <3>1. Len(b) >= 2 /\ (k # 0 => Len(b) >= 3)
      <4> HIDE DEF k
      <4> QED
        BY <1>1, <1>4, <2>2
    <3> QED
      BY SMT, <1>1, <1>2, <2>2, <3>1 DEF TrailsAt
  <2>3. CASE n = 3
    <3>1. Len(b) >= 2 /\ (k # 0 => Len(b) >= 3) /\ (k \notin {0, 1} => Len(b) >= 4)
      <4> HIDE DEF k
      <4> QED
        BY <1>1, <1>4, <2>3
    <3> QED
      BY SMT, <1>1, <1>2, <2>3, <3>1 DEF TrailsAt
  <2> QED
    BY <2>1, <2>2, <2>3
<1> QED
  BY <1>3, <1>5

LEMMA Combine8More ==
    ASSUME NEW n \in 1..3, NEW s \in Seq(Bytes), NEW b \in Seq(Bytes), Begins(b, s), n < Len(b)
    PROVE  Combine8(s, n) = Combine8(b, n)
<1>1. Len(b) \in Nat /\ Len(b) >= n + 1
  OBVIOUS
<1>2. /\ b[1] = s[1] /\ b[2] = s[2]
      /\ n >= 2 => b[3] = s[3]
      /\ n >= 3 => b[4] = s[4]
  BY <1>1 DEF Begins
<1>3. CASE n = 1
  BY <1>2, <1>3 DEF Combine8
<1>4. CASE n = 2
  BY <1>2, <1>4 DEF Combine8
<1>5. CASE n = 3
  BY <1>2, <1>5 DEF Combine8
<1> QED
  BY <1>3, <1>4, <1>5

LEMMA DecodeTrailsMore ==
    ASSUME NEW n \in 1..3, NEW s \in Seq(Bytes), NEW b \in Seq(Bytes), b # <<>>, Begins(b, s),
           DecodeTrails(b, n).cp # Incomplete
    PROVE  DecodeTrails(s, n) = DecodeTrails(b, n)
<1> DEFINE k(x) == TrailsAt(x, n)
           sound(x) == IsValidCodepoint(Combine8(x, n)) /\ Width8(Combine8(x, n)) = n + 1
<1>1. \A x : DecodeTrails(x, n) =
        CASE k(x) < n /\ Len(x) = k(x) + 1 -> Decoded(Incomplete, k(x) + 1)
          [] k(x) < n /\ Len(x) # k(x) + 1 -> Decoded(Illegal, k(x) + 2)
          [] k(x) = n /\ sound(x) -> Decoded(Combine8(x, n), n + 1)
          [] k(x) = n /\ ~sound(x) -> Decoded(Illegal, 1)
  BY SMT DEF DecodeTrails
<1>2. k(b) \in 0..n /\ Len(b) \in Nat /\ Len(s) \in Nat
  BY SMT DEF TrailsAt
<1>3. ~(k(b) < n /\ Len(b) = k(b) + 1)
  <2> SUFFICES ASSUME k(b) < n /\ Len(b) = k(b) + 1 PROVE FALSE
    OBVIOUS
  <2> HIDE DEF k, sound
  <2>1. DecodeTrails(b, n) = Decoded(Incomplete, k(b) + 1)
    BY <1>1
  <2> QED
    BY <2>1, DecodedFields
<1>4. k(b) = n \/ Len(b) # k(b) + 1
  <2> HIDE DEF k
  <2> QED
    BY <1>2, <1>3
<1>5. k(s) = k(b) /\ k(b) < Len(b) /\ Len(b) <= Len(s)
  BY <1>4, TrailsAtMore DEF Begins
<1>6. CASE k(b) < n
  <2> HIDE DEF k, sound
  <2>1. Len(b) # k(b) + 1 /\ Len(s) # k(s) + 1
    BY <1>2, <1>3, <1>5, <1>6
  <2> QED
    BY <1>1, <1>5, <1>6, <2>1
<1>7. CASE k(b) = n
  <2>1. Combine8(s, n) = Combine8(b, n)
    BY <1>5, <1>7, Combine8More
  <2>2. sound(s) = sound(b)
    BY <2>1
  <2>3. ~(k(b) < n) /\ ~(k(s) < n)
    BY <1>5, <1>7
  <2> HIDE DEF k, sound
  <2> QED
    BY <1>1, <1>5, <1>7, <2>1, <2>2, <2>3
<1> HIDE DEF k
<1> QED
  BY <1>2, <1>6, <1>7

\* Once a character is there to its end, what follows does not change what decode reads.
LEMMA DecodeMore ==
    ASSUME NEW s \in Seq(Bytes), NEW b \in Seq(Bytes), b # <<>>, Begins(b, s),
           Decode8(b).cp # Incomplete
    PROVE  Decode8(s) = Decode8(b)
<1>1. Len(b) \in Nat /\ Len(b) >= 1 /\ s # <<>> /\ s[1] = b[1] /\ b[1] \in Nat /\ b[1] <= 255
  BY SMT, NotEmpty DEF Begins, Bytes
<1> DEFINE n == TrailLength8(b[1])
<1>2. n \in {-1, 0, 1, 2, 3}
  BY SMT, <1>1 DEF TrailLength8
<1>3. CASE n = -1
  BY SMT, <1>1, <1>3 DEF Decode8
<1>4. CASE n = 0
  BY SMT, <1>1, <1>4 DEF Decode8
<1>5. CASE n \in 1..3
  <2>1. Decode8(b) = DecodeTrails(b, n) /\ Decode8(s) = DecodeTrails(s, n)
    BY SMT, <1>1, <1>5 DEF Decode8
  <2> QED
    BY <1>5, <2>1, DecodeTrailsMore
<1> QED
  BY SMT, <1>2, <1>3, <1>4, <1>5

\* The same in every encoding.
LEMMA DecodeGrows ==
    ASSUME NEW w \in Encodings, NEW s \in Seq(Units(w)), NEW b \in Seq(Units(w)), Begins(b, s),
           Decode(w, b).cp # Incomplete
    PROVE  b # <<>> /\ Decode(w, s) = Decode(w, b)
<1>1. b # <<>>
  <2> SUFFICES ASSUME b = <<>> PROVE Decode(w, b).cp = Incomplete
    OBVIOUS
  <2>1. Decode8(b).cp = Incomplete /\ Decode16(b).cp = Incomplete /\ Decode32(b).cp = Incomplete
    BY DecodedFields DEF Decode8, Decode16, Decode32
  <2> QED
    BY <2>1 DEF Decode, Encodings
<1>2. /\ Len(b) \in Nat /\ Len(s) \in Nat /\ Len(b) >= 1 /\ Len(b) <= Len(s)
      /\ s # <<>> /\ s[1] = b[1] /\ (Len(b) >= 2 => s[2] = b[2])
  BY <1>1, NotEmpty DEF Begins
<1>3. CASE w = 8
  <2>1. s \in Seq(Bytes) /\ b \in Seq(Bytes) /\ Decode8(b).cp # Incomplete
    BY <1>3 DEF Units, Decode
  <2> QED
    BY <1>1, <1>3, <2>1, DecodeMore DEF Decode
<1>4. CASE w = 16
  <2>1. Decode16(b).cp # Incomplete
    BY <1>4 DEF Decode
  <2>2. ~(IsFirstSurrogate(b[1]) /\ Len(b) = 1) \/ IsSingleCodepoint(b[1]) \/ IsSecondSurrogate(b[1])
    BY SMT, <1>1, <2>1, DecodedFields DEF Decode16, IsSingleCodepoint, IsFirstSurrogate, IsSecondSurrogate
  <2>3. CASE IsSingleCodepoint(b[1]) \/ IsSecondSurrogate(b[1])
    <3> DEFINE r(x) == IF IsSingleCodepoint(x[1]) THEN Decoded(x[1], 1) ELSE Decoded(Illegal, 1)
    <3>1. b[1] \in Nat
      BY <1>1, <1>4, NotEmpty DEF Units, Units16
    <3>2. Decode16(b) = r(b)
      BY SMT, <1>1, <2>3, <3>1 DEF Decode16, IsSingleCodepoint, IsSecondSurrogate, IsFirstSurrogate
    <3>3. Decode16(s) = r(s)
      BY SMT, <1>2, <2>3, <3>1 DEF Decode16, IsSingleCodepoint, IsSecondSurrogate, IsFirstSurrogate
    <3>4. Decode16(s) = Decode16(b)
      <4>1. s[1] = b[1]
        BY <1>2, Zenon
      <4>2. r(s) = r(b)
        BY <4>1, Zenon
      <4> HIDE DEF r
      <4> QED
        BY <3>2, <3>3, <4>2, Zenon
    <3> QED
      BY <1>1, <1>4, <3>4 DEF Decode
  <2>4. CASE ~IsSingleCodepoint(b[1]) /\ ~IsSecondSurrogate(b[1])
    <3> DEFINE r(x) == IF Len(x) = 1 THEN Decoded(Incomplete, 1)
                       ELSE IF ~IsSecondSurrogate(x[2]) THEN Decoded(Illegal, 2)
                       ELSE Decoded(CombineSurrogate(x[1], x[2]), 2)
    <3>1. IsFirstSurrogate(b[1])
      <4>1. b[1] \in Nat
        BY <1>1, <1>4, NotEmpty DEF Units, Units16
      <4> QED
        BY <2>4, <4>1 DEF IsSingleCodepoint, IsFirstSurrogate, IsSecondSurrogate
    <3>2. Decode16(b) = r(b)
      BY SMT, <1>1, <2>4, <3>1 DEF Decode16
    <3>3. Decode16(s) = r(s)
      BY SMT, <1>2, <2>4, <3>1 DEF Decode16
    <3>4. Len(b) # 1
      BY <2>2, <2>4, <3>1, Zenon
    <3>5. Len(s) # 1 /\ s[1] = b[1] /\ s[2] = b[2]
      <4>1. \A m, n \in Nat : m >= 1 /\ m # 1 /\ m <= n => m >= 2 /\ n # 1
        OBVIOUS
      <4> QED
        BY <1>2, <3>4, <4>1, Zenon
    <3>6. r(s) = r(b)
      BY <3>4, <3>5, Zenon
    <3> HIDE DEF r
    <3> QED
      BY <1>1, <1>4, <3>2, <3>3, <3>6 DEF Decode
  <2> QED
    BY <2>3, <2>4
<1>5. CASE w = 32
  BY <1>1, <1>2, <1>5 DEF Decode, Decode32
<1> QED
  BY <1>3, <1>4, <1>5 DEF Encodings

\* What is left of a character that is not there to its end is short.
LEMMA IncompleteIsShort ==
    ASSUME NEW w \in Encodings, NEW s \in Seq(Units(w)), Decode(w, s).cp = Incomplete
    PROVE  Len(s) <= 3 /\ (w = 16 => Len(s) <= 1) /\ (w = 32 => Len(s) = 0)
<1>1. Len(s) \in Nat /\ (Len(s) = 0 => s = <<>>) /\ (s = <<>> => Len(s) = 0)
  BY NotEmpty
<1>2. CASE w = 8
  <2>1. s \in Seq(Bytes) /\ Decode8(s).cp = Incomplete
    BY <1>2 DEF Units, Decode
  <2> SUFFICES ASSUME s # <<>> PROVE Len(s) <= 3
    BY <1>1, <1>2
  <2> DEFINE n == TrailLength8(s[1])
  <2>2. s[1] \in Nat /\ Incomplete \notin Nat /\ Illegal # Incomplete
    BY <2>1, NotEmpty DEF Bytes, Incomplete, Illegal
  <2>3. n \in {-1, 0, 1, 2, 3}
    BY SMT, <2>2 DEF TrailLength8
  <2>4. n \in 1..3 /\ Decode8(s) = DecodeTrails(s, n)
    <3>1. Decode8(s) = IF n < 0 THEN Decoded(Illegal, 1) ELSE IF n = 0 THEN Decoded(s[1], 1) ELSE DecodeTrails(s, n)
      BY SMT, <2>3 DEF Decode8
    <3> HIDE DEF n
    <3>2. ~(n < 0) /\ n # 0
      BY <2>1, <2>2, <3>1, DecodedFields
    <3> QED
      BY <2>3, <3>1, <3>2
  <2> HIDE DEF n
  <2>5. TrailsAt(s, n) \in 0..n
    BY SMT, <2>4 DEF TrailsAt
  <2>6. TrailsAt(s, n) < n /\ Len(s) = TrailsAt(s, n) + 1
    <3> SUFFICES ASSUME ~(TrailsAt(s, n) < n /\ Len(s) = TrailsAt(s, n) + 1) PROVE FALSE
      OBVIOUS
    <3>1. Len(s) \in Nat /\ Len(s) >= 1
      BY <2>1, NotEmpty
    <3>2. DecodeTrails(s, n).cp \in {Illegal, Combine8(s, n)}
          /\ (DecodeTrails(s, n).cp = Combine8(s, n) => DecodeTrails(s, n).cp = Illegal \/ IsValidCodepoint(Combine8(s, n)))
      BY SMT, <2>4, <2>5, DecodedFields DEF DecodeTrails
    <3>3. ~IsValidCodepoint(Incomplete)
      BY SMT DEF IsValidCodepoint, Incomplete
    <3> QED
      BY <2>1, <2>2, <2>4, <3>2, <3>3
  <2> QED
    BY <2>4, <2>5, <2>6
<1>3. CASE w = 16
  <2>1. s \in Seq(Units16) /\ Decode16(s).cp = Incomplete
    BY <1>3 DEF Units, Decode
  <2> SUFFICES ASSUME s # <<>>, Len(s) # 1 PROVE FALSE
    <3>1. \A n \in Nat : n = 0 \/ n = 1 => n <= 3 /\ n <= 1
      OBVIOUS
    <3>2. Len(s) <= 3 /\ Len(s) <= 1
      BY <1>1, <3>1, Zenon
    <3> QED
      BY <1>3, <3>2
  <2>2. s[1] \in Nat
    BY <2>1, NotEmpty DEF Units16
  <2>3. s[2] \in Nat
    BY <2>1, SecondOfText DEF Units16
  <2>4. CombineSurrogate(s[1], s[2]) # Incomplete /\ s[1] # Incomplete /\ Illegal # Incomplete
    BY <2>2, <2>3, SurrogatesCombine, NoSpecialResult DEF Incomplete, Illegal
  <2>5. Decode16(s).cp \in {s[1], Illegal, CombineSurrogate(s[1], s[2])}
    BY SMT, <2>2, DecodedFields DEF Decode16, IsSingleCodepoint, IsFirstSurrogate, IsSecondSurrogate
  <2> QED
    BY <2>1, <2>4, <2>5
<1>4. CASE w = 32
  <2>1. s \in Seq(Nat) /\ Decode32(s).cp = Incomplete
    BY <1>4 DEF Units, Decode
  <2> SUFFICES ASSUME s # <<>> PROVE FALSE
    BY <1>1, <1>4
  <2>2. s[1] \in Nat
    BY <2>1, NotEmpty
  <2> QED
    BY <2>1, <2>2, DecodedFields DEF Decode32, Incomplete, Illegal
<1> QED
  BY <1>2, <1>3, <1>4 DEF Encodings
----------------------------------------------------------------------------
\* A text is converted character by character up to one that is not there to its end; e says what a
\* code point becomes.  Gain is what the character at k becomes, Jump where the next one begins;
\* the end of the text follows on a character that is not complete.
Stays(w, s, k) == Decode(w, After(s, k)).cp = Incomplete
Gain(w, e, s) ==
    [k \in 0..(Len(s) - 1) |->
        IF Stays(w, s, k) THEN <<>> ELSE e[Repaired(Decode(w, After(s, k)).cp)]]
Jump(w, s) ==
    [k \in 0..(Len(s) - 1) |->
        IF Stays(w, s, k) THEN Len(s) ELSE k + Decode(w, After(s, k)).used]

Whole8(w, e, s, t) == Solves(Len(s), Gain(w, e, s), Jump(w, s), t)

\* What the whole characters at the beginning of s become.
Into(w, e, s) == (CHOOSE t : Whole8(w, e, s, t))[0]

LEMMA OneCharacter ==
    ASSUME NEW w \in Encodings, NEW s \in Seq(Units(w)), NEW k \in 0..Len(s)
    PROVE  /\ After(s, k) \in Seq(Units(w)) /\ Len(After(s, k)) = Len(s) - k /\ Len(s) \in Nat
           /\ k = Len(s) => Stays(w, s, k)
           /\ ~Stays(w, s, k) => LET d == Decode(w, After(s, k))
                                 IN /\ k \in 0..(Len(s) - 1)
                                    /\ d.cp \in Results /\ Repaired(d.cp) \in CodePoints
                                    /\ d.used \in 1..(Len(s) - k) /\ k + d.used \in (k + 1)..Len(s)
  <1> DEFINE r == After(s, k)
             d == Decode(w, r)
  <1>1. r \in Seq(Units(w)) /\ Len(r) = Len(s) - k /\ Len(s) \in Nat /\ (k = Len(s) => r = <<>>)
        /\ (k < Len(s) => r # <<>>)
    BY RestOfText
  <1>2. k = Len(s) => d.cp = Incomplete
    <2> SUFFICES ASSUME k = Len(s) PROVE d.cp = Incomplete
      OBVIOUS
    <2>1. r = <<>>
      BY <1>1
    <2> HIDE DEF r
    <2>2. Decode8(r).cp = Incomplete /\ Decode16(r).cp = Incomplete /\ Decode32(r).cp = Incomplete
      BY <2>1, DecodedFields DEF Decode8, Decode16, Decode32
    <2> QED
      BY <2>2 DEF Decode, Encodings
  <1>3. ASSUME d.cp # Incomplete
        PROVE  /\ k \in 0..(Len(s) - 1)
               /\ d.cp \in Results /\ Repaired(d.cp) \in CodePoints
               /\ d.used \in 1..(Len(s) - k) /\ k + d.used \in (k + 1)..Len(s)
    <2>1. k # Len(s)
      BY <1>2, <1>3
    <2>2. k \in 0..(Len(s) - 1) /\ k < Len(s)
      BY <1>1, <2>1
    <2>3. d.cp \in Results /\ d.used \in 1..Len(r)
      <3>1. r # <<>>
        BY <1>1, <2>2
      <3> HIDE DEF r
      <3> QED
        BY <1>1, <3>1, DecodeProgress
    <2>4. Repaired(d.cp) \in CodePoints
      BY <2>3, RepairedIsCodePoint
    <2> HIDE DEF d
    <2>5. k + d.used \in (k + 1)..Len(s)
      BY <1>1, <2>2, <2>3
    <2> QED
      BY <1>1, <2>2, <2>3, <2>4, <2>5
  <1> QED
    BY <1>1, <1>2, <1>3 DEF Stays

LEMMA JumpAdvances ==
    ASSUME NEW w \in Encodings, NEW s \in Seq(Units(w))
    PROVE  Len(s) \in Nat /\ Advances(Len(s), Jump(w, s))
  <1>1. Len(s) \in Nat
    OBVIOUS
  <1>2. ASSUME NEW k \in 0..(Len(s) - 1) PROVE Jump(w, s)[k] \in (k + 1)..Len(s)
    <2>1. k \in 0..Len(s)
      BY <1>1
    <2>2. Jump(w, s)[k] = IF Stays(w, s, k) THEN Len(s) ELSE k + Decode(w, After(s, k)).used
      BY DEF Jump
    <2>3. ~Stays(w, s, k) => k + Decode(w, After(s, k)).used \in (k + 1)..Len(s)
      BY <2>1, OneCharacter
    <2>4. Len(s) \in (k + 1)..Len(s)
      BY <1>1
    <2> QED
      BY <2>2, <2>3, <2>4
  <1> QED
    BY <1>1, <1>2 DEF Advances

LEMMA IntoIsTable ==
    ASSUME NEW w \in Encodings, NEW e, NEW s \in Seq(Units(w))
    PROVE  \E t : Whole8(w, e, s, t) /\ Into(w, e, s) = t[0]
  <1>1. \E t : Whole8(w, e, s, t)
    <2> DEFINE n == Len(s)
               h == Gain(w, e, s)
               u == Jump(w, s)
    <2>1. n \in Nat /\ \A k \in 0..(n - 1) : u[k] \in (k + 1)..n
      BY JumpAdvances DEF Advances
    <2> HIDE DEF n, h, u
    <2>2. \E t : t = Tails(n, h, u, t, 0)
      BY <2>1, TailsExist
    <2> QED
      BY <2>2 DEF n, h, u, Whole8, Solves
  <1> QED
    BY <1>1, Zenon DEF Into

\* Converting a text: nothing if it does not begin with a whole character, else that one and the rest.
LEMMA IntoUnfolds ==
    ASSUME NEW w \in Encodings, NEW e, NEW S, e \in [CodePoints -> Seq(S)], NEW s \in Seq(Units(w))
    PROVE  LET d == Decode(w, s)
           IN IF d.cp = Incomplete THEN Into(w, e, s) = <<>>
              ELSE Into(w, e, s) = e[Repaired(d.cp)] \o Into(w, e, After(s, d.used))
  <1> DEFINE n == Len(s)
             h == Gain(w, e, s)
             u == Jump(w, s)
             d == Decode(w, s)
  <1>1. PICK t : Whole8(w, e, s, t) /\ Into(w, e, s) = t[0]
    BY IntoIsTable
  <1>2. n \in Nat /\ 0 \in 0..n /\ n \in 0..n /\ After(s, 0) = s
    BY RestOfText
  <1>3. \A k \in 0..n : t[k] = IF k = n THEN <<>> ELSE h[k] \o t[u[k]]
    BY <1>1, Zenon DEF Whole8, Solves, Tails
  <1>4. Stays(w, s, 0) <=> d.cp = Incomplete
    BY <1>2, Zenon DEF Stays
  <1>5. CASE d.cp = Incomplete
    <2>1. CASE n = 0
      <3>1. t[0] = <<>>
        BY <1>2, <1>3, <2>1, Zenon
      <3> QED
        BY <1>1, <1>5, <3>1
    <2>2. CASE n # 0
      <3>1. 0 \in 0..(n - 1)
        BY <1>2, <2>2
      <3>2. h[0] = <<>> /\ u[0] = n
        BY <1>4, <1>5, <3>1, Zenon DEF Gain, Jump
      <3> HIDE DEF h, u, n
      <3>3. t[n] = <<>> /\ t[0] = h[0] \o t[u[0]]
        BY <1>2, <1>3, <2>2, Zenon
      <3>4. <<>> \o <<>> = <<>>
        OBVIOUS
      <3>5. t[0] = <<>>
        BY <3>2, <3>3, <3>4, Zenon
      <3> QED
        BY <1>1, <1>5, <3>5
    <2> QED
      BY <2>1, <2>2
  <1>6. CASE d.cp # Incomplete
    <2> DEFINE a == d.used
               r == After(s, a)
    <2>1. 0 \in 0..(n - 1) /\ a \in 1..n /\ a \in 0..n
      <3>1. ~Stays(w, s, 0) /\ 0 \in 0..Len(s)
        BY <1>2, <1>4, <1>6
      <3>2. 0 \in 0..(Len(s) - 1) /\ Decode(w, After(s, 0)).used \in 1..(Len(s) - 0)
        BY <3>1, OneCharacter
      <3>3. d.used \in 1..(n - 0) /\ 0 \in 0..(n - 1)
        BY <1>2, <3>2, Zenon
      <3> HIDE DEF d, n
      <3> QED
        BY <1>2, <3>3
    <2>2. h[0] = e[Repaired(d.cp)] /\ u[0] = 0 + a
      <3>1. ~Stays(w, s, 0)
        BY <1>4, <1>6
      <3>2. /\ h[0] = e[Repaired(Decode(w, After(s, 0)).cp)]
            /\ u[0] = 0 + Decode(w, After(s, 0)).used
        BY <2>1, <3>1, Zenon DEF Gain, Jump
      <3> QED
        BY <1>2, <3>2, Zenon
    <2>3. r \in Seq(Units(w)) /\ Len(r) = n - a
      BY <2>1, RestOfText
    <2>4. PICK v : Whole8(w, e, r, v) /\ Into(w, e, r) = v[0]
      BY <2>3, IntoIsTable
    <2>5. v[0] = t[a]
      <3> DEFINE g == Gain(w, e, r)
                 j == Jump(w, r)
      <3>1. ASSUME NEW k \in 0..(n - a - 1)
            PROVE  g[k] = h[a + k] /\ a + j[k] = u[a + k] /\ j[k] \in Int
        <4>1. /\ k \in 0..(Len(s) - a) /\ k \in 0..(Len(r) - 1) /\ k \in 0..Len(r)
              /\ a + k \in 0..(n - 1) /\ a + k \in 0..n /\ a \in 0..Len(s)
          BY <1>2, <2>1, <2>3
        <4>2. After(r, k) = After(s, a + k)
          BY <4>1, RestOfRest
        <4>3. Stays(w, r, k) <=> Stays(w, s, a + k)
          BY <4>2, Zenon DEF Stays
        <4> DEFINE c == Decode(w, After(s, a + k))
        <4>4. g[k] = IF Stays(w, s, a + k) THEN <<>> ELSE e[Repaired(c.cp)]
          BY <4>1, <4>2, <4>3, Zenon DEF Gain
        <4>5. h[a + k] = IF Stays(w, s, a + k) THEN <<>> ELSE e[Repaired(c.cp)]
          BY <4>1, Zenon DEF Gain
        <4>6. j[k] = IF Stays(w, s, a + k) THEN Len(r) ELSE k + c.used
          BY <4>1, <4>2, <4>3, Zenon DEF Jump
        <4>7. u[a + k] = IF Stays(w, s, a + k) THEN n ELSE (a + k) + c.used
          BY <4>1, Zenon DEF Jump
        <4>8. ~Stays(w, s, a + k) => c.used \in Nat
          <5>1. a + k \in 0..Len(s)
            BY <4>1
          <5>2. ~Stays(w, s, a + k) => c.used \in 1..(Len(s) - (a + k))
            BY <5>1, OneCharacter
          <5> QED
            BY <5>2
        <4> HIDE DEF c, g, h, j, u
        <4>9. g[k] = h[a + k]
          <5> DEFINE x == IF Stays(w, s, a + k) THEN <<>> ELSE e[Repaired(c.cp)]
          <5>1. g[k] = x /\ h[a + k] = x
            BY <4>4, <4>5, Zenon
          <5> HIDE DEF x
          <5> QED
            BY <5>1, Zenon
        <4> HIDE DEF r, a, n
        <4> QED
          BY <1>2, <2>1, <2>3, <4>1, <4>6, <4>7, <4>8, <4>9
      <3>2. Shifted(n, a, h, u, g, j)
        BY <3>1, Zenon DEF Shifted
      <3>3. n \in Nat /\ Advances(n, u) /\ Solves(n, h, u, t) /\ a \in 0..n
        BY <1>1, <1>2, <2>1, JumpAdvances DEF Whole8
      <3>4. Solves(n - a, g, j, v)
        BY <2>3, <2>4, Zenon DEF Whole8
      <3> HIDE DEF n, a, h, u, g, j, r
      <3> QED
        BY <3>2, <3>3, <3>4, TailsAgree
    <2>6. t[0] = h[0] \o t[u[0]]
      <3>1. 0 # n
        BY <1>2, <2>1
      <3> QED
        BY <1>2, <1>3, <3>1, Zenon
    <2> HIDE DEF r, h, u
    <2>7. u[0] = a
      <3> HIDE DEF d
      <3> QED
        BY <2>1, <2>2
    <2>8. Into(w, e, s) = e[Repaired(d.cp)] \o Into(w, e, r)
      BY <1>1, <2>2, <2>4, <2>5, <2>6, <2>7, Zenon
    <2> QED
      BY <1>6, <2>8 DEF r
  <1> QED
    BY <1>5, <1>6

LEMMA IntoType ==
    ASSUME NEW w \in Encodings, NEW e, NEW S, e \in [CodePoints -> Seq(S)], NEW s \in Seq(Units(w))
    PROVE  Into(w, e, s) \in Seq(S)
  <1> DEFINE n == Len(s)
             T == {j \in 0..n : Into(w, e, After(s, n - j)) \notin Seq(S)}
  <1>1. n \in Nat /\ After(s, 0) = s
    BY RestOfText
  <1> HIDE DEF n
  <1>2. SUFFICES ASSUME T # {} PROVE FALSE
    <2> SUFFICES ASSUME Into(w, e, s) \notin Seq(S) PROVE T # {}
      OBVIOUS
    <2>1. n \in 0..n /\ n - n = 0
      BY <1>1
    <2> QED
      BY <1>1, <2>1
  <1>3. T \in SUBSET Nat
    BY <1>1
  <1>4. PICK j \in T : \A y \in T : j <= y
    BY <1>2, <1>3, LeastNumber
  <1> DEFINE k == n - j
             r == After(s, k)
             d == Decode(w, r)
             a == d.used
  <1>5. k \in 0..n /\ Into(w, e, r) \notin Seq(S) /\ j \in Nat
    BY <1>1, <1>4
  <1>6. r \in Seq(Units(w)) /\ Len(r) = n - k
    BY <1>5, RestOfText DEF n
  <1>7. IF d.cp = Incomplete THEN Into(w, e, r) = <<>>
        ELSE Into(w, e, r) = e[Repaired(d.cp)] \o Into(w, e, After(r, a))
    <2> HIDE DEF r
    <2> QED
      BY <1>6, IntoUnfolds
  <1>8. d.cp # Incomplete
    <2>1. <<>> \in Seq(S)
      OBVIOUS
    <2> HIDE DEF r, d
    <2> QED
      BY <1>5, <1>7, <2>1, Zenon
  <1>9. a \in 1..(n - k) /\ Repaired(d.cp) \in CodePoints /\ k \in 0..Len(s)
    <2>1. k \in 0..Len(s)
      BY <1>5 DEF n
    <2> HIDE DEF k, n
    <2>2. ~Stays(w, s, k)
      BY <1>8, Zenon DEF Stays
    <2> QED
      BY <2>1, <2>2, OneCharacter DEF n
  <1>10. After(r, a) = After(s, k + a)
    <2>1. a \in 0..(Len(s) - k)
      BY <1>9 DEF n
    <2> HIDE DEF a, k
    <2> QED
      BY <1>9, <2>1, RestOfRest DEF r
  <1>11. Into(w, e, After(r, a)) \in Seq(S)
    <2>1. j - a \in 0..n /\ j - a < j /\ n - (j - a) = k + a
      BY <1>1, <1>5, <1>9
    <2>2. j - a \notin T
      BY <1>4, <2>1
    <2> HIDE DEF a, k, r
    <2> QED
      BY <1>10, <2>1, <2>2
  <1>12. e[Repaired(d.cp)] \in Seq(S)
    <2> HIDE DEF d
    <2> QED
      BY <1>9
  <1> DEFINE p == e[Repaired(d.cp)]
             q == Into(w, e, After(r, a))
  <1>13. Into(w, e, r) = p \o q
    BY <1>7, <1>8, Zenon
  <1> HIDE DEF r, p, q
  <1>14. p \o q \in Seq(S)
    BY <1>11, <1>12, JoinedText DEF p, q
  <1> QED
    BY <1>5, <1>13, <1>14, Zenon

\* A recursion over a text that says how far it gets.
WalkEnds(n, u, t, m) == [k \in m..n |-> IF u[k] = k THEN k ELSE t[u[k]]]

LEMMA WalkEndsExist ==
    ASSUME NEW n \in Nat, NEW u, \A k \in 0..n : u[k] \in k..n
    PROVE  \E t : t = WalkEnds(n, u, t, 0)
  <1> DEFINE T == {m \in 0..n : \E t : t = WalkEnds(n, u, t, m)}
  <1>1. n \in T
    <2> DEFINE t == [k \in n..n |-> k]
    <2>1. u[n] = n
      <3>1. n \in 0..n
        OBVIOUS
      <3>2. u[n] \in n..n
        BY <3>1
      <3> QED
        BY <3>2
    <2>2. \A k \in n..n : t[k] = IF u[k] = k THEN k ELSE t[u[k]]
      BY <2>1
    <2>3. t = WalkEnds(n, u, t, n)
      BY <2>2 DEF WalkEnds
    <2> QED
      BY <2>3
  <1>2. T \in SUBSET Nat /\ T # {}
    BY <1>1
  <1>3. PICK m \in T : \A y \in T : m <= y
    BY <1>2, LeastNumber
  <1>4. PICK t : t = WalkEnds(n, u, t, m)
    BY <1>3
  <1>5. ASSUME m # 0 PROVE FALSE
    <2>1. m \in 1..n /\ m - 1 \in 0..n
      BY <1>3, <1>5
    <2> DEFINE g == [k \in (m - 1)..n |->
                       IF k = m - 1 THEN (IF u[k] = k THEN k ELSE t[u[k]]) ELSE t[k]]
    <2>2. ASSUME NEW k \in (m - 1)..n
          PROVE  g[k] = IF u[k] = k THEN k ELSE g[u[k]]
      <3>1. k \in 0..n /\ u[k] \in k..n
        BY <2>1
      <3>2. u[k] # k => u[k] \in m..n /\ g[u[k]] = t[u[k]]
        BY <2>1, <3>1
      <3>3. CASE k = m - 1
        BY <3>2, <3>3
      <3>4. CASE k # m - 1
        <4>1. k \in m..n /\ g[k] = t[k]
          BY <2>1, <3>4
        <4>2. t[k] = IF u[k] = k THEN k ELSE t[u[k]]
          BY <1>4, <4>1 DEF WalkEnds
        <4> QED
          BY <3>2, <4>1, <4>2
      <3> QED
        BY <3>3, <3>4
    <2>3. g = WalkEnds(n, u, g, m - 1)
      BY <2>2 DEF WalkEnds
    <2>4. m - 1 \in T
      BY <2>1, <2>3
    <2> QED
      BY <1>3, <2>1, <2>4
  <1> QED
    BY <1>4, <1>5

\* What a scan from k on has yielded and where it has stopped.
WalksAt(w, e, s, y, z, k) ==
    LET d == Decode(w, After(s, k))
    IN IF Stays(w, s, k) THEN y[k] = <<>> /\ z[k] = k
       ELSE y[k] = e[Repaired(d.cp)] \o y[k + d.used] /\ z[k] = z[k + d.used]
Walks(w, e, s, y, z) == \A k \in 0..Len(s) : WalksAt(w, e, s, y, z, k)

LEMMA WalksExist ==
    ASSUME NEW w \in Encodings, NEW e, NEW s \in Seq(Units(w))
    PROVE  \E y, z : Walks(w, e, s, y, z)
  <1> DEFINE n == Len(s)
             h == Gain(w, e, s)
             u == Jump(w, s)
             v == [k \in 0..n |-> IF Stays(w, s, k) THEN k ELSE k + Decode(w, After(s, k)).used]
  <1>1. PICK y : Whole8(w, e, s, y)
    BY IntoIsTable
  <1>2. n \in Nat
    OBVIOUS
  <1>3. ASSUME NEW k \in 0..n
        PROVE  v[k] \in k..n /\ (v[k] = k <=> Stays(w, s, k))
               /\ (~Stays(w, s, k) => v[k] = k + Decode(w, After(s, k)).used /\ v[k] \in 0..n)
    <2> DEFINE a == Decode(w, After(s, k)).used
    <2>1. ~Stays(w, s, k) => a \in 1..(n - k) /\ k + a \in (k + 1)..n
      BY OneCharacter
    <2>2. v[k] = IF Stays(w, s, k) THEN k ELSE k + a
      OBVIOUS
    <2> HIDE DEF a, v
    <2>3. CASE Stays(w, s, k)
      BY <1>2, <2>2, <2>3
    <2>4. CASE ~Stays(w, s, k)
      BY <1>2, <2>1, <2>2, <2>4 DEF a
    <2> QED
      BY <2>3, <2>4
  <1>4. PICK z : z = WalkEnds(n, v, z, 0)
    <2>1. \A k \in 0..n : v[k] \in k..n
      BY <1>3
    <2> HIDE DEF v, n
    <2> QED
      BY <1>2, <2>1, WalkEndsExist
  <1>5. \A k \in 0..n : y[k] = IF k = n THEN <<>> ELSE h[k] \o y[u[k]]
    BY <1>1, Zenon DEF Whole8, Solves, Tails
  <1>6. \A k \in 0..n : z[k] = IF v[k] = k THEN k ELSE z[v[k]]
    <2> HIDE DEF v
    <2> QED
      BY <1>4, Zenon DEF WalkEnds
  <1>7. ASSUME NEW k \in 0..n
        PROVE  WalksAt(w, e, s, y, z, k)
    <2> DEFINE d == Decode(w, After(s, k))
    <2>1. CASE Stays(w, s, k)
      <3>1. z[k] = k
        <4> HIDE DEF v
        <4> QED
          BY <1>3, <1>6, <2>1, Zenon
      <3>2. y[k] = <<>>
        <4>1. CASE k = n
          BY <1>5, <4>1, Zenon
        <4>2. CASE k # n
          <5>1. k \in 0..(n - 1) /\ n \in 0..n
            BY <1>2, <4>2
          <5>2. h[k] = <<>> /\ u[k] = n
            BY <2>1, <5>1, Zenon DEF Gain, Jump
          <5> HIDE DEF h, u, n
          <5>3. y[n] = <<>> /\ y[k] = h[k] \o y[u[k]]
            BY <1>5, <4>2, <5>1, Zenon
          <5>4. <<>> \o <<>> = <<>>
            OBVIOUS
          <5> QED
            BY <5>2, <5>3, <5>4, Zenon
        <4> QED
          BY <4>1, <4>2
      <3> QED
        BY <2>1, <3>1, <3>2, Zenon DEF WalksAt
    <2>2. CASE ~Stays(w, s, k)
      <3>1. k \in 0..(n - 1) /\ k # n
        <4>1. k \in 0..(n - 1)
          BY <2>2, OneCharacter
        <4> QED
          BY <1>2, <4>1
      <3>2. h[k] = e[Repaired(d.cp)] /\ u[k] = k + d.used
        BY <2>2, <3>1, Zenon DEF Gain, Jump
      <3>3. y[k] = h[k] \o y[u[k]]
        <4> HIDE DEF h, u, n
        <4> QED
          BY <1>5, <3>1, Zenon
      <3>4. v[k] # k /\ v[k] = k + d.used
        BY <1>3, <2>2, Zenon
      <3>5. z[k] = z[k + d.used]
        <4> HIDE DEF v
        <4> QED
          BY <1>6, <3>4, Zenon
      <3> HIDE DEF h, u
      <3> QED
        BY <2>2, <3>2, <3>3, <3>5, Zenon DEF WalksAt
    <2> QED
      BY <2>1, <2>2
  <1> QED
    BY <1>7, Zenon DEF Walks
=============================================================================
