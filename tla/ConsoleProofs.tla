--------------------------- MODULE ConsoleProofs ---------------------------
(***************************************************************************)
(* What the streams on a console show is the conversion of what was put    *)
(* into them, wherever their buffers end and whichever writes fail; what a *)
(* program reads from a console is the conversion of what was typed.       *)
(***************************************************************************)
EXTENDS StdStreams, ConsoleInput, UtfProofs

LEMMA RestOfJoined ==
    ASSUME NEW S, NEW s \in Seq(S), NEW x \in Seq(S), NEW k \in 0..Len(s)
    PROVE  /\ s \o x \in Seq(S) /\ k \in 0..Len(s \o x)
           /\ After(s \o x, k) = After(s, k) \o x
  <1> DEFINE y == s \o x
             r == After(s, k)
             p == After(y, k)
             q == r \o x
  <1>1. /\ y \in Seq(S) /\ Len(y) = Len(s) + Len(x) /\ Len(s) \in Nat /\ Len(x) \in Nat
        /\ \A i \in 1..Len(s) : y[i] = s[i]
        /\ \A i \in 1..Len(x) : y[Len(s) + i] = x[i]
    BY JoinedText
  <1>2. r \in Seq(S) /\ Len(r) = Len(s) - k /\ \A i \in 1..(Len(s) - k) : r[i] = s[k + i]
    BY RestOfText
  <1> HIDE DEF y, r
  <1>3. k \in 0..Len(y) /\ k \in Nat
    BY <1>1
  <1>4. p \in Seq(S) /\ Len(p) = Len(y) - k /\ \A i \in 1..(Len(y) - k) : p[i] = y[k + i]
    <2>1. y \in Seq(S)
      BY <1>1, Zenon
    <2> QED
      BY <1>3, <2>1, RestOfText
  <1>5. /\ q \in Seq(S) /\ Len(q) = Len(r) + Len(x)
        /\ \A i \in 1..Len(r) : q[i] = r[i]
        /\ \A i \in 1..Len(x) : q[Len(r) + i] = x[i]
    <2>1. r \in Seq(S)
      BY <1>2, Zenon
    <2> QED
      BY <2>1, JoinedText
  <1> HIDE DEF p, q
  <1>6. Len(p) = Len(q)
    BY <1>1, <1>2, <1>3, <1>4, <1>5
  <1>7. ASSUME NEW i \in 1..Len(p) PROVE p[i] = q[i]
    <2>1. i \in 1..(Len(y) - k) /\ p[i] = y[k + i] /\ i \in Nat
      BY <1>1, <1>3, <1>4
    <2>2. CASE i <= Len(r)
      <3>1. i \in 1..Len(r) /\ i \in 1..(Len(s) - k) /\ k + i \in 1..Len(s)
        BY <1>1, <1>2, <1>3, <2>1, <2>2
      <3> QED
        BY <1>1, <1>2, <1>5, <2>1, <3>1, Zenon
    <2>3. CASE ~(i <= Len(r))
      <3> DEFINE j == i - Len(r)
      <3>1. j \in 1..Len(x) /\ Len(r) + j = i /\ Len(s) + j = k + i
        BY <1>1, <1>2, <1>3, <2>1, <2>3
      <3> HIDE DEF j
      <3>2. q[Len(r) + j] = x[j] /\ y[Len(s) + j] = x[j]
        BY <1>1, <1>5, <3>1, Zenon
      <3> QED
        BY <2>1, <3>1, <3>2, Zenon
    <2> QED
      BY <2>2, <2>3
  <1>8. p = q
    BY <1>4, <1>5, <1>6, <1>7, SameText
  <1> QED
    BY <1>1, <1>3, <1>8 DEF y, r, p, q

\* A scan from k on yields what the text from there to z[k] becomes, whatever follows on the text.
SplitsAt(w, e, s, y, z, k) ==
    \A x \in Seq(Units(w)) : Into(w, e, After(s, k) \o x) = y[k] \o Into(w, e, After(s, z[k]) \o x)
Scanned(w, e, S, s, y, z, k) ==
    y[k] \in Seq(S) /\ z[k] \in k..Len(s) /\ Stays(w, s, z[k]) /\ SplitsAt(w, e, s, y, z, k)

LEMMA ScannedOne ==
    ASSUME NEW w \in Encodings, NEW e, NEW S, e \in [CodePoints -> Seq(S)], NEW s \in Seq(Units(w)),
           NEW y, NEW z, Walks(w, e, s, y, z), NEW k \in 0..Len(s), ~Stays(w, s, k),
           Scanned(w, e, S, s, y, z, k + Decode(w, After(s, k)).used)
    PROVE  Scanned(w, e, S, s, y, z, k)
  <1> DEFINE r == After(s, k)
             d == Decode(w, r)
             a == d.used
             m == k + a
             g == e[Repaired(d.cp)]
  <1>1. /\ r \in Seq(Units(w)) /\ Len(r) = Len(s) - k /\ Len(s) \in Nat
        /\ a \in 1..(Len(s) - k) /\ m \in (k + 1)..Len(s) /\ Repaired(d.cp) \in CodePoints
    BY OneCharacter
  <1>2. y[k] = g \o y[m] /\ z[k] = z[m]
    BY Zenon DEF Walks, WalksAt
  <1>3. y[m] \in Seq(S) /\ z[m] \in m..Len(s) /\ Stays(w, s, z[m]) /\ SplitsAt(w, e, s, y, z, m)
    BY Zenon DEF Scanned
  <1>4. g \in Seq(S)
    <2> HIDE DEF d
    <2> QED
      BY <1>1
  <1>5. After(r, a) = After(s, m)
    <2>1. a \in 0..(Len(s) - k)
      BY <1>1
    <2> HIDE DEF a
    <2> QED
      BY <2>1, RestOfRest
  <1>6. d.cp # Incomplete
    BY Zenon DEF Stays
  <1>7. ASSUME NEW x \in Seq(Units(w))
        PROVE  Into(w, e, r \o x) = y[k] \o Into(w, e, After(s, z[k]) \o x)
    <2> DEFINE b == r \o x
               q == Into(w, e, After(s, m) \o x)
               o == Into(w, e, After(s, z[m]) \o x)
    <2>1. b \in Seq(Units(w)) /\ Begins(r, b)
      <3>1. /\ r \o x \in Seq(Units(w)) /\ Len(r \o x) = Len(r) + Len(x)
            /\ Len(r) \in Nat /\ Len(x) \in Nat
            /\ \A i \in 1..Len(r) : (r \o x)[i] = r[i]
        <4> HIDE DEF r
        <4> QED
          BY <1>1, JoinedText
      <3> HIDE DEF r
      <3>2. Len(r) <= Len(b) /\ \A i \in 1..Len(r) : r[i] = b[i]
        BY <3>1
      <3> QED
        BY <3>1, <3>2 DEF Begins
    <2>2. Decode(w, b) = d
      <3> HIDE DEF r, b
      <3>1. Decode(w, r).cp # Incomplete
        BY <1>6, Zenon
      <3> QED
        BY <1>1, <2>1, <3>1, DecodeGrows
    <2>3. After(b, a) = After(s, m) \o x
      <3>1. a \in 0..Len(r)
        BY <1>1
      <3> HIDE DEF a, r
      <3>2. After(r \o x, a) = After(r, a) \o x
        BY <1>1, <3>1, RestOfJoined
      <3> QED
        BY <1>5, <3>2, Zenon
    <2>4. Into(w, e, b) = g \o q
      <3> HIDE DEF b
      <3>1. LET c == Decode(w, b)
            IN IF c.cp = Incomplete THEN Into(w, e, b) = <<>>
               ELSE Into(w, e, b) = e[Repaired(c.cp)] \o Into(w, e, After(b, c.used))
        BY <2>1, IntoUnfolds
      <3>2. Into(w, e, b) = g \o Into(w, e, After(b, a))
        <4> HIDE DEF d
        <4> QED
          BY <1>6, <2>2, <3>1, Zenon
      <3> QED
        BY <2>3, <3>2, Zenon
    <2>5. q = y[m] \o o
      BY <1>3, Zenon DEF SplitsAt
    <2>6. o \in Seq(S)
      <3>1. z[m] \in 0..Len(s)
        <4> HIDE DEF m
        <4> QED
          BY <1>1, <1>3
      <3>2. After(s, z[m]) \in Seq(Units(w))
        BY <3>1, RestOfText
      <3> DEFINE f == After(s, z[m])
      <3> HIDE DEF f
      <3>3. f \o x \in Seq(Units(w))
        BY <3>2, JoinedText DEF f
      <3> QED
        BY <3>3, IntoType DEF f
    <2>7. (g \o y[m]) \o o = g \o (y[m] \o o)
      <3> DEFINE p == y[m]
      <3>1. p \in Seq(S)
        BY <1>3, Zenon
      <3> HIDE DEF g, o, p
      <3>2. (g \o p) \o o = g \o (p \o o)
        BY <1>4, <2>6, <3>1, JoinAssociates
      <3> QED
        BY <3>2 DEF p
    <2>8. Into(w, e, b) = (g \o y[m]) \o o
      <3> HIDE DEF b, g, o, q, m
      <3> QED
        BY <2>4, <2>5, <2>7, Zenon
    <2>9. y[k] \o Into(w, e, After(s, z[k]) \o x) = (g \o y[m]) \o o
      <3> HIDE DEF g, m
      <3> QED
        BY <1>2, Zenon
    <2> HIDE DEF g, o, m
    <2> QED
      BY <2>8, <2>9, Zenon
  <1>8. SplitsAt(w, e, s, y, z, k)
    BY <1>7, Zenon DEF SplitsAt
  <1>9. y[k] \in Seq(S)
    <2> DEFINE p == y[m]
    <2> HIDE DEF g, p
    <2>1. g \o p \in Seq(S)
      BY <1>3, <1>4, JoinedText DEF p
    <2> QED
      BY <1>2, <2>1, Zenon DEF p
  <1>10. z[k] \in k..Len(s) /\ Stays(w, s, z[k])
    <2>1. z[k] \in m..Len(s) /\ Stays(w, s, z[k])
      BY <1>2, <1>3, Zenon
    <2> HIDE DEF m
    <2> QED
      BY <1>1, <2>1
  <1> QED
    BY <1>8, <1>9, <1>10, Zenon DEF Scanned

LEMMA EveryScanned ==
    ASSUME NEW w \in Encodings, NEW e, NEW S, e \in [CodePoints -> Seq(S)], NEW s \in Seq(Units(w)),
           NEW y, NEW z, Walks(w, e, s, y, z), NEW i \in 0..Len(s)
    PROVE  Scanned(w, e, S, s, y, z, i)
  <1> DEFINE n == Len(s)
             T == {j \in 0..n : ~Scanned(w, e, S, s, y, z, n - j)}
  <1>1. n \in Nat
    OBVIOUS
  <1>2. SUFFICES ASSUME T # {} PROVE FALSE
    <2> SUFFICES ASSUME ~Scanned(w, e, S, s, y, z, i) PROVE T # {}
      OBVIOUS
    <2>1. n - i \in 0..n /\ n - (n - i) = i
      BY <1>1
    <2> QED
      BY <2>1
  <1>3. T \in SUBSET Nat
    BY <1>1
  <1>4. PICK j \in T : \A q \in T : j <= q
    BY <1>2, <1>3, LeastNumber
  <1> DEFINE k == n - j
             a == Decode(w, After(s, k)).used
  <1>5. k \in 0..n /\ ~Scanned(w, e, S, s, y, z, k) /\ j \in Nat /\ k \in 0..Len(s)
    BY <1>1, <1>4
  <1>6. CASE Stays(w, s, k)
    <2> HIDE DEF k, n
    <2>1. y[k] = <<>> /\ z[k] = k
      BY <1>5, <1>6, Zenon DEF Walks, WalksAt
    <2>2. SplitsAt(w, e, s, y, z, k)
      <3> SUFFICES ASSUME NEW x \in Seq(Units(w))
                   PROVE  Into(w, e, After(s, k) \o x) = y[k] \o Into(w, e, After(s, z[k]) \o x)
        BY DEF SplitsAt
      <3> DEFINE f == After(s, k)
                 o == Into(w, e, f \o x)
      <3>1. f \in Seq(Units(w))
        BY <1>5, RestOfText
      <3> HIDE DEF f
      <3>2. f \o x \in Seq(Units(w))
        BY <3>1, JoinedText
      <3>3. o \in Seq(S)
        BY <3>2, IntoType
      <3> HIDE DEF o
      <3>4. <<>> \o o = o
        BY <3>3
      <3> QED
        BY <2>1, <3>4, Zenon DEF o, f
    <2>3. y[k] \in Seq(S) /\ z[k] \in k..Len(s)
      <3>1. <<>> \in Seq(S) /\ k \in k..Len(s)
        BY <1>5
      <3> QED
        BY <2>1, <3>1, Zenon
    <2> QED
      BY <1>5, <1>6, <2>1, <2>2, <2>3, Zenon DEF Scanned
  <1>7. CASE ~Stays(w, s, k)
    <2>1. a \in 1..(n - k)
      <3> HIDE DEF k
      <3> QED
        BY <1>5, <1>7, OneCharacter
    <2>2. j - a \in 0..n /\ j - a < j /\ n - (j - a) = k + a
      BY <1>1, <1>5, <2>1
    <2>3. Scanned(w, e, S, s, y, z, k + a)
      <3>1. j - a \notin T
        BY <1>4, <2>2
      <3> HIDE DEF a, k
      <3> QED
        BY <2>2, <3>1
    <2> HIDE DEF k, n
    <2> QED
      BY <1>5, <1>7, <2>3, ScannedOne
  <1> QED
    BY <1>6, <1>7

----------------------------------------------------------------------------
\* console_output_buffer: write.

\* What a code point is shown as.
Shows == [c \in CodePoints |-> Encode(Wide, c)]

\* One step of the recursion in Scan.
ScanAt(s, t, k) ==
    LET d == Decode(8, After(s, k))
    IN IF d.cp \in {} \cup {Incomplete} THEN [units |-> <<>>, decoded |-> k]
       ELSE [t[k + d.used] EXCEPT !.units = Encode(Wide, Repaired(d.cp)) \o @]
ScanTable(s, t) == [k \in 0..Len(s) |-> ScanAt(s, t, k)]

LEMMA ShowsUnits == 8 \in Encodings /\ Wide \in Encodings /\ Shows \in [CodePoints -> Seq(Units(Wide))]
                    /\ Units(8) = Bytes
  <1>1. 8 \in Encodings /\ Wide \in Encodings
    BY WideAssumption DEF Encodings
  <1>2. \A c \in CodePoints : Encode(Wide, c) \in Seq(Units(Wide))
    BY <1>1, EncodeHasItsWidth
  <1>3. Units(8) = Bytes
    BY DEF Units
  <1> QED
    BY <1>1, <1>2, <1>3 DEF Shows

LEMMA ScanAtWalk ==
    ASSUME NEW s \in Seq(Units(8)), NEW y, NEW z, Walks(8, Shows, s, y, z), NEW t,
           NEW k \in 0..Len(s),
           ~Stays(8, s, k) => t[k + Decode(8, After(s, k)).used] =
                                 [units |-> y[k + Decode(8, After(s, k)).used],
                                  decoded |-> z[k + Decode(8, After(s, k)).used]]
    PROVE  ScanAt(s, t, k) = [units |-> y[k], decoded |-> z[k]]
  <1> DEFINE d == Decode(8, After(s, k))
             m == k + d.used
             x == Encode(Wide, Repaired(d.cp))
  <1>1. Stays(8, s, k) <=> d.cp \in {} \cup {Incomplete}
    BY DEF Stays
  <1>2. CASE Stays(8, s, k)
    <2>1. y[k] = <<>> /\ z[k] = k
      BY <1>2, Zenon DEF Walks, WalksAt
    <2> QED
      BY <1>1, <1>2, <2>1, Zenon DEF ScanAt
  <1>3. CASE ~Stays(8, s, k)
    <2>1. y[k] = Shows[Repaired(d.cp)] \o y[m] /\ z[k] = z[m]
      BY <1>3, Zenon DEF Walks, WalksAt
    <2>2. Shows[Repaired(d.cp)] = x
      <3>1. Repaired(d.cp) \in CodePoints
        BY <1>3, ShowsUnits, OneCharacter
      <3> HIDE DEF d
      <3> QED
        BY <3>1 DEF Shows, d
    <2>3. ScanAt(s, t, k) = [t[m] EXCEPT !.units = x \o @]
      BY <1>1, <1>3, Zenon DEF ScanAt
    <2>4. t[m] = [units |-> y[m], decoded |-> z[m]]
      BY <1>3
    <2> HIDE DEF d, m, x
    <2>5. [t[m] EXCEPT !.units = x \o @] = [units |-> x \o y[m], decoded |-> z[m]]
      <3> DEFINE r == t[m]
                 a == y[m]
                 b == z[m]
                 c == x \o a
      <3>1. r = [units |-> a, decoded |-> b]
        BY <2>4, Zenon
      <3> HIDE DEF r, a, b
      <3>2. r.units = a
        BY <3>1
      <3>3. [r EXCEPT !.units = x \o @] = [r EXCEPT !.units = c]
        BY <3>2, Zenon
      <3> HIDE DEF c
      <3>4. [r EXCEPT !.units = c] = [units |-> c, decoded |-> b]
        BY <3>1
      <3> QED
        BY <3>3, <3>4, Zenon DEF r, a, b, c
    <2> QED
      BY <2>1, <2>2, <2>3, <2>5, Zenon
  <1> QED
    BY <1>2, <1>3

LEMMA ScanIsWalk ==
    ASSUME NEW s \in Seq(Units(8))
    PROVE  \E y, z : Walks(8, Shows, s, y, z) /\ Scan(s, {}) = [units |-> y[0], decoded |-> z[0]]
  <1> DEFINE n == Len(s)
             f == CHOOSE t : t = ScanTable(s, t)
  <1>1. PICK y, z : Walks(8, Shows, s, y, z)
    BY ShowsUnits, WalksExist
  <1> DEFINE p == [k \in 0..n |-> [units |-> y[k], decoded |-> z[k]]]
  <1>2. n \in Nat
    OBVIOUS
  <1>3. ASSUME NEW k \in 0..n, ~Stays(8, s, k)
        PROVE  k + Decode(8, After(s, k)).used \in (k + 1)..n
    BY <1>3, ShowsUnits, OneCharacter
  <1>4. \A k \in 0..n : ScanAt(s, p, k) = p[k]
    <2> SUFFICES ASSUME NEW k \in 0..n PROVE ScanAt(s, p, k) = p[k]
      OBVIOUS
    <2> DEFINE m == k + Decode(8, After(s, k)).used
    <2>1. ~Stays(8, s, k) => m \in 0..n
      <3> SUFFICES ASSUME ~Stays(8, s, k) PROVE m \in 0..n
        OBVIOUS
      <3>1. m \in (k + 1)..n
        BY <1>3
      <3> HIDE DEF m
      <3> QED
        BY <1>2, <3>1
    <2>2. ~Stays(8, s, k) => p[m] = [units |-> y[m], decoded |-> z[m]]
      <3> HIDE DEF m
      <3> QED
        BY <2>1
    <2>3. p[k] = [units |-> y[k], decoded |-> z[k]]
      OBVIOUS
    <2> HIDE DEF p
    <2> QED
      BY <1>1, <2>2, <2>3, ScanAtWalk
  <1>5. f = ScanTable(s, f)
    <2>1. p = ScanTable(s, p)
      <3> DEFINE q == ScanTable(s, p)
      <3>1. q = [k \in 0..n |-> ScanAt(s, p, k)]
        BY DEF ScanTable
      <3>2. p = [k \in 0..n |-> p[k]]
        OBVIOUS
      <3> HIDE DEF p, q
      <3> QED
        BY <1>4, <3>1, <3>2 DEF q
    <2> HIDE DEF p
    <2> QED
      BY <2>1, Zenon
  <1>6. Scan(s, {}) = f[0]
    BY DEF Scan, ScanTable, ScanAt
  <1> HIDE DEF f
  <1>7. \A k \in 0..n : f[k] = ScanAt(s, f, k)
    BY <1>5, Zenon DEF ScanTable
  <1> DEFINE T == {j \in 0..n : f[n - j] # [units |-> y[n - j], decoded |-> z[n - j]]}
  <1>8. ASSUME T # {} PROVE FALSE
    <2>1. T \in SUBSET Nat
      BY <1>2
    <2>2. PICK j \in T : \A q \in T : j <= q
      BY <1>8, <2>1, LeastNumber
    <2> DEFINE k == n - j
               m == k + Decode(8, After(s, k)).used
    <2>3. k \in 0..n /\ j \in Nat /\ f[k] # [units |-> y[k], decoded |-> z[k]]
      BY <1>2, <2>2
    <2>4. ~Stays(8, s, k) => f[m] = [units |-> y[m], decoded |-> z[m]]
      <3> SUFFICES ASSUME ~Stays(8, s, k) PROVE f[m] = [units |-> y[m], decoded |-> z[m]]
        OBVIOUS
      <3>1. m \in (k + 1)..n
        <4> HIDE DEF k
        <4> QED
          BY <1>3, <2>3
      <3> HIDE DEF m
      <3>2. n - m \in 0..n /\ n - m < j /\ n - (n - m) = m
        BY <1>2, <2>3, <3>1
      <3>3. n - m \notin T
        BY <2>2, <3>2
      <3> HIDE DEF k
      <3> QED
        BY <3>2, <3>3
    <2>5. ScanAt(s, f, k) = [units |-> y[k], decoded |-> z[k]]
      <3> HIDE DEF k
      <3> QED
        BY <1>1, <2>3, <2>4, ScanAtWalk
    <2> HIDE DEF k
    <2> QED
      BY <1>7, <2>3, <2>5, Zenon
  <1>9. f[0] = [units |-> y[0], decoded |-> z[0]]
    <2>1. n \in 0..n /\ n - n = 0 /\ n \notin T
      BY <1>2, <1>8
    <2> HIDE DEF n
    <2> QED
      BY <2>1
  <1> QED
    BY <1>1, <1>6, <1>9, Zenon

\* What the characters at the beginning of a text are shown as.
Text(s) == Into(8, Shows, s)

\* write shows the whole characters and leaves the beginning of one, and it makes no difference to
\* what is shown whether what follows was there already.
Splits(s) ==
    LET r == Scan(s, {})
    IN \A x \in Seq(Bytes) : Text(s \o x) = r.units \o Text(After(s, r.decoded) \o x)

LEMMA ScanSplits ==
    ASSUME NEW s \in Seq(Bytes)
    PROVE  LET r == Scan(s, {})
           IN /\ r = [units |-> r.units, decoded |-> r.decoded]
              /\ r.units \in Seq(Units(Wide)) /\ r.decoded \in 0..Len(s)
              /\ After(s, r.decoded) \in Seq(Bytes) /\ Len(After(s, r.decoded)) < 4
              /\ Text(After(s, r.decoded)) = <<>>
              /\ Splits(s)
  <1> DEFINE r == Scan(s, {})
             a == After(s, r.decoded)
  <1>1. s \in Seq(Units(8))
    BY ShowsUnits
  <1>2. PICK y, z : Walks(8, Shows, s, y, z) /\ r = [units |-> y[0], decoded |-> z[0]]
    BY <1>1, ScanIsWalk
  <1>3. r.units = y[0] /\ r.decoded = z[0] /\ r = [units |-> r.units, decoded |-> r.decoded]
    <2> HIDE DEF r
    <2> QED
      BY <1>2
  <1>4. 0 \in 0..Len(s) /\ After(s, 0) = s /\ Len(s) \in Nat
    BY RestOfText
  <1>5. Scanned(8, Shows, Units(Wide), s, y, z, 0)
    BY <1>1, <1>2, <1>4, ShowsUnits, EveryScanned
  <1> HIDE DEF r
  <1>6. r.units \in Seq(Units(Wide)) /\ r.decoded \in 0..Len(s) /\ Stays(8, s, r.decoded)
    BY <1>3, <1>5, Zenon DEF Scanned
  <1>7. a \in Seq(Units(8)) /\ Decode(8, a).cp = Incomplete
    <2>1. a \in Seq(Units(8))
      <3> DEFINE q == r.decoded
      <3> HIDE DEF q
      <3>1. q \in 0..Len(s)
        BY <1>6 DEF q
      <3>2. After(s, q) \in Seq(Units(8))
        BY <1>1, <3>1, RestOfText
      <3> QED
        BY <3>2 DEF q
    <2> QED
      BY <1>6, <2>1 DEF Stays
  <1> HIDE DEF a
  <1>8. Len(a) < 4
    <2>1. Len(a) <= 3 /\ Len(a) \in Nat
      BY <1>7, ShowsUnits, IncompleteIsShort
    <2> QED
      BY <2>1
  <1>9. Text(a) = <<>>
    <2>1. Into(8, Shows, a) = <<>>
      BY <1>7, ShowsUnits, IntoUnfolds
    <2> QED
      BY <2>1 DEF Text
  <1>10. Splits(s)
    <2>1. \A x \in Seq(Units(8)) : Into(8, Shows, s \o x) = r.units \o Into(8, Shows, After(s, r.decoded) \o x)
      BY <1>3, <1>4, <1>5, Zenon DEF Scanned, SplitsAt
    <2> QED
      BY <2>1, ShowsUnits, Zenon DEF Splits, Text, r
  <1>11. a \in Seq(Bytes)
    BY <1>7, ShowsUnits
  <1> QED
    BY <1>3, <1>6, <1>8, <1>9, <1>10, <1>11 DEF r, a

\* Recode is the conversion character by character.
LEMMA RecodeIsText ==
    ASSUME NEW s \in Seq(Bytes)
    PROVE  Recode(s) = Text(s) /\ Text(s) \in Seq(Units(Wide))
  <1> DEFINE r == Scan(s, {})
             a == After(s, r.decoded)
             u == r.units
             x == <<>>
  <1>1. u \in Seq(Units(Wide)) /\ a \in Seq(Bytes) /\ Text(a) = <<>> /\ Splits(s)
    BY ScanSplits
  <1>2. x \in Seq(Bytes)
    OBVIOUS
  <1>3. Text(s \o x) = u \o Text(a \o x)
    BY <1>1, <1>2, Zenon DEF Splits
  <1>4. s \o x = s
    OBVIOUS
  <1> HIDE DEF a
  <1>5. a \o x = a
    BY <1>1
  <1> HIDE DEF u
  <1>6. u \o <<>> = u
    BY <1>1
  <1> HIDE DEF x
  <1>7. Text(s) = u
    BY <1>1, <1>3, <1>4, <1>5, <1>6, Zenon
  <1> QED
    BY <1>1, <1>7 DEF Recode, u

----------------------------------------------------------------------------
\* One stream.

StreamType ==
    [area : BOOLEAN, buffer : Seq(Bytes), shown : Seq(Units(Wide)), bad : BOOLEAN,
     last : {"none", "stored", "flushed", "failed"}, put : Seq(Bytes)]

\* What was put is what is shown and what waits, whatever is put behind it.
Keeps(b, u, a) == \A x \in Seq(Bytes) : Text(b \o x) = u \o Text(a \o x)
EndsWith(b, a) == \E q \in 0..Len(b) : a = After(b, q)

Sound(r) ==
    /\ r \in StreamType
    /\ EndsWith(r.put, r.buffer) /\ Keeps(r.put, r.shown, r.buffer)
    /\ r.last = "flushed" => Text(r.buffer) = <<>> /\ Len(r.buffer) < 4
    /\ r.last = "none" => r.put = <<>> /\ r.shown = <<>> /\ r.buffer = <<>>
    /\ r.bad => r.last = "failed"

Settled(r) == AllShown(r) \/ r.last = "failed"

LEMMA TextOfNothing == Text(<<>>) = <<>> /\ <<>> \in Seq(Bytes)
  <1>1. <<>> \in Seq(Units(8)) /\ <<>> \in Seq(Bytes)
    OBVIOUS
  <1>2. Decode(8, <<>>).cp = Incomplete
    BY DecodedFields DEF Decode, Decode8
  <1> QED
    BY <1>1, <1>2, ShowsUnits, IntoUnfolds DEF Text

LEMMA TextType ==
    ASSUME NEW s \in Seq(Bytes)
    PROVE  Text(s) \in Seq(Units(Wide))
BY RecodeIsText

LEMMA KeepsSays ==
    ASSUME NEW b \in Seq(Bytes), NEW u \in Seq(Units(Wide)), NEW a \in Seq(Bytes), Keeps(b, u, a)
    PROVE  Text(b) = u \o Text(a)
  <1>1. b \o <<>> = b /\ a \o <<>> = a
    OBVIOUS
  <1> QED
    BY <1>1, TextOfNothing, Zenon DEF Keeps

LEMMA KeepsOn ==
    ASSUME NEW b \in Seq(Bytes), NEW u \in Seq(Units(Wide)), NEW a \in Seq(Bytes), Keeps(b, u, a),
           NEW v \in Seq(Units(Wide)), NEW d \in Seq(Bytes), Keeps(a, v, d)
    PROVE  Keeps(b, u \o v, d) /\ u \o v \in Seq(Units(Wide))
  <1>1. ASSUME NEW x \in Seq(Bytes)
        PROVE  Text(b \o x) = (u \o v) \o Text(d \o x)
    <2> DEFINE t == Text(d \o x)
    <2>1. t \in Seq(Units(Wide))
      <3>1. d \o x \in Seq(Bytes)
        BY JoinedText
      <3> QED
        BY <3>1, TextType
    <2>2. Text(b \o x) = u \o Text(a \o x) /\ Text(a \o x) = v \o t
      BY Zenon DEF Keeps
    <2> HIDE DEF t
    <2>3. (u \o v) \o t = u \o (v \o t)
      BY <2>1, JoinAssociates
    <2> QED
      BY <2>2, <2>3, Zenon DEF t
  <1> QED
    BY <1>1, JoinedText DEF Keeps

LEMMA KeepsMore ==
    ASSUME NEW b \in Seq(Bytes), NEW u, NEW a \in Seq(Bytes), Keeps(b, u, a), NEW c \in Bytes
    PROVE  /\ Append(b, c) \in Seq(Bytes) /\ Append(a, c) \in Seq(Bytes)
           /\ a \o <<c>> = Append(a, c)
           /\ Keeps(Append(b, c), u, Append(a, c))
  <1>1. /\ Append(b, c) \in Seq(Bytes) /\ Append(a, c) \in Seq(Bytes) /\ <<c>> \in Seq(Bytes)
        /\ Append(b, c) = b \o <<c>> /\ Append(a, c) = a \o <<c>>
    OBVIOUS
  <1>2. ASSUME NEW x \in Seq(Bytes)
        PROVE  Text(Append(b, c) \o x) = u \o Text(Append(a, c) \o x)
    <2> DEFINE y == <<c>> \o x
    <2>1. y \in Seq(Bytes)
      BY <1>1, JoinedText
    <2>2. (b \o <<c>>) \o x = b \o y /\ (a \o <<c>>) \o x = a \o y
      BY <1>1, JoinAssociates
    <2> HIDE DEF y
    <2> QED
      BY <1>1, <2>1, <2>2, Zenon DEF Keeps
  <1> QED
    BY <1>1, <1>2, Zenon DEF Keeps

LEMMA EndsWithOn ==
    ASSUME NEW b \in Seq(Bytes), NEW a, EndsWith(b, a), NEW d, EndsWith(a, d)
    PROVE  EndsWith(b, d)
  <1>1. PICK q \in 0..Len(b) : a = After(b, q)
    BY DEF EndsWith
  <1>2. a \in Seq(Bytes) /\ Len(a) = Len(b) - q /\ Len(b) \in Nat
    BY <1>1, RestOfText
  <1>3. PICK m \in 0..Len(a) : d = After(a, m)
    BY DEF EndsWith
  <1>4. m \in 0..(Len(b) - q) /\ q + m \in 0..Len(b)
    BY <1>2
  <1>5. d = After(b, q + m)
    BY <1>1, <1>3, <1>4, RestOfRest
  <1> QED
    BY <1>4, <1>5 DEF EndsWith

LEMMA EndsWithMore ==
    ASSUME NEW b \in Seq(Bytes), NEW a, EndsWith(b, a), NEW c \in Bytes
    PROVE  a \in Seq(Bytes) /\ EndsWith(Append(b, c), Append(a, c))
  <1>1. PICK q \in 0..Len(b) : a = After(b, q)
    BY DEF EndsWith
  <1>2. a \in Seq(Bytes)
    BY <1>1, RestOfText
  <1>3. <<c>> \in Seq(Bytes) /\ Append(b, c) = b \o <<c>> /\ Append(a, c) = a \o <<c>>
    BY <1>2
  <1>4. q \in 0..Len(b \o <<c>>) /\ After(b \o <<c>>, q) = a \o <<c>>
    BY <1>1, <1>3, RestOfJoined
  <1> QED
    BY <1>2, <1>3, <1>4 DEF EndsWith

LEMMA Fields ==
    ASSUME NEW r \in StreamType
    PROVE  /\ r.area \in BOOLEAN /\ r.buffer \in Seq(Bytes) /\ r.shown \in Seq(Units(Wide))
           /\ r.bad \in BOOLEAN /\ r.last \in {"none", "stored", "flushed", "failed"}
           /\ r.put \in Seq(Bytes)
BY DEF StreamType

\* What a successful write leaves in the buffer and adds to what is shown.
LEMMA WrittenIs ==
    ASSUME NEW r \in StreamType, NEW c \in Bytes \cup {Eof}
    PROVE  \E u \in Seq(Units(Wide)), a \in Seq(Bytes) :
              /\ Written(r, c) = [r EXCEPT !.shown = r.shown \o u,
                                           !.buffer = a \o (IF c = Eof THEN <<>> ELSE <<c>>),
                                           !.area = TRUE]
              /\ Keeps(r.buffer, u, a) /\ EndsWith(r.buffer, a)
              /\ Text(a) = <<>> /\ Len(a) < 4
  <1> DEFINE b == r.buffer
             w == IF b = <<>> THEN [units |-> <<>>, decoded |-> 0] ELSE Write(b)
             u == w.units
             a == After(b, w.decoded)
  <1>1. Written(r, c) = [r EXCEPT !.shown = r.shown \o u,
                                  !.buffer = a \o (IF c = Eof THEN <<>> ELSE <<c>>),
                                  !.area = TRUE]
    BY DEF Written
  <1>2. b \in Seq(Bytes) /\ Len(b) \in Nat
    BY Fields
  <1>3. /\ u \in Seq(Units(Wide)) /\ w.decoded \in 0..Len(b) /\ a \in Seq(Bytes)
        /\ Keeps(b, u, a) /\ Text(a) = <<>> /\ Len(a) < 4
    <2> HIDE DEF b
    <2>1. CASE b = <<>>
      <3>1. u = <<>> /\ w.decoded = 0 /\ <<>> \in Seq(Units(Wide)) /\ Len(b) = 0
        BY <2>1
      <3>2. a = <<>>
        <4>1. 0 \in 0..Len(b)
          BY <1>2
        <4>2. After(b, 0) = b
          BY <1>2, <4>1, RestOfText
        <4> HIDE DEF w
        <4> QED
          BY <2>1, <3>1, <4>2, Zenon
      <3>3. Keeps(<<>>, <<>>, <<>>)
        <4>1. ASSUME NEW x \in Seq(Bytes) PROVE Text(<<>> \o x) = <<>> \o Text(<<>> \o x)
          <5> DEFINE t == Text(x)
          <5>1. t \in Seq(Units(Wide)) /\ <<>> \o x = x
            BY TextType
          <5> HIDE DEF t
          <5>2. <<>> \o t = t
            BY <5>1
          <5> QED
            BY <5>1, <5>2, Zenon DEF t
        <4> QED
          BY <4>1 DEF Keeps
      <3>4. 0 \in 0..Len(b) /\ Len(<<>>) < 4
        BY <1>2
      <3> HIDE DEF u, a, w
      <3> QED
        BY <2>1, <3>1, <3>2, <3>3, <3>4, TextOfNothing, Zenon
    <2>2. CASE b # <<>>
      <3>1. w = Scan(b, {})
        BY <2>2 DEF Write
      <3>2. LET q == Scan(b, {})
            IN /\ q.units \in Seq(Units(Wide)) /\ q.decoded \in 0..Len(b)
               /\ After(b, q.decoded) \in Seq(Bytes) /\ Len(After(b, q.decoded)) < 4
               /\ Text(After(b, q.decoded)) = <<>>
               /\ Splits(b)
        BY <1>2, ScanSplits
      <3> HIDE DEF w
      <3>3. Keeps(b, u, a)
        BY <3>1, <3>2, Zenon DEF Keeps, Splits
      <3> QED
        BY <3>1, <3>2, <3>3, Zenon
    <2> QED
      BY <2>1, <2>2
  <1>4. EndsWith(b, a)
    <2> HIDE DEF w, b
    <2> QED
      BY <1>3 DEF EndsWith
  <1> HIDE DEF u, a
  <1> QED
    BY <1>1, <1>3, <1>4, Zenon

\* A failed operation changes nothing but the state of the stream, and neither does clear().
LEMMA Marked ==
    ASSUME NEW r, Sound(r), NEW bad \in BOOLEAN, NEW last \in {"none", "stored", "flushed", "failed"},
           bad => last = "failed", last \in {r.last, "failed"}
    PROVE  LET n == [r EXCEPT !.bad = bad, !.last = last]
           IN Sound(n) /\ n.put = r.put /\ n.shown = r.shown /\ n.last = last /\ n.buffer = r.buffer
  <1> DEFINE n == [r EXCEPT !.bad = bad, !.last = last]
  <1>1. r \in StreamType
    BY DEF Sound
  <1>2. /\ n \in StreamType /\ n.put = r.put /\ n.shown = r.shown /\ n.buffer = r.buffer
        /\ n.last = last /\ n.bad = bad
    BY <1>1 DEF StreamType
  <1> HIDE DEF n
  <1>3. EndsWith(n.put, n.buffer) /\ Keeps(n.put, n.shown, n.buffer)
    BY <1>2, Zenon DEF Sound
  <1>4. /\ n.last = "flushed" => Text(n.buffer) = <<>> /\ Len(n.buffer) < 4
        /\ n.last = "none" => n.put = <<>> /\ n.shown = <<>> /\ n.buffer = <<>>
    <2>1. /\ r.last = "flushed" => Text(r.buffer) = <<>> /\ Len(r.buffer) < 4
          /\ r.last = "none" => r.put = <<>> /\ r.shown = <<>> /\ r.buffer = <<>>
      BY DEF Sound
    <2>2. n.last = r.last \/ n.last = "failed"
      BY <1>2
    <2>3. "failed" # "flushed" /\ "failed" # "none"
      OBVIOUS
    <2> QED
      BY <1>2, <2>1, <2>2, <2>3, Zenon
  <1>5. Sound(n)
    BY <1>2, <1>3, <1>4 DEF Sound
  <1> QED
    BY <1>2, <1>5 DEF n

\* What was put and shown by a stream whose write succeeded.
LEMMA WrittenOn ==
    ASSUME NEW r, Sound(r), NEW u \in Seq(Units(Wide)), NEW a \in Seq(Bytes),
           Keeps(r.buffer, u, a), EndsWith(r.buffer, a)
    PROVE  /\ r.put \in Seq(Bytes) /\ r.shown \o u \in Seq(Units(Wide))
           /\ EndsWith(r.put, a) /\ Keeps(r.put, r.shown \o u, a)
  <1> DEFINE p == r.put
             b == r.buffer
             v == r.shown
  <1>1. r \in StreamType
    BY DEF Sound
  <1>2. p \in Seq(Bytes) /\ b \in Seq(Bytes) /\ v \in Seq(Units(Wide))
    BY <1>1, Fields
  <1>3. EndsWith(p, b) /\ Keeps(p, v, b)
    BY DEF Sound
  <1>4. Keeps(b, u, a) /\ EndsWith(b, a)
    OBVIOUS
  <1> HIDE DEF p, b, v
  <1>5. Keeps(p, v \o u, a) /\ v \o u \in Seq(Units(Wide))
    BY <1>2, <1>3, <1>4, KeepsOn
  <1>6. EndsWith(p, a)
    BY <1>2, <1>3, <1>4, EndsWithOn
  <1> QED
    BY <1>2, <1>5, <1>6 DEF p, v

LEMMA FlushedSettles ==
    ASSUME NEW r, Sound(r), r.last = "flushed" \/ r.last = "none"
    PROVE  AllShown(r) /\ Len(r.buffer) < 4
  <1>1. r \in StreamType
    BY DEF Sound
  <1> DEFINE p == r.put
             b == r.buffer
             v == r.shown
  <1>2. p \in Seq(Bytes) /\ b \in Seq(Bytes) /\ v \in Seq(Units(Wide)) /\ Keeps(p, v, b)
    BY <1>1, Fields DEF Sound
  <1>3. Text(b) = <<>> /\ Len(b) < 4
    <2>1. CASE r.last = "flushed"
      BY <2>1 DEF Sound
    <2>2. CASE r.last = "none"
      <3>1. b = <<>> /\ Len(<<>>) < 4
        BY <2>2 DEF Sound
      <3> HIDE DEF b
      <3> QED
        BY <3>1, TextOfNothing, Zenon
    <2> QED
      BY <2>1, <2>2
  <1> HIDE DEF p, b, v
  <1>4. Text(p) = v \o Text(b)
    BY <1>2, KeepsSays
  <1>5. v \o <<>> = v
    BY <1>2
  <1>6. Recode(p) = Text(p)
    BY <1>2, RecodeIsText
  <1>7. v = Recode(p)
    BY <1>3, <1>4, <1>5, <1>6, Zenon
  <1> QED
    BY <1>3, <1>7 DEF AllShown, p, b, v

LEMMA FlushedIsSound ==
    ASSUME NEW r, Sound(r), NEW ok \in BOOLEAN
    PROVE  /\ Sound(Flushed(r, ok)) /\ Settled(Flushed(r, ok))
           /\ Flushed(r, ok).last \in {"flushed", "failed"}
           /\ Flushed(r, ok).put = r.put
  <1> DEFINE n == Flushed(r, ok)
  <1>1. r \in StreamType /\ r.bad \in BOOLEAN /\ (r.bad => r.last = "failed")
    BY Fields DEF Sound
  <1>2. CASE r.bad
    <2>1. n = r /\ r.last = "failed"
      BY <1>1, <1>2 DEF Flushed
    <2> HIDE DEF n
    <2> QED
      BY <2>1 DEF Settled, n
  <1>3. CASE ~r.bad /\ ~Succeeds(r, ok)
    <2>1. n = [r EXCEPT !.bad = TRUE, !.last = "failed"]
      BY <1>3 DEF Flushed, Overflow
    <2>2. Sound(n) /\ n.last = "failed" /\ n.put = r.put
      <3> HIDE DEF n
      <3> QED
        BY <2>1, Marked
    <2> HIDE DEF n
    <2> QED
      BY <2>2 DEF Settled, n
  <1>4. CASE ~r.bad /\ Succeeds(r, ok)
    <2>1. PICK u \in Seq(Units(Wide)), a \in Seq(Bytes) :
              /\ Written(r, Eof) = [r EXCEPT !.shown = r.shown \o u,
                                             !.buffer = a \o (IF Eof = Eof THEN <<>> ELSE <<Eof>>),
                                             !.area = TRUE]
              /\ Keeps(r.buffer, u, a) /\ EndsWith(r.buffer, a)
              /\ Text(a) = <<>> /\ Len(a) < 4
      BY <1>1, WrittenIs
    <2>2. a \o (IF Eof = Eof THEN <<>> ELSE <<Eof>>) = a
      OBVIOUS
    <2> DEFINE v == r.shown \o u
    <2>3. n = [r EXCEPT !.shown = v, !.buffer = a, !.area = TRUE, !.bad = FALSE, !.last = "flushed"]
      <3>1. n = [[r EXCEPT !.shown = v, !.buffer = a, !.area = TRUE]
                    EXCEPT !.bad = FALSE, !.last = "flushed"]
        <4>1. n = [Written(r, Eof) EXCEPT !.bad = ~Succeeds(r, ok),
                                          !.last = IF Succeeds(r, ok) THEN "flushed" ELSE "failed"]
          BY <1>4, Zenon DEF Flushed, Overflow
        <4>2. Written(r, Eof) = [r EXCEPT !.shown = v, !.buffer = a, !.area = TRUE]
          BY <2>1, <2>2, Zenon
        <4>3. ~Succeeds(r, ok) = FALSE /\ (IF Succeeds(r, ok) THEN "flushed" ELSE "failed") = "flushed"
          BY <1>4
        <4> HIDE DEF n, v
        <4> QED
          BY <4>1, <4>2, <4>3, Zenon
      <3> HIDE DEF n, v
      <3> QED
        BY <1>1, <3>1 DEF StreamType
    <2>4. /\ r.put \in Seq(Bytes) /\ v \in Seq(Units(Wide))
          /\ EndsWith(r.put, a) /\ Keeps(r.put, v, a)
      BY <2>1, WrittenOn
    <2> HIDE DEF n, v
    <2>5. /\ n \in StreamType /\ n.put = r.put /\ n.shown = v /\ n.buffer = a
          /\ n.last = "flushed" /\ n.bad = FALSE
      BY <1>1, <2>1, <2>3, <2>4 DEF StreamType
    <2>6. /\ n.last = "flushed" => Text(n.buffer) = <<>> /\ Len(n.buffer) < 4
          /\ n.last # "none" /\ ~n.bad
      BY <2>1, <2>5
    <2>7. EndsWith(n.put, n.buffer) /\ Keeps(n.put, n.shown, n.buffer)
      BY <2>4, <2>5, Zenon
    <2>8. Sound(n)
      BY <2>5, <2>6, <2>7 DEF Sound
    <2>9. AllShown(n)
      BY <2>5, <2>8, FlushedSettles
    <2> QED
      BY <2>5, <2>8, <2>9 DEF Settled, n
  <1> QED
    BY <1>1, <1>2, <1>3, <1>4

LEMMA PutIsSound ==
    ASSUME NEW r, Sound(r), NEW c \in Bytes, NEW ok \in BOOLEAN
    PROVE  Sound(PutInto(r, c, ok))
  <1> DEFINE n == PutInto(r, c, ok)
  <1>1. r \in StreamType /\ r.bad \in BOOLEAN /\ (r.bad => r.last = "failed")
        /\ r.put \in Seq(Bytes) /\ r.buffer \in Seq(Bytes) /\ r.shown \in Seq(Units(Wide))
        /\ Keeps(r.put, r.shown, r.buffer) /\ EndsWith(r.put, r.buffer)
    BY Fields DEF Sound
  <1>2. CASE r.bad
    BY <1>2 DEF PutInto
  <1>3. CASE ~r.bad /\ HasRoom(r)
    <2>1. n = [r EXCEPT !.buffer = Append(r.buffer, c), !.put = Append(r.put, c), !.last = "stored"]
      BY <1>3 DEF PutInto
    <2> DEFINE b == r.buffer
               p == r.put
               v == r.shown
    <2>2. b \in Seq(Bytes) /\ p \in Seq(Bytes) /\ v \in Seq(Units(Wide)) /\ Keeps(p, v, b)
          /\ EndsWith(p, b)
      BY <1>1
    <2> HIDE DEF b, p, v
    <2>3. /\ Append(p, c) \in Seq(Bytes) /\ Append(b, c) \in Seq(Bytes)
          /\ Keeps(Append(p, c), v, Append(b, c))
      BY <2>2, KeepsMore
    <2>4. EndsWith(Append(p, c), Append(b, c))
      BY <2>2, EndsWithMore
    <2> HIDE DEF n
    <2>5. /\ n \in StreamType /\ n.put = Append(p, c) /\ n.shown = v /\ n.buffer = Append(b, c)
          /\ n.last = "stored" /\ n.bad = r.bad
      BY <1>1, <2>1, <2>3 DEF StreamType, b, p, v
    <2>6. EndsWith(n.put, n.buffer) /\ Keeps(n.put, n.shown, n.buffer)
      BY <2>3, <2>4, <2>5, Zenon
    <2>7. n.last # "flushed" /\ n.last # "none" /\ ~n.bad
      BY <1>3, <2>5
    <2> QED
      BY <2>5, <2>6, <2>7 DEF Sound, n
  <1>4. CASE ~r.bad /\ ~HasRoom(r) /\ ~Succeeds(r, ok)
    <2>1. n = [r EXCEPT !.bad = TRUE, !.last = "failed"]
      BY <1>4 DEF PutInto, Overflow
    <2>2. Sound(n)
      <3> HIDE DEF n
      <3> QED
        BY <2>1, Marked
    <2> QED
      BY <2>2, Zenon
  <1>5. CASE ~r.bad /\ ~HasRoom(r) /\ Succeeds(r, ok)
    <2>1. c # Eof
      BY DEF Bytes, Eof
    <2>2. PICK u \in Seq(Units(Wide)), a \in Seq(Bytes) :
              /\ Written(r, c) = [r EXCEPT !.shown = r.shown \o u,
                                           !.buffer = a \o (IF c = Eof THEN <<>> ELSE <<c>>),
                                           !.area = TRUE]
              /\ Keeps(r.buffer, u, a) /\ EndsWith(r.buffer, a)
              /\ Text(a) = <<>> /\ Len(a) < 4
      BY <1>1, WrittenIs
    <2> DEFINE v == r.shown \o u
               b == Append(a, c)
               p == Append(r.put, c)
    <2>3. n = [r EXCEPT !.shown = v, !.buffer = b, !.area = TRUE, !.put = p, !.last = "stored"]
      <3>1. a \o (IF c = Eof THEN <<>> ELSE <<c>>) = b
        BY <2>1
      <3>2. Written(r, c) = [r EXCEPT !.shown = v, !.buffer = b, !.area = TRUE]
        BY <2>2, <3>1, Zenon
      <3>3. n = [Written(r, c) EXCEPT !.put = Append(@, c), !.last = "stored"]
        BY <1>5, Zenon DEF PutInto, Overflow
      <3> DEFINE m == [r EXCEPT !.shown = v, !.buffer = b, !.area = TRUE]
      <3>4. n = [m EXCEPT !.put = Append(m.put, c), !.last = "stored"]
        BY <3>2, <3>3, Zenon
      <3> HIDE DEF v, b, n
      <3>5. m.put = r.put
        BY <1>1 DEF StreamType
      <3>6. n = [m EXCEPT !.put = p, !.last = "stored"]
        <4> HIDE DEF m
        <4> QED
          BY <3>4, <3>5, Zenon
      <3> HIDE DEF p
      <3> QED
        BY <1>1, <3>6 DEF StreamType
    <2>4. /\ r.put \in Seq(Bytes) /\ v \in Seq(Units(Wide))
          /\ EndsWith(r.put, a) /\ Keeps(r.put, v, a)
      BY <2>2, WrittenOn
    <2> HIDE DEF n, v
    <2>5. p \in Seq(Bytes) /\ b \in Seq(Bytes) /\ EndsWith(p, b) /\ Keeps(p, v, b)
      <3> DEFINE o == r.put
      <3>1. o \in Seq(Bytes) /\ EndsWith(o, a) /\ Keeps(o, v, a)
        BY <2>4
      <3> HIDE DEF o
      <3>2. EndsWith(Append(o, c), b)
        BY <3>1, EndsWithMore
      <3>3. Append(o, c) \in Seq(Bytes) /\ b \in Seq(Bytes) /\ Keeps(Append(o, c), v, b)
        BY <3>1, KeepsMore
      <3> QED
        BY <3>2, <3>3 DEF o
    <2> HIDE DEF p, b
    <2>6. /\ n \in StreamType /\ n.put = p /\ n.shown = v /\ n.buffer = b
          /\ n.last = "stored" /\ n.bad = r.bad
      BY <1>1, <2>3, <2>4, <2>5 DEF StreamType
    <2>7. EndsWith(n.put, n.buffer) /\ Keeps(n.put, n.shown, n.buffer)
      BY <2>5, <2>6, Zenon
    <2>8. n.last # "flushed" /\ n.last # "none" /\ ~n.bad
      BY <1>5, <2>6
    <2> QED
      BY <2>6, <2>7, <2>8 DEF Sound, n
  <1> QED
    BY <1>1, <1>2, <1>3, <1>4, <1>5

----------------------------------------------------------------------------
\* The streams of the program.

InOrder ==
    /\ alive \in Seq({"cout", "cin", "cerr", "clog"}) /\ Len(alive) <= 4
    /\ \A i \in 1..Len(alive) : alive[i] = Order[i]

\* What each phase knows of the streams that exist.
Phases ==
    /\ phase \in {"starting", "running", "exiting"}
    /\ phase = "starting" => event = Nobody /\ Len(alive) < 4
    /\ phase = "running" => Len(alive) = 4
    /\ phase = "running" /\ event = "cin" => Settled(os["cout"])
    /\ phase = "exiting" => \A s \in Ostreams : IsAlive(s) \/ Settled(os[s])

\* cerr never keeps what it is given.
Inv ==
    /\ os \in [Ostreams -> StreamType]
    /\ \A s \in Ostreams : Sound(os[s])
    /\ os["cerr"].last # "stored"
    /\ InOrder
    /\ Phases

LEMMA Orders ==
    /\ Order \in Seq({"cout", "cin", "cerr", "clog"}) /\ Len(Order) = 4
    /\ Order[1] = "cout" /\ Order[2] = "cin" /\ Order[3] = "cerr" /\ Order[4] = "clog"
  BY DEF Order

LEMMA WhoIsAlive ==
    ASSUME InOrder
    PROVE  /\ IsAlive("cout") <=> Len(alive) >= 1
           /\ IsAlive("cerr") <=> Len(alive) >= 3
           /\ IsAlive("clog") <=> Len(alive) >= 4
  <1>1. DOMAIN alive = 1..Len(alive) /\ Len(alive) \in Nat
    BY DEF InOrder
  <1>2. \A i \in 1..Len(alive) : i \in {1, 2, 3, 4}
    BY <1>1 DEF InOrder
  <1> QED
    BY <1>1, <1>2, Orders DEF InOrder, IsAlive

\* The destructor and flush of one stream, behind the one it is tied to.
LEMMA TieKeeps ==
    ASSUME NEW f \in [Ostreams -> StreamType], \A s \in Ostreams : Sound(f[s]),
           NEW s, NEW ok \in BOOLEAN
    PROVE  LET g == TieFlushed(f, s, ok)
           IN /\ g \in [Ostreams -> StreamType]
              /\ \A t \in Ostreams : Sound(g[t])
              /\ \A t \in Ostreams : t # "cout" => g[t] = f[t]
              /\ g["cout"] = f["cout"] \/ Settled(g["cout"])
              /\ s \in {"cin", "cerr"} /\ (s \in Ostreams => ~f[s].bad) => Settled(g["cout"])
  <1> DEFINE r == Flushed(f["cout"], ok)
  <1>1. Sound(r) /\ Settled(r) /\ r \in StreamType
    BY FlushedIsSound DEF Ostreams, Sound
  <1> HIDE DEF r
  <1>2. TieFlushed(f, s, ok) = f \/ TieFlushed(f, s, ok) = [f EXCEPT !["cout"] = r]
    BY DEF TieFlushed, Tie, Nobody, r
  <1>3. s \in {"cin", "cerr"} /\ (s \in Ostreams => ~f[s].bad) =>
            TieFlushed(f, s, ok) = [f EXCEPT !["cout"] = r]
    BY DEF TieFlushed, Tie, Nobody, r
  <1> DEFINE g == [f EXCEPT !["cout"] = r]
  <1>4. /\ g \in [Ostreams -> StreamType] /\ g["cout"] = r
        /\ \A t \in Ostreams : t # "cout" => g[t] = f[t]
    BY <1>1 DEF Ostreams
  <1>5. \A t \in Ostreams : Sound(g[t])
    <2> HIDE DEF g
    <2> QED
      BY <1>1, <1>4
  <1> HIDE DEF g
  <1>6. /\ TieFlushed(f, s, ok) = f \/ TieFlushed(f, s, ok) = g
        /\ s \in {"cin", "cerr"} /\ (s \in Ostreams => ~f[s].bad) => TieFlushed(f, s, ok) = g
    BY <1>2, <1>3, Zenon DEF g
  <1> QED
    BY <1>1, <1>4, <1>5, <1>6
\* An operation on one stream, whatever it leaves in it.
LEMMA OneStream ==
    ASSUME NEW f \in [Ostreams -> StreamType], \A t \in Ostreams : Sound(f[t]),
           f["cerr"].last # "stored",
           NEW s \in Ostreams, ~f[s].bad, NEW tied \in BOOLEAN,
           NEW r, Sound(r), s = "cerr" => r.last # "stored"
    PROVE  LET g == [TieFlushed(f, s, tied) EXCEPT ![s] = r]
           IN /\ g \in [Ostreams -> StreamType]
              /\ \A t \in Ostreams : Sound(g[t])
              /\ g["cerr"].last # "stored"
              /\ g["cerr"].shown # f["cerr"].shown => Settled(g["cout"])
              /\ g[s] = r
              /\ \A t \in Ostreams \ {s} : Settled(f[t]) => Settled(g[t])
  <1> DEFINE h == TieFlushed(f, s, tied)
             g == [h EXCEPT ![s] = r]
  <1>1. /\ h \in [Ostreams -> StreamType]
        /\ \A t \in Ostreams : Sound(h[t])
        /\ \A t \in Ostreams : t # "cout" => h[t] = f[t]
        /\ h["cout"] = f["cout"] \/ Settled(h["cout"])
        /\ s = "cerr" => Settled(h["cout"])
    BY TieKeeps
  <1> HIDE DEF h
  <1>2. r \in StreamType
    BY DEF Sound
  <1>3. /\ g \in [Ostreams -> StreamType] /\ g[s] = r
        /\ \A t \in Ostreams : t # s => g[t] = h[t]
    BY <1>1, <1>2
  <1> HIDE DEF g
  <1>4. \A t \in Ostreams : Sound(g[t])
    BY <1>1, <1>3
  <1>5. "cout" \in Ostreams /\ "cerr" \in Ostreams /\ "cout" # "cerr"
    BY DEF Ostreams
  <1>6. g["cerr"].last # "stored"
    <2>1. CASE s = "cerr"
      BY <1>3, <2>1
    <2>2. CASE s # "cerr"
      BY <1>1, <1>3, <1>5, <2>2
    <2> QED
      BY <2>1, <2>2
  <1>7. g["cerr"].shown # f["cerr"].shown => Settled(g["cout"])
    <2>1. CASE s = "cerr"
      BY <1>1, <1>3, <1>5, <2>1
    <2>2. CASE s # "cerr"
      BY <1>1, <1>3, <1>5, <2>2
    <2> QED
      BY <2>1, <2>2
  <1>8. ASSUME NEW t \in Ostreams \ {s}, Settled(f[t])
        PROVE  Settled(g[t])
    <2>1. g[t] = h[t]
      BY <1>3
    <2>2. h[t] = f[t] \/ Settled(h[t])
      BY <1>1
    <2> QED
      BY <1>8, <2>1, <2>2, Zenon
  <1> QED
    BY <1>3, <1>4, <1>6, <1>7, <1>8 DEF g, h

\* What every step sees to: when cin waits or cerr shows something, cout has shown what it has.
Leads ==
    (event' = "cin" /\ phase' = "running") \/ os'["cerr"].shown # os["cerr"].shown =>
        Settled(os'["cout"])

LEMMA PutKeeps ==
    ASSUME Inv, NEW s \in Ostreams, NEW c \in Chars[s], Put(s, c)
    PROVE  Inv' /\ Leads
  <1>1. /\ os \in [Ostreams -> StreamType] /\ \A t \in Ostreams : Sound(os[t])
        /\ os["cerr"].last # "stored" /\ InOrder /\ Phases
    BY DEF Inv
  <1>2. phase = "running" /\ ~os[s].bad /\ event' = s /\ phase' = phase /\ alive' = alive
    BY DEF Put
  <1>3. PICK tied \in BOOLEAN, own \in BOOLEAN, unit \in BOOLEAN :
            os' = UnitFlushed([TieFlushed(os, s, tied) EXCEPT ![s] = PutInto(@, c, own)], s, unit)
    BY DEF Put
  <1> DEFINE h == TieFlushed(os, s, tied)
             p == PutInto(h[s], c, own)
             r == IF Unitbuf(s) THEN Flushed(p, unit) ELSE p
  <1>4. c \in Bytes
    BY CharsAssumption
  <1>5. h \in [Ostreams -> StreamType] /\ Sound(h[s])
    BY <1>1, TieKeeps
  <1> HIDE DEF h
  <1>6. Sound(p)
    BY <1>4, <1>5, PutIsSound
  <1> HIDE DEF p
  <1>7. Sound(r) /\ (s = "cerr" => r.last # "stored")
    <2>1. CASE Unitbuf(s)
      <3>1. Sound(Flushed(p, unit)) /\ Flushed(p, unit).last \in {"flushed", "failed"}
        BY <1>6, FlushedIsSound
      <3> QED
        BY <2>1, <3>1
    <2>2. CASE ~Unitbuf(s)
      BY <1>6, <2>2 DEF Unitbuf
    <2> QED
      BY <2>1, <2>2
  <1>8. os' = [h EXCEPT ![s] = r]
    <2>1. os' = UnitFlushed([h EXCEPT ![s] = p], s, unit)
      BY <1>3 DEF h, p
    <2> DEFINE m == [h EXCEPT ![s] = p]
    <2>2. m[s] = p
      BY <1>5
    <2>3. CASE Unitbuf(s)
      <3>1. os' = [m EXCEPT ![s] = Flushed(m[s], unit)]
        BY <2>1, <2>3 DEF UnitFlushed
      <3>2. os' = [m EXCEPT ![s] = r]
        <4> HIDE DEF m
        <4> QED
          BY <2>2, <2>3, <3>1
      <3> HIDE DEF r
      <3> QED
        BY <1>5, <3>2
    <2>4. CASE ~Unitbuf(s)
      BY <2>1, <2>4 DEF UnitFlushed
    <2> QED
      BY <2>3, <2>4
  <1> HIDE DEF r
  <1>9. /\ os' \in [Ostreams -> StreamType] /\ \A t \in Ostreams : Sound(os'[t])
        /\ os'["cerr"].last # "stored"
        /\ os'["cerr"].shown # os["cerr"].shown => Settled(os'["cout"])
    <2>1. os' = [TieFlushed(os, s, tied) EXCEPT ![s] = r]
      BY <1>8, Zenon DEF h
    <2>2. ~os[s].bad /\ Sound(r) /\ (s = "cerr" => r.last # "stored")
      BY <1>2, <1>7
    <2> DEFINE g == [TieFlushed(os, s, tied) EXCEPT ![s] = r]
    <2>3. /\ g \in [Ostreams -> StreamType] /\ \A t \in Ostreams : Sound(g[t])
          /\ g["cerr"].last # "stored"
          /\ g["cerr"].shown # os["cerr"].shown => Settled(g["cout"])
      BY <1>1, <2>2, OneStream
    <2> HIDE DEF g
    <2> QED
      BY <2>1, <2>3 DEF g
  <1>10. s # "cin" /\ s \in Ostreams
    BY DEF Ostreams
  <1>11. InOrder' /\ Phases'
    BY <1>1, <1>2, <1>10 DEF InOrder, Phases
  <1> QED
    BY <1>2, <1>9, <1>10, <1>11 DEF Inv, Leads

LEMMA FlushKeeps ==
    ASSUME Inv, NEW s \in Ostreams, Flush(s)
    PROVE  Inv' /\ Leads
  <1>1. /\ os \in [Ostreams -> StreamType] /\ \A t \in Ostreams : Sound(os[t])
        /\ os["cerr"].last # "stored" /\ InOrder /\ Phases
    BY DEF Inv
  <1>2. phase = "running" /\ ~os[s].bad /\ event' = s /\ phase' = phase /\ alive' = alive
    BY DEF Flush
  <1>3. PICK tied \in BOOLEAN, own \in BOOLEAN :
            os' = [TieFlushed(os, s, tied) EXCEPT ![s] = Flushed(TieFlushed(os, s, tied)[s], own)]
    BY DEF Flush
  <1> DEFINE h == TieFlushed(os, s, tied)
             r == Flushed(h[s], own)
  <1>4. Sound(h[s])
    BY <1>1, TieKeeps
  <1> HIDE DEF h
  <1>5. Sound(r) /\ r.last # "stored"
    BY <1>4, FlushedIsSound
  <1>6. os' = [h EXCEPT ![s] = r]
    BY <1>3 DEF h
  <1> HIDE DEF r
  <1>7. /\ os' \in [Ostreams -> StreamType] /\ \A t \in Ostreams : Sound(os'[t])
        /\ os'["cerr"].last # "stored"
        /\ os'["cerr"].shown # os["cerr"].shown => Settled(os'["cout"])
    BY <1>1, <1>2, <1>5, <1>6, OneStream DEF h
  <1>8. s # "cin" /\ s \in Ostreams
    BY DEF Ostreams
  <1>9. InOrder' /\ Phases'
    BY <1>1, <1>2, <1>8 DEF InOrder, Phases
  <1> QED
    BY <1>2, <1>7, <1>8, <1>9 DEF Inv, Leads
LEMMA ClearKeeps ==
    ASSUME Inv, NEW s \in Ostreams, Clear(s)
    PROVE  Inv' /\ Leads
  <1>1. /\ os \in [Ostreams -> StreamType] /\ \A t \in Ostreams : Sound(os[t])
        /\ os["cerr"].last # "stored" /\ InOrder /\ Phases
    BY DEF Inv
  <1>2. /\ phase = "running" /\ phase' = phase /\ alive' = alive /\ event' = event
        /\ os[s].bad /\ os' = [os EXCEPT ![s].bad = FALSE]
    BY DEF Clear
  <1> DEFINE l == os[s].last
             r == [os[s] EXCEPT !.bad = FALSE, !.last = l]
  <1>3. os[s] \in StreamType /\ Sound(os[s])
    BY <1>1
  <1>4. l \in {"none", "stored", "flushed", "failed"}
    BY <1>3 DEF StreamType
  <1>5. Sound(r) /\ r.put = os[s].put /\ r.shown = os[s].shown /\ r.last = l
    <2> HIDE DEF l
    <2>1. FALSE \in BOOLEAN /\ (FALSE => l = "failed") /\ l \in {l, "failed"}
      OBVIOUS
    <2> QED
      BY <1>3, <1>4, <2>1, Marked DEF l
  <1>6. r = [os[s] EXCEPT !.bad = FALSE]
    BY <1>3 DEF StreamType
  <1>7. os' = [os EXCEPT ![s] = r]
    BY <1>2, <1>6
  <1> HIDE DEF r
  <1>8. /\ os'[s] = r /\ r \in StreamType /\ os' \in [Ostreams -> StreamType]
        /\ \A t \in Ostreams : t # s => os'[t] = os[t]
    BY <1>1, <1>5, <1>7 DEF Sound
  <1>9. \A t \in Ostreams : os'[t].last = os[t].last /\ os'[t].shown = os[t].shown
                            /\ os'[t].put = os[t].put
    BY <1>5, <1>8 DEF l
  <1>10. \A t \in Ostreams : Sound(os'[t])
    BY <1>1, <1>5, <1>8
  <1>11. \A t \in Ostreams : Settled(os[t]) => Settled(os'[t])
    BY <1>9 DEF Settled, AllShown
  <1>12. "cerr" \in Ostreams /\ "cout" \in Ostreams
    BY DEF Ostreams
  <1>13. os'["cerr"].last # "stored" /\ os'["cerr"].shown = os["cerr"].shown
    BY <1>1, <1>9, <1>12
  <1>14. event' = "cin" => Settled(os'["cout"])
    BY <1>1, <1>2, <1>11, <1>12 DEF Phases
  <1>15. InOrder' /\ Phases'
    BY <1>1, <1>2, <1>14 DEF InOrder, Phases
  <1> QED
    BY <1>8, <1>10, <1>13, <1>14, <1>15 DEF Inv, Leads

LEMMA InputKeeps ==
    ASSUME Inv, Input
    PROVE  Inv' /\ Leads
  <1>1. /\ os \in [Ostreams -> StreamType] /\ \A t \in Ostreams : Sound(os[t])
        /\ os["cerr"].last # "stored" /\ InOrder /\ Phases
    BY DEF Inv
  <1>2. phase = "running" /\ phase' = phase /\ alive' = alive /\ event' = "cin"
    BY DEF Input
  <1>3. PICK tied \in BOOLEAN : os' = TieFlushed(os, "cin", tied)
    BY DEF Input
  <1>4. "cin" \notin Ostreams /\ "cerr" \in Ostreams /\ "cerr" # "cout"
    BY DEF Ostreams
  <1>5. /\ os' \in [Ostreams -> StreamType] /\ \A t \in Ostreams : Sound(os'[t])
        /\ os'["cerr"] = os["cerr"] /\ Settled(os'["cout"])
    BY <1>1, <1>3, <1>4, TieKeeps
  <1>6. InOrder' /\ Phases'
    BY <1>1, <1>2, <1>5 DEF InOrder, Phases
  <1> QED
    BY <1>1, <1>5, <1>6 DEF Inv, Leads

LEMMA ConstructKeeps ==
    ASSUME Inv, Construct
    PROVE  Inv' /\ Leads
  <1>1. /\ os \in [Ostreams -> StreamType] /\ \A t \in Ostreams : Sound(os[t])
        /\ os["cerr"].last # "stored" /\ InOrder /\ Phases
    BY DEF Inv
  <1> DEFINE n == Len(alive)
  <1>2. /\ alive \in Seq({"cout", "cin", "cerr", "clog"}) /\ n \in Nat /\ n < 4
        /\ \A i \in 1..n : alive[i] = Order[i]
    BY <1>1 DEF InOrder, Phases, Construct
  <1>3. /\ phase = "starting" /\ alive' = Append(alive, Order[n + 1])
        /\ phase' = (IF Len(alive') = 4 THEN "running" ELSE "starting")
        /\ os' = os /\ event' = event /\ event = Nobody
    BY <1>1, Orders DEF Construct, Phases
  <1>4. n + 1 \in {1, 2, 3, 4}
    BY <1>2
  <1>5. Order[n + 1] \in {"cout", "cin", "cerr", "clog"}
    BY <1>4, Orders
  <1>6. /\ alive' \in Seq({"cout", "cin", "cerr", "clog"}) /\ Len(alive') = n + 1
        /\ \A i \in 1..n : alive'[i] = alive[i]
        /\ alive'[n + 1] = Order[n + 1]
    <2> DEFINE o == Order[n + 1]
    <2> HIDE DEF o
    <2> QED
      BY <1>2, <1>3, <1>5 DEF o
  <1>7. InOrder'
    <2>1. \A i \in 1..(n + 1) : alive'[i] = Order[i]
      BY <1>2, <1>6
    <2> QED
      BY <1>2, <1>6, <2>1 DEF InOrder
  <1>8. Phases'
    BY <1>2, <1>3, <1>6 DEF Phases, Nobody
  <1> QED
    BY <1>1, <1>3, <1>7, <1>8 DEF Inv, Leads, Nobody

LEMMA DestroyKeeps ==
    ASSUME Inv, Destroy
    PROVE  Inv' /\ Leads
  <1>1. /\ os \in [Ostreams -> StreamType] /\ \A t \in Ostreams : Sound(os[t])
        /\ os["cerr"].last # "stored" /\ InOrder /\ Phases
    BY DEF Inv
  <1> DEFINE n == Len(alive)
             s == alive[n]
  <1>2. /\ alive \in Seq({"cout", "cin", "cerr", "clog"}) /\ n \in 1..4
        /\ \A i \in 1..n : alive[i] = Order[i]
    <2>1. /\ alive \in Seq({"cout", "cin", "cerr", "clog"}) /\ n <= 4 /\ alive # <<>>
          /\ \A i \in 1..n : alive[i] = Order[i]
      BY <1>1 DEF InOrder, Destroy
    <2>2. n \in Nat /\ n # 0
      BY <2>1
    <2>3. n \in 1..4
      <3>1. n \in Nat /\ n # 0 /\ n <= 4
        BY <2>1, <2>2
      <3> HIDE DEF n
      <3> QED
        BY <3>1
    <2> QED
      BY <2>1, <2>3
  <1>3. PICK tied \in BOOLEAN, own \in BOOLEAN : os' = Finished(s, tied, own)
    BY DEF Destroy
  <1>4. /\ phase \in {"running", "exiting"} /\ phase' = "exiting"
        /\ alive' = SubSeq(alive, 1, n - 1)
    BY DEF Destroy
  <1>5. /\ alive' \in Seq({"cout", "cin", "cerr", "clog"}) /\ Len(alive') = n - 1
        /\ \A i \in 1..(n - 1) : alive'[i] = alive[i]
    <2> DEFINE m == n - 1
    <2>1. m \in 0..n
      <3>1. n \in Nat /\ n >= 1
        BY <1>2
      <3> HIDE DEF n
      <3> QED
        BY <3>1
    <2> HIDE DEF m
    <2>2. alive' = SubSeq(alive, 1, m)
      BY <1>4 DEF m
    <2> DEFINE x == SubSeq(alive, 1, m)
    <2>3. /\ x \in Seq({"cout", "cin", "cerr", "clog"}) /\ Len(x) = m
          /\ \A i \in 1..m : x[i] = alive[i]
      BY <1>2, <2>1
    <2> HIDE DEF x
    <2>4. alive' = x
      BY <2>2 DEF x
    <2> QED
      BY <2>3, <2>4, Zenon DEF m
  <1>6. InOrder'
    BY <1>2, <1>5 DEF InOrder
  <1>7. \A t \in Ostreams : IsAlive(t) => t = s \/ IsAlive(t)'
    <2> SUFFICES ASSUME NEW t \in Ostreams, NEW i \in DOMAIN alive, alive[i] = t, t # s
                 PROVE  IsAlive(t)'
      BY DEF IsAlive
    <2>1. i \in 1..(n - 1)
      BY <1>2
    <2>2. i \in DOMAIN alive' /\ alive'[i] = t
      BY <1>5, <2>1
    <2> QED
      BY <2>2 DEF IsAlive
  <1>8. \A t \in Ostreams : IsAlive(t) \/ Settled(os[t])
    <2>1. CASE phase = "running"
      <3>1. n = 4
        BY <1>1, <2>1 DEF Phases
      <3> QED
        BY <1>1, <3>1, WhoIsAlive DEF Ostreams
    <2>2. CASE phase = "exiting"
      BY <1>1, <2>2 DEF Phases
    <2> QED
      BY <1>4, <2>1, <2>2
  <1> HIDE DEF s
  <1>9. /\ os' \in [Ostreams -> StreamType] /\ \A t \in Ostreams : Sound(os'[t])
        /\ os'["cerr"].last # "stored"
        /\ os'["cerr"].shown # os["cerr"].shown => Settled(os'["cout"])
        /\ s \in Ostreams => Settled(os'[s])
        /\ \A t \in Ostreams \ {s} : Settled(os[t]) => Settled(os'[t])
    <2>1. CASE s \notin Ostreams \/ os[s].bad
      <3>1. os' = os
        BY <1>3, <2>1 DEF Finished
      <3>2. s \in Ostreams => Settled(os[s])
        BY <1>1, <2>1 DEF Sound, Settled
      <3> QED
        BY <1>1, <3>1, <3>2
    <2>2. CASE s \in Ostreams /\ ~os[s].bad
      <3> DEFINE h == TieFlushed(os, s, tied)
                 r == Flushed(h[s], own)
      <3>1. Sound(h[s])
        BY <1>1, <2>2, TieKeeps
      <3>2. os' = [h EXCEPT ![s] = r]
        BY <1>3, <2>2 DEF Finished
      <3> HIDE DEF h
      <3>3. Sound(r) /\ Settled(r) /\ r.last # "stored"
        BY <3>1, FlushedIsSound
      <3> HIDE DEF r
      <3>4. os' = [TieFlushed(os, s, tied) EXCEPT ![s] = r]
        BY <3>2, Zenon DEF h
      <3> QED
        BY <1>1, <2>2, <3>3, <3>4, OneStream
    <2> QED
      BY <2>1, <2>2
  <1>10. \A t \in Ostreams : IsAlive(t)' \/ Settled(os'[t])
    BY <1>7, <1>8, <1>9
  <1>11. Phases'
    BY <1>4, <1>10 DEF Phases
  <1> QED
    BY <1>4, <1>6, <1>9, <1>11 DEF Inv, Leads

\* Every step of the program keeps the invariant, and shows what is to be seen first.
LEMMA NextKeeps == Inv /\ [Next]_vars => Inv' /\ (Leads \/ UNCHANGED vars)
  <1> SUFFICES ASSUME Inv, [Next]_vars PROVE Inv' /\ (Leads \/ UNCHANGED vars)
    OBVIOUS
  <1>1. CASE Construct
    BY <1>1, ConstructKeeps
  <1>2. CASE Input
    BY <1>2, InputKeeps
  <1>3. CASE Destroy
    BY <1>3, DestroyKeeps
  <1>4. ASSUME NEW s \in Ostreams, Flush(s) \/ Clear(s) \/ \E c \in Chars[s] : Put(s, c)
        PROVE  Inv' /\ Leads
    BY <1>4, FlushKeeps, ClearKeeps, PutKeeps
  <1>5. CASE UNCHANGED vars
    <2>1. os' = os /\ phase' = phase /\ alive' = alive /\ event' = event
      BY <1>5 DEF vars
    <2>2. InOrder' /\ Phases'
      BY <2>1 DEF Inv, InOrder, Phases, IsAlive
    <2> QED
      BY <1>5, <2>1, <2>2 DEF Inv
  <1> QED
    BY <1>1, <1>2, <1>3, <1>4, <1>5 DEF Next

LEMMA Starts == Init => Inv
  <1> SUFFICES ASSUME Init PROVE Inv
    OBVIOUS
  <1>1. Text(<<>>) = <<>> /\ <<>> \in Seq(Bytes) /\ <<>> \in Seq(Units(Wide)) /\ Len(<<>>) = 0
    BY TextOfNothing
  <1>2. NewStream \in StreamType
    BY <1>1 DEF NewStream, StreamType
  <1>3. Keeps(<<>>, <<>>, <<>>)
    <2>1. ASSUME NEW x \in Seq(Bytes)
          PROVE  Text(<<>> \o x) = <<>> \o Text(<<>> \o x)
      <3>1. <<>> \o x \in Seq(Bytes)
        BY <1>1
      <3>2. Text(<<>> \o x) \in Seq(Units(Wide))
        BY <3>1, TextType
      <3> DEFINE t == Text(<<>> \o x)
      <3> HIDE DEF t
      <3>3. t \in Seq(Units(Wide)) => t = <<>> \o t
        OBVIOUS
      <3> QED
        BY <3>2, <3>3 DEF t
    <2> QED
      BY <2>1 DEF Keeps
  <1>4. EndsWith(<<>>, <<>>)
    <2>1. After(<<>>, 0) = <<>> /\ 0 \in 0..Len(<<>>)
      BY DEF After
    <2> QED
      BY <2>1, Zenon DEF EndsWith
  <1>5. Sound(NewStream)
    <2>1. /\ NewStream.put = <<>> /\ NewStream.shown = <<>> /\ NewStream.buffer = <<>>
          /\ NewStream.last = "none" /\ NewStream.bad = FALSE
      BY DEF NewStream
    <2> QED
      BY <1>2, <1>3, <1>4, <2>1 DEF Sound
  <1>6. /\ os \in [Ostreams -> StreamType] /\ \A s \in Ostreams : Sound(os[s])
        /\ os["cerr"] = NewStream
    BY <1>2, <1>5 DEF Init, Ostreams
  <1>7. os["cerr"].last # "stored"
    BY <1>6 DEF NewStream
  <1>8. InOrder /\ Phases
    BY DEF Init, InOrder, Phases
  <1> QED
    BY <1>6, <1>7, <1>8 DEF Inv

LEMMA Invariant == Spec => []Inv
  <1> QED
    BY Starts, NextKeeps, PTL DEF Spec
----------------------------------------------------------------------------
\* What a reader of the console may rely on.

\* However the puts, flushes and failed writes cut the bytes into pieces, the console has shown
\* and will show what converting them at once would show, for any buffer size and width of
\* wchar_t (the leftover that overflow moves to the front of the buffer).
THEOREM CutsDoNotShow == Spec => []ChunkIndependent
  <1>1. Inv => ChunkIndependent
    <2> SUFFICES ASSUME Inv, NEW s \in Ostreams
                 PROVE  LET r == os[s]
                        IN /\ r.buffer = After(r.put, Len(r.put) - Len(r.buffer))
                           /\ Recode(r.put) = r.shown \o Recode(r.buffer)
      BY DEF ChunkIndependent
    <2> DEFINE p == os[s].put
               b == os[s].buffer
               v == os[s].shown
    <2>1. Sound(os[s])
      BY DEF Inv
    <2>2. os[s] \in StreamType
      BY <2>1 DEF Sound
    <2>3. /\ p \in Seq(Bytes) /\ b \in Seq(Bytes) /\ v \in Seq(Units(Wide))
          /\ Keeps(p, v, b) /\ EndsWith(p, b)
      BY <2>1, <2>2, Fields DEF Sound
    <2> HIDE DEF p, b, v
    <2>4. PICK q \in 0..Len(p) : b = After(p, q)
      BY <2>3 DEF EndsWith
    <2>5. Len(b) = Len(p) - q
      BY <2>3, <2>4, RestOfText
    <2>6. Len(p) - Len(b) = q
      <3>1. Len(p) \in Nat /\ q \in Nat
        BY <2>3, <2>4
      <3> QED
        BY <2>5, <3>1
    <2>7. b = After(p, Len(p) - Len(b))
      BY <2>4, <2>6, Zenon
    <2>8. Recode(p) = v \o Recode(b)
      BY <2>3, KeepsSays, RecodeIsText
    <2> QED
      BY <2>7, <2>8 DEF p, b, v
  <1> QED
    BY <1>1, Invariant, PTL

\* A successful flush, and every output to cerr that succeeds, shows all of the whole characters;
\* what stays in the buffer is the beginning of one (sync, overflow, write, unitbuf).
THEOREM FlushShows == Spec => []FlushedIsShown
  <1>1. Inv => FlushedIsShown
    <2> SUFFICES ASSUME Inv, NEW s \in Ostreams,
                        os[s].last = "flushed" \/ (s = "cerr" /\ os[s].last # "failed")
                 PROVE  AllShown(os[s]) /\ Len(os[s].buffer) < 4
      BY DEF FlushedIsShown
    <2>1. Sound(os[s]) /\ os[s] \in StreamType /\ (s = "cerr" => os[s].last # "stored")
      BY DEF Inv, Sound
    <2>2. os[s].last = "flushed" \/ os[s].last = "none"
      BY <2>1 DEF StreamType
    <2> QED
      BY <2>1, <2>2, FlushedSettles
  <1> QED
    BY <1>1, Invariant, PTL

\* When the last stream has been destroyed, everything has been shown but for a stream whose last
\* write failed (~winconsole_ostream, before the stream it is tied to).
THEOREM EverythingIsShownInTheEnd == Spec => []EndsShown
  <1>1. Inv => EndsShown
    <2> SUFFICES ASSUME Inv, phase = "exiting", alive = <<>>, NEW s \in Ostreams
                 PROVE  AllShown(os[s]) \/ os[s].last = "failed"
      BY DEF EndsShown
    <2>1. ~IsAlive(s)
      BY DEF IsAlive
    <2> QED
      BY <2>1 DEF Inv, Phases, Settled
  <1> QED
    BY <1>1, Invariant, PTL

\* What was put into cout can be read when cin waits for the user and before cerr shows anything,
\* or the last attempt to show it failed (the sentry's flush of the tied stream).
THEOREM PromptsComeFirst == Spec => OutputComesFirst
  <1>1. Inv /\ [Next]_vars =>
          [(event' = "cin" /\ phase' = "running") \/ os'["cerr"].shown # os["cerr"].shown =>
              AllShown(os'["cout"]) \/ os'["cout"].last = "failed"]_vars
    BY NextKeeps DEF Leads, Settled
  <1> QED
    BY <1>1, Invariant, PTL DEF Spec, OutputComesFirst

\* cin, cerr and clog never flush a stream that does not exist yet or any more: the order of the
\* definitions in iostream.cpp is right for construction, use and destruction.
THEOREM TiesAreSafe == Spec => TiedIsAlive
  <1>1. Inv /\ [Next]_vars =>
          [event' # Nobody /\ Tie(event') # Nobody => IsAlive(Tie(event'))]_vars
    <2> SUFFICES ASSUME Inv, Next, event' # Nobody, Tie(event') # Nobody
                 PROVE  IsAlive(Tie(event'))
      OBVIOUS
    <2>1. Tie(event') = "cout"
      BY DEF Tie
    <2>2. InOrder /\ Phases
      BY DEF Inv
    <2>3. phase # "starting"
      <3> SUFFICES ASSUME phase = "starting" PROVE FALSE
        OBVIOUS
      <3>1. event = Nobody
        BY <2>2 DEF Phases
      <3> QED
        BY <3>1 DEF Next, Construct, Input, Destroy, Flush, Clear, Put
    <2>4. alive # <<>> \/ Len(alive) = 4
      <3>1. CASE phase = "running"
        BY <2>2, <3>1 DEF Phases
      <3>2. CASE phase = "exiting"
        BY <3>2 DEF Next, Construct, Input, Destroy, Flush, Clear, Put
      <3> QED
        BY <2>2, <2>3, <3>1, <3>2 DEF Phases
    <2>5. Len(alive) >= 1
      BY <2>2, <2>4 DEF InOrder
    <2> QED
      BY <2>1, <2>2, <2>5, WhoIsAlive
  <1> QED
    BY <1>1, Invariant, PTL DEF Spec, TiedIsAlive
----------------------------------------------------------------------------
\* The streambuf below cin.

\* What a code point typed is read as.
Reads == [c \in CodePoints |-> IF c = 13 THEN <<>> ELSE Encode(8, c)]

\* One step of the recursion in ScanInput.
ReadAt(s, t, k) ==
    LET d == Decode(Wide, After(s, k))
        c == Repaired(d.cp)
    IN IF d.cp = Incomplete THEN [bytes |-> <<>>, used |-> k]
       ELSE [t[k + d.used] EXCEPT !.bytes = (IF c = CR THEN <<>> ELSE Encode(8, c)) \o @]
ReadTable(s, t) == [k \in 0..Len(s) |-> ReadAt(s, t, k)]

LEMMA ReadsBytes == Reads \in [CodePoints -> Seq(Bytes)]
  <1>1. \A c \in CodePoints : Encode(8, c) \in Seq(Bytes)
    <2>1. \A c \in CodePoints : Encode(8, c) \in Seq(Units(8))
      BY ShowsUnits, EncodeHasItsWidth
    <2> QED
      BY <2>1, ShowsUnits
  <1> QED
    BY <1>1 DEF Reads

LEMMA ReadAtWalk ==
    ASSUME NEW s \in Seq(Units(Wide)), NEW y, NEW z, Walks(Wide, Reads, s, y, z), NEW t,
           NEW k \in 0..Len(s),
           ~Stays(Wide, s, k) => t[k + Decode(Wide, After(s, k)).used] =
                                 [bytes |-> y[k + Decode(Wide, After(s, k)).used],
                                  used |-> z[k + Decode(Wide, After(s, k)).used]]
    PROVE  ReadAt(s, t, k) = [bytes |-> y[k], used |-> z[k]]
  <1> DEFINE d == Decode(Wide, After(s, k))
             m == k + d.used
             x == IF Repaired(d.cp) = 13 THEN <<>> ELSE Encode(8, Repaired(d.cp))
  <1>1. Stays(Wide, s, k) <=> d.cp = Incomplete
    BY DEF Stays
  <1>2. ReadAt(s, t, k) = IF d.cp = Incomplete THEN [bytes |-> <<>>, used |-> k]
                          ELSE [t[m] EXCEPT !.bytes = x \o @]
    <2> DEFINE e == Decode(Wide, After(s, k))
               q == Repaired(e.cp)
               o == IF q = CR THEN <<>> ELSE Encode(8, q)
    <2>1. ReadAt(s, t, k) = IF e.cp = Incomplete THEN [bytes |-> <<>>, used |-> k]
                            ELSE [t[k + e.used] EXCEPT !.bytes = o \o @]
      BY DEF ReadAt
    <2>2. e = d
      OBVIOUS
    <2> HIDE DEF e, d
    <2>3. q = Repaired(d.cp) /\ Encode(8, q) = Encode(8, q) /\ CR = 13
      BY <2>2, Zenon DEF CR
    <2> HIDE DEF q
    <2>4. o = x
      BY <2>3, Zenon
    <2> HIDE DEF o, x
    <2> QED
      BY <2>1, <2>2, <2>4, Zenon
  <1>3. CASE Stays(Wide, s, k)
    <2>1. y[k] = <<>> /\ z[k] = k
      BY <1>3, Zenon DEF Walks, WalksAt
    <2> QED
      BY <1>1, <1>3, <1>2, <2>1, Zenon
  <1>4. CASE ~Stays(Wide, s, k)
    <2>1. y[k] = Reads[Repaired(d.cp)] \o y[m] /\ z[k] = z[m]
      BY <1>4, Zenon DEF Walks, WalksAt
    <2>2. Reads[Repaired(d.cp)] = x
      <3>1. Repaired(d.cp) \in CodePoints
        BY <1>4, ShowsUnits, OneCharacter
      <3> HIDE DEF d
      <3> QED
        BY <3>1 DEF Reads, d
    <2>3. ReadAt(s, t, k) = [t[m] EXCEPT !.bytes = x \o @]
      BY <1>1, <1>4, <1>2, Zenon
    <2>4. t[m] = [bytes |-> y[m], used |-> z[m]]
      BY <1>4
    <2> HIDE DEF d, m, x
    <2>5. [t[m] EXCEPT !.bytes = x \o @] = [bytes |-> x \o y[m], used |-> z[m]]
      <3> DEFINE r == t[m]
                 a == y[m]
                 b == z[m]
                 c == x \o a
      <3>1. r = [bytes |-> a, used |-> b]
        BY <2>4, Zenon
      <3> HIDE DEF r, a, b
      <3>2. r.bytes = a
        BY <3>1
      <3>3. [r EXCEPT !.bytes = x \o @] = [r EXCEPT !.bytes = c]
        BY <3>2, Zenon
      <3> HIDE DEF c
      <3>4. [r EXCEPT !.bytes = c] = [bytes |-> c, used |-> b]
        BY <3>1
      <3> QED
        BY <3>3, <3>4, Zenon DEF r, a, b, c
    <2> QED
      BY <2>1, <2>2, <2>3, <2>5, Zenon
  <1> QED
    BY <1>3, <1>4

LEMMA ReadIsWalk ==
    ASSUME NEW s \in Seq(Units(Wide))
    PROVE  \E y, z : Walks(Wide, Reads, s, y, z) /\ ScanInput(s) = [bytes |-> y[0], used |-> z[0]]
  <1> DEFINE n == Len(s)
             f == CHOOSE t : t = ReadTable(s, t)
  <1>1. PICK y, z : Walks(Wide, Reads, s, y, z)
    BY ShowsUnits, WalksExist
  <1> DEFINE p == [k \in 0..n |-> [bytes |-> y[k], used |-> z[k]]]
  <1>2. n \in Nat
    OBVIOUS
  <1>3. ASSUME NEW k \in 0..n, ~Stays(Wide, s, k)
        PROVE  k + Decode(Wide, After(s, k)).used \in (k + 1)..n
    BY <1>3, ShowsUnits, OneCharacter
  <1>4. \A k \in 0..n : ReadAt(s, p, k) = p[k]
    <2> SUFFICES ASSUME NEW k \in 0..n PROVE ReadAt(s, p, k) = p[k]
      OBVIOUS
    <2> DEFINE m == k + Decode(Wide, After(s, k)).used
    <2>1. ~Stays(Wide, s, k) => m \in 0..n
      <3> SUFFICES ASSUME ~Stays(Wide, s, k) PROVE m \in 0..n
        OBVIOUS
      <3>1. m \in (k + 1)..n
        BY <1>3
      <3> HIDE DEF m
      <3> QED
        BY <1>2, <3>1
    <2>2. ~Stays(Wide, s, k) => p[m] = [bytes |-> y[m], used |-> z[m]]
      <3> HIDE DEF m
      <3> QED
        BY <2>1
    <2>3. p[k] = [bytes |-> y[k], used |-> z[k]]
      OBVIOUS
    <2> HIDE DEF p
    <2> QED
      BY <1>1, <2>2, <2>3, ReadAtWalk
  <1>5. f = ReadTable(s, f)
    <2>1. p = ReadTable(s, p)
      <3> DEFINE q == ReadTable(s, p)
      <3>1. q = [k \in 0..n |-> ReadAt(s, p, k)]
        BY DEF ReadTable
      <3>2. p = [k \in 0..n |-> p[k]]
        OBVIOUS
      <3> HIDE DEF p, q
      <3> QED
        BY <1>4, <3>1, <3>2 DEF q
    <2> HIDE DEF p
    <2> QED
      BY <2>1, Zenon
  <1>6. ScanInput(s) = f[0]
    BY DEF ScanInput, ReadTable, ReadAt
  <1> HIDE DEF f
  <1>7. \A k \in 0..n : f[k] = ReadAt(s, f, k)
    BY <1>5, Zenon DEF ReadTable
  <1> DEFINE T == {j \in 0..n : f[n - j] # [bytes |-> y[n - j], used |-> z[n - j]]}
  <1>8. ASSUME T # {} PROVE FALSE
    <2>1. T \in SUBSET Nat
      BY <1>2
    <2>2. PICK j \in T : \A q \in T : j <= q
      BY <1>8, <2>1, LeastNumber
    <2> DEFINE k == n - j
               m == k + Decode(Wide, After(s, k)).used
    <2>3. k \in 0..n /\ j \in Nat /\ f[k] # [bytes |-> y[k], used |-> z[k]]
      BY <1>2, <2>2
    <2>4. ~Stays(Wide, s, k) => f[m] = [bytes |-> y[m], used |-> z[m]]
      <3> SUFFICES ASSUME ~Stays(Wide, s, k) PROVE f[m] = [bytes |-> y[m], used |-> z[m]]
        OBVIOUS
      <3>1. m \in (k + 1)..n
        <4> HIDE DEF k
        <4> QED
          BY <1>3, <2>3
      <3> HIDE DEF m
      <3>2. n - m \in 0..n /\ n - m < j /\ n - (n - m) = m
        BY <1>2, <2>3, <3>1
      <3>3. n - m \notin T
        BY <2>2, <3>2
      <3> HIDE DEF k
      <3> QED
        BY <3>2, <3>3
    <2>5. ReadAt(s, f, k) = [bytes |-> y[k], used |-> z[k]]
      <3> HIDE DEF k
      <3> QED
        BY <1>1, <2>3, <2>4, ReadAtWalk
    <2> HIDE DEF k
    <2> QED
      BY <1>7, <2>3, <2>5, Zenon
  <1>9. f[0] = [bytes |-> y[0], used |-> z[0]]
    <2>1. n \in 0..n /\ n - n = 0 /\ n \notin T
      BY <1>2, <1>8
    <2> HIDE DEF n
    <2> QED
      BY <2>1
  <1> QED
    BY <1>1, <1>6, <1>9, Zenon

\* What the program reads of a text that was typed.
Readable(s) == Into(Wide, Reads, s)

\* read converts the whole characters and keeps at most the first half of one, and it makes no
\* difference to what is read whether what follows was there already.
Continues(s) ==
    LET r == ScanInput(s)
    IN \A x \in Seq(Units(Wide)) : Readable(s \o x) = r.bytes \o Readable(After(s, r.used) \o x)

LEMMA ReadContinues ==
    ASSUME NEW s \in Seq(Units(Wide))
    PROVE  LET r == ScanInput(s)
           IN /\ r.bytes \in Seq(Bytes) /\ r.used \in 0..Len(s)
              /\ After(s, r.used) \in Seq(Units(Wide)) /\ Len(After(s, r.used)) <= 1
              /\ Decode(Wide, After(s, r.used)).cp = Incomplete
              /\ Readable(After(s, r.used)) = <<>>
              /\ Continues(s)
  <1> DEFINE r == ScanInput(s)
             a == After(s, r.used)
  <1>2. PICK y, z : Walks(Wide, Reads, s, y, z) /\ r = [bytes |-> y[0], used |-> z[0]]
    BY ReadIsWalk
  <1>3. r.bytes = y[0] /\ r.used = z[0]
    <2> HIDE DEF r
    <2> QED
      BY <1>2
  <1>4. 0 \in 0..Len(s) /\ After(s, 0) = s /\ Len(s) \in Nat
    BY RestOfText
  <1>5. Scanned(Wide, Reads, Bytes, s, y, z, 0)
    BY <1>2, <1>4, ShowsUnits, ReadsBytes, EveryScanned
  <1> HIDE DEF r
  <1>6. r.bytes \in Seq(Bytes) /\ r.used \in 0..Len(s) /\ Stays(Wide, s, r.used)
    BY <1>3, <1>5, Zenon DEF Scanned
  <1>7. a \in Seq(Units(Wide)) /\ Decode(Wide, a).cp = Incomplete
    <2>1. a \in Seq(Units(Wide))
      <3> DEFINE q == r.used
      <3> HIDE DEF q
      <3>1. q \in 0..Len(s)
        BY <1>6 DEF q
      <3>2. After(s, q) \in Seq(Units(Wide))
        BY <3>1, RestOfText
      <3> QED
        BY <3>2 DEF q
    <2> QED
      BY <1>6, <2>1 DEF Stays
  <1> HIDE DEF a
  <1>8. Len(a) <= 1
    <2>1. /\ Wide = 16 => Len(a) <= 1
          /\ Wide = 32 => Len(a) = 0
      BY <1>7, ShowsUnits, IncompleteIsShort
    <2> QED
      BY <2>1, WideAssumption
  <1>9. Readable(a) = <<>>
    <2>1. Into(Wide, Reads, a) = <<>>
      BY <1>7, ShowsUnits, ReadsBytes, IntoUnfolds
    <2> QED
      BY <2>1 DEF Readable
  <1>10. Continues(s)
    <2>1. \A x \in Seq(Units(Wide)) :
              Into(Wide, Reads, s \o x) = r.bytes \o Into(Wide, Reads, After(s, r.used) \o x)
      BY <1>3, <1>4, <1>5, Zenon DEF Scanned, SplitsAt
    <2> QED
      BY <2>1, Zenon DEF Continues, Readable, r
  <1> QED
    BY <1>6, <1>7, <1>8, <1>9, <1>10 DEF r, a

\* InputText is the conversion character by character.
LEMMA TextIsReadable ==
    ASSUME NEW s \in Seq(Units(Wide))
    PROVE  InputText(s) = Readable(s) /\ Readable(s) \in Seq(Bytes)
  <1> DEFINE r == ScanInput(s)
             a == After(s, r.used)
             u == r.bytes
             x == <<>>
  <1>1. u \in Seq(Bytes) /\ a \in Seq(Units(Wide)) /\ Readable(a) = <<>> /\ Continues(s)
    BY ReadContinues
  <1>2. x \in Seq(Units(Wide))
    OBVIOUS
  <1>3. Readable(s \o x) = u \o Readable(a \o x)
    BY <1>1, <1>2, Zenon DEF Continues
  <1>4. s \o x = s
    OBVIOUS
  <1> HIDE DEF a
  <1>5. a \o x = a
    BY <1>1
  <1> HIDE DEF u
  <1>6. u \o <<>> = u
    BY <1>1
  <1> HIDE DEF x
  <1>7. Readable(s) = u
    BY <1>1, <1>3, <1>4, <1>5, <1>6, Zenon
  <1> QED
    BY <1>1, <1>7 DEF InputText, u

\* What the members hold: the get area is one of the two buffers, characters are put back into an
\* area of their own, and at most the first half of a surrogate pair is kept between two reads.
Members ==
    /\ typed \in Seq(Units(Wide)) /\ pending \in Seq(Units(Wide)) /\ Len(pending) <= 1
    /\ buffer \in Seq(Bytes) /\ pback \in Seq(Bytes) /\ due \in Seq(Bytes)
    /\ where \in {"none", "buffer", "pback"} /\ gptr \in 0..Len(Area)
    /\ where # "pback" => pback = <<>>

InputInv == Members /\ ReadsWhatIsDue

\* ReadsWhatIsDue in terms of Readable.
LEMMA DueIs ==
    ASSUME Members
    PROVE  /\ Area \in Seq(Bytes) /\ Rest = After(Area, gptr) /\ Rest \in Seq(Bytes)
           /\ pending \o typed \in Seq(Units(Wide))
           /\ Readable(pending \o typed) \in Seq(Bytes)
           /\ ReadsWhatIsDue <=> Rest \o Readable(pending \o typed) = due
  <1>1. Area \in Seq(Bytes)
    BY DEF Members, Area
  <1>2. Rest = After(Area, gptr)
    BY Zenon DEF Rest
  <1>3. gptr \in 0..Len(Area)
    BY DEF Members
  <1>4. After(Area, gptr) \in Seq(Bytes)
    BY <1>1, <1>3, RestOfText
  <1>5. typed \in Seq(Units(Wide)) /\ pending \in Seq(Units(Wide))
    BY DEF Members
  <1>6. pending \o typed \in Seq(Units(Wide))
    BY <1>5
  <1>7. InputText(pending \o typed) = Readable(pending \o typed) /\ Readable(pending \o typed) \in Seq(Bytes)
    BY <1>6, TextIsReadable
  <1> QED
    BY <1>1, <1>2, <1>4, <1>6, <1>7, Zenon DEF ReadsWhatIsDue

\* A read asks for at least one unit, and the console has what it delivers.
LEMMA Chunk ==
    ASSUME Members
    PROVE  ChunkLength(WbufferSize - Len(pending)) \in 0..Len(typed)
  <1>1. typed \in Seq(Units(Wide)) /\ Len(typed) \in Nat /\ Len(pending) \in Nat /\ Len(pending) <= 1
    BY DEF Members
  <1>2. WbufferSize \in Nat /\ WbufferSize >= 2
    BY WbufferAssumption
  <1> DEFINE n == WbufferSize - Len(pending)
             l == LineLength
             D == {i \in 1..Len(typed) : typed[i] = LF}
  <1>3. n \in Nat
    BY <1>1, <1>2
  <1>4. l \in 0..Len(typed)
    <2>1. Contains(typed, LF) => D # {}
      BY DEF Contains
    <2>2. l = IF Contains(typed, LF)
              THEN (IF D # {} THEN Min(D) ELSE 0) ELSE Len(typed)
      BY DEF LineLength, SelectInSeq
    <2>3. D # {} => Min(D) \in D
      <3> SUFFICES ASSUME D # {} PROVE Min(D) \in D
        OBVIOUS
      <3>1. D \in SUBSET Nat
        BY <1>1
      <3>2. \E x \in D : \A y \in D : x <= y
        BY <3>1, LeastNumber
      <3> HIDE DEF D
      <3> QED
        BY <3>2 DEF Min
    <2>4. D \subseteq 0..Len(typed)
      BY <1>1
    <2>5. (l = Min(D) /\ D # {}) \/ l = 0 \/ l = Len(typed)
      BY <2>2, Zenon
    <2> HIDE DEF l, D
    <2>6. 0 \in 0..Len(typed) /\ Len(typed) \in 0..Len(typed)
      BY <1>1
    <2> QED
      BY <2>3, <2>4, <2>5, <2>6, Zenon
  <1> HIDE DEF n, l
  <1>5. ChunkLength(n) \in {n, l} /\ ChunkLength(n) <= l
    <2> DEFINE D2 == {n, l}
    <2>1. \E x \in D2 : \A y \in D2 : x <= y
      BY <1>1, <1>3, <1>4
    <2>2. Min(D2) \in D2 /\ \A y \in D2 : Min(D2) <= y
      <3> HIDE DEF D2
      <3> QED
        BY <2>1 DEF Min
    <2> QED
      BY <2>2 DEF ChunkLength, l
  <1> QED
    BY <1>1, <1>3, <1>4, <1>5 DEF n

\* The rest from one position earlier.
LEMMA OneBack ==
    ASSUME NEW S, NEW s \in Seq(S), NEW i \in 1..Len(s)
    PROVE  /\ i - 1 \in 0..Len(s) /\ s[i] \in S
           /\ After(s, i - 1) = <<s[i]>> \o After(s, i)
  <1>1. Len(s) \in Nat /\ i - 1 \in 0..Len(s) /\ i \in 0..Len(s) /\ s[i] \in S
    OBVIOUS
  <1>2. After(s, i - 1) = <<s[i]>> \o After(s, i)
    BY <1>1 DEF After
  <1> QED
    BY <1>1, <1>2

\* And with another element there.
LEMMA Overwritten ==
    ASSUME NEW S, NEW s \in Seq(S), NEW i \in 1..Len(s), NEW c \in S
    PROVE  LET t == [s EXCEPT ![i] = c]
           IN t \in Seq(S) /\ Len(t) = Len(s) /\ After(t, i - 1) = <<c>> \o After(s, i)
  <1> DEFINE t == [s EXCEPT ![i] = c]
  <1>1. t \in Seq(S) /\ Len(t) = Len(s) /\ t[i] = c /\ \A j \in 1..Len(s) : j # i => t[j] = s[j]
    OBVIOUS
  <1> HIDE DEF t
  <1>2. i \in 1..Len(t)
    BY <1>1
  <1>3. After(t, i - 1) = <<c>> \o After(t, i)
    BY <1>1, <1>2, OneBack
  <1>4. After(t, i) = After(s, i)
    <2>1. i \in 0..Len(s) /\ i \in 0..Len(t)
      BY <1>1
    <2>2. /\ After(s, i) \in Seq(S) /\ Len(After(s, i)) = Len(s) - i
          /\ \A j \in 1..(Len(s) - i) : After(s, i)[j] = s[i + j]
      BY <2>1, RestOfText
    <2>3. /\ After(t, i) \in Seq(S) /\ Len(After(t, i)) = Len(s) - i
          /\ \A j \in 1..(Len(s) - i) : After(t, i)[j] = t[i + j]
      BY <1>1, <2>1, RestOfText
    <2>4. \A j \in 1..(Len(s) - i) : t[i + j] = s[i + j]
      BY <1>1, <2>1
    <2> DEFINE p == After(s, i)
               q == After(t, i)
    <2> HIDE DEF p, q
    <2>5. p \in Seq(S) /\ q \in Seq(S) /\ Len(p) = Len(q) /\ \A j \in 1..Len(p) : p[j] = q[j]
      BY <2>2, <2>3, <2>4 DEF p, q
    <2> QED
      BY <2>5 DEF p, q
  <1> QED
    BY <1>1, <1>3, <1>4 DEF t

LEMMA CutInTwo ==
    ASSUME NEW S, NEW s \in Seq(S), NEW k \in 0..Len(s)
    PROVE  SubSeq(s, 1, k) \in Seq(S) /\ SubSeq(s, 1, k) \o After(s, k) = s
  <1> DEFINE a == SubSeq(s, 1, k)
             b == After(s, k)
  <1>1. a \in Seq(S) /\ Len(a) = k /\ \A i \in 1..k : a[i] = s[i]
    OBVIOUS
  <1>2. /\ b \in Seq(S) /\ Len(b) = Len(s) - k
        /\ \A i \in 1..(Len(s) - k) : b[i] = s[k + i]
    BY RestOfText
  <1>3. Len(s) \in Nat
    OBVIOUS
  <1> HIDE DEF a, b
  <1> DEFINE t == a \o b
  <1>4. /\ t \in Seq(S) /\ Len(t) = Len(a) + Len(b)
        /\ \A i \in 1..Len(a) : t[i] = a[i]
        /\ \A i \in 1..Len(b) : t[Len(a) + i] = b[i]
    BY <1>1, <1>2, JoinedText
  <1> HIDE DEF t
  <1>5. Len(t) = Len(s)
    BY <1>1, <1>2, <1>3, <1>4
  <1>6. ASSUME NEW i \in 1..Len(t) PROVE t[i] = s[i]
    <2>1. CASE i \in 1..k
      BY <1>1, <1>4, <2>1
    <2>2. CASE i \notin 1..k
      <3> DEFINE j == i - k
      <3>1. j \in 1..(Len(s) - k) /\ k + j = i
        BY <1>3, <1>5, <2>2
      <3> HIDE DEF j
      <3>2. t[k + j] = b[j] /\ b[j] = s[k + j]
        BY <1>1, <1>2, <1>4, <3>1
      <3> QED
        BY <3>1, <3>2
    <2> QED
      BY <2>1, <2>2
  <1>7. t = s
    BY <1>4, <1>5, <1>6
  <1> QED
    BY <1>1, <1>7 DEF a, b, t

\* What a read delivers and what it keeps is what there was to read.
LEMMA ReadGives ==
    ASSUME Members
    PROVE  LET r == NextRead
           IN /\ r.k \in 0..Len(typed) /\ r.bytes \in Seq(Bytes)
              /\ r.pending \in Seq(Units(Wide)) /\ Len(r.pending) <= 1
              /\ r.dropped => r.bytes = <<>> /\ r.pending = <<>>
              /\ ~r.dropped => Readable(pending \o typed) = r.bytes \o Readable(r.pending \o After(typed, r.k))
  <1> DEFINE r == NextRead
  <1>1. typed \in Seq(Units(Wide)) /\ pending \in Seq(Units(Wide)) /\ Len(pending) <= 1 /\ Len(typed) \in Nat
    BY DEF Members
  <1>2. CASE typed = <<>>
    <2>1. r.k = 0 /\ r.dropped = FALSE /\ r.bytes = <<>> /\ r.pending = pending
      BY <1>2 DEF NextRead
    <2> HIDE DEF r
    <2>2. 0 \in 0..Len(typed) /\ After(typed, 0) = typed
      BY <1>1, RestOfText
    <2> DEFINE y == Readable(pending \o typed)
    <2>3. y \in Seq(Bytes)
      BY DueIs
    <2> HIDE DEF y
    <2>4. <<>> \in Seq(Bytes) /\ <<>> \o y = y
      BY <2>3
    <2>5. y = r.bytes \o Readable(r.pending \o After(typed, r.k))
      BY <2>1, <2>2, <2>4, Zenon DEF y
    <2> QED
      BY <1>1, <2>1, <2>2, <2>4, <2>5 DEF r, y
  <1>3. CASE typed # <<>>
    <2> DEFINE k == ChunkLength(WbufferSize - Len(pending))
               c == SubSeq(typed, 1, k)
               wide == pending \o c
               s == ScanInput(wide)
               eof == newline /\ s.bytes # <<>> /\ s.bytes[1] = CtrlZ
               rest == After(wide, s.used)
               left == After(typed, k)
    <2>1. /\ r.k = k /\ r.dropped = eof
          /\ r.bytes = (IF eof THEN <<>> ELSE s.bytes)
          /\ r.pending = (IF eof THEN <<>> ELSE Kept(wide, s.used))
      BY <1>3 DEF NextRead, Read
    <2>2. k \in 0..Len(typed)
      BY Chunk
    <2> HIDE DEF k
    <2>3. c \in Seq(Units(Wide)) /\ c \o left = typed /\ left \in Seq(Units(Wide))
      BY <1>1, <2>2, CutInTwo, RestOfText
    <2> HIDE DEF c, left
    <2>4. wide \in Seq(Units(Wide))
      BY <1>1, <2>3
    <2>5. wide \o left = pending \o typed
      <3>1. (pending \o c) \o left = pending \o (c \o left)
        <4> DEFINE U == Units(Wide)
        <4>1. pending \in Seq(U)
          BY <1>1
        <4>2. c \in Seq(U)
          BY <2>3
        <4>3. left \in Seq(U)
          BY <2>3
        <4> HIDE DEF U
        <4> QED
          BY <4>1, <4>2, <4>3, JoinAssociates
      <3> QED
        BY <2>3, <3>1, Zenon
    <2> HIDE DEF wide
    <2>6. s.bytes \in Seq(Bytes) /\ rest \in Seq(Units(Wide)) /\ Len(rest) <= 1 /\ Continues(wide)
      BY <2>4, ReadContinues
    <2>7. Readable(wide \o left) = s.bytes \o Readable(rest \o left)
      BY <2>3, <2>6, Zenon DEF Continues
    <2>8. Kept(wide, s.used) = rest
      BY Zenon DEF Kept
    <2> HIDE DEF s, rest, eof, r
    <2>9. <<>> \in Seq(Bytes) /\ <<>> \in Seq(Units(Wide)) /\ Len(<<>>) = 0
      OBVIOUS
    <2>10. CASE eof
      <3>1. r.dropped /\ r.bytes = <<>> /\ r.pending = <<>> /\ r.k = k
        BY <2>1, <2>10, Zenon
      <3> QED
        BY <2>2, <2>9, <3>1 DEF r
    <2>11. CASE ~eof
      <3>1. ~r.dropped /\ r.bytes = s.bytes /\ r.pending = rest /\ r.k = k
        BY <2>1, <2>8, <2>11, Zenon
      <3>2. Readable(pending \o typed) = r.bytes \o Readable(r.pending \o After(typed, r.k))
        BY <2>5, <2>7, <3>1, Zenon DEF left
      <3> QED
        BY <2>2, <2>6, <3>1, <3>2 DEF r
    <2> QED
      BY <2>10, <2>11
  <1> QED
    BY <1>2, <1>3

\* DueIs in the next state.
LEMMA DueBecomes ==
    ASSUME Members'
    PROVE  ReadsWhatIsDue' <=> After(Area', gptr') \o Readable(pending' \o typed') = due'
  <1>1. Rest' = After(Area', gptr')
    BY Zenon DEF Rest
  <1>2. pending' \o typed' \in Seq(Units(Wide))
    BY DEF Members
  <1>3. InputText(pending' \o typed') = Readable(pending' \o typed')
    BY <1>2, TextIsReadable
  <1> QED
    BY <1>1, <1>3, Zenon DEF ReadsWhatIsDue

LEMMA UnderflowKeeps ==
    ASSUME InputInv, NEW op, NEW n \in {0, 1}, Rest = <<>>, Underflow(op, n)
    PROVE  InputInv'
  <1> DEFINE r == NextRead
             b == r.bytes
             p == r.pending
             t == After(typed, r.k)
             y == Readable(p \o t)
  <1>1. Members /\ ReadsWhatIsDue
    BY DEF InputInv
  <1>2. /\ r.k \in 0..Len(typed) /\ b \in Seq(Bytes) /\ p \in Seq(Units(Wide)) /\ Len(p) <= 1
        /\ r.dropped => b = <<>> /\ p = <<>>
        /\ ~r.dropped => Readable(pending \o typed) = b \o y
    BY <1>1, ReadGives
  <1>3. /\ typed' = t /\ pending' = p /\ pback' = <<>> /\ buffer' = b /\ where' = "buffer"
        /\ gptr' = (IF b = <<>> THEN 0 ELSE n)
        /\ due' = (IF r.dropped THEN InputText(t) ELSE IF b = <<>> THEN due ELSE After(due, n))
    BY DEF Underflow
  <1>4. t \in Seq(Units(Wide))
    <2> DEFINE k == r.k
    <2>1. k \in 0..Len(typed) /\ typed \in Seq(Units(Wide))
      BY <1>1, <1>2 DEF Members
    <2> HIDE DEF k
    <2>2. After(typed, k) \in Seq(Units(Wide))
      BY <2>1, RestOfText
    <2> QED
      BY <2>2 DEF k
  <1> HIDE DEF t, p, b, r
  <1>5. p \o t \in Seq(Units(Wide)) /\ y \in Seq(Bytes)
    <2>1. p \o t \in Seq(Units(Wide))
      BY <1>2, <1>4
    <2> QED
      BY <2>1, TextIsReadable
  <1>6. /\ due \in Seq(Bytes)
        /\ ~r.dropped => due = b \o y
    <2>1. due \in Seq(Bytes)
      BY <1>1 DEF Members
    <2> DEFINE x == Readable(pending \o typed)
    <2>2. x \in Seq(Bytes) /\ Rest \o x = due
      BY <1>1, DueIs
    <2> HIDE DEF x
    <2>3. <<>> \o x = x
      BY <2>2
    <2> QED
      BY <1>2, <2>1, <2>2, <2>3, Zenon DEF x
  <1>7. Area' = b
    BY <1>3 DEF Area
  <1>8. gptr' \in 0..Len(b)
    <2>1. b # <<>> => Len(b) \in Nat /\ Len(b) >= 1
      BY <1>2
    <2>2. b = <<>> => Len(b) = 0
      BY <1>2
    <2> QED
      BY <1>3, <2>1, <2>2
  <1>9. due' \in Seq(Bytes) /\ After(b, gptr') \o y = due'
    <2>0. <<>> \in Seq(Bytes) /\ After(<<>>, 0) = <<>>
      BY DEF After
    <2>1. CASE r.dropped
      <3>1. b = <<>> /\ p = <<>> /\ gptr' = 0 /\ due' = InputText(t)
        BY <1>2, <1>3, <2>1, Zenon
      <3>2. <<>> \o t = t
        BY <1>4
      <3>3. InputText(t) = Readable(t)
        BY <1>4, TextIsReadable
      <3>4. y = Readable(t)
        BY <3>1, <3>2, Zenon
      <3> HIDE DEF y
      <3>5. <<>> \o y = y
        BY <1>5
      <3>6. due' = y /\ After(b, gptr') = <<>>
        BY <2>0, <3>1, <3>3, <3>4, Zenon
      <3> QED
        BY <1>5, <3>5, <3>6, Zenon
    <2>2. CASE ~r.dropped /\ b = <<>>
      <3>1. gptr' = 0 /\ due' = due /\ due = b \o y
        BY <1>3, <1>6, <2>2, Zenon
      <3>2. After(b, gptr') = b
        BY <2>0, <2>2, <3>1, Zenon
      <3> QED
        BY <1>6, <3>1, <3>2, Zenon
    <2>3. CASE ~r.dropped /\ b # <<>>
      <3> HIDE DEF y
      <3>1. gptr' = n /\ due' = After(due, n) /\ due = b \o y
        BY <1>3, <1>6, <2>3, Zenon
      <3>2. n \in 0..Len(b)
        BY <1>8, <3>1
      <3>3. n \in 0..Len(b \o y) /\ After(b \o y, n) = After(b, n) \o y
        BY <1>2, <1>5, <3>2, RestOfJoined
      <3>4. After(due, n) \in Seq(Bytes)
        <4>1. n \in 0..Len(due)
          BY <3>1, <3>3, Zenon
        <4> QED
          BY <1>6, <4>1, RestOfText
      <3> QED
        BY <3>1, <3>3, <3>4, Zenon
    <2> QED
      BY <2>1, <2>2, <2>3
  <1>10. Members'
    <2>1. <<>> \in Seq(Bytes)
      OBVIOUS
    <2> QED
      BY <1>2, <1>3, <1>4, <1>7, <1>8, <1>9, <2>1 DEF Members
  <1>11. ReadsWhatIsDue'
    BY <1>3, <1>7, <1>9, <1>10, DueBecomes, Zenon
  <1> QED
    BY <1>10, <1>11 DEF InputInv

LEMMA GetKeeps ==
    ASSUME InputInv, NEW op, NEW n \in {0, 1}, Get(op, n)
    PROVE  InputInv'
  <1> DEFINE A == Area
             y == Readable(pending \o typed)
             x == After(A, gptr)
  <1>1. /\ Members /\ A \in Seq(Bytes) /\ Rest = x /\ y \in Seq(Bytes) /\ x \o y = due
        /\ x \in Seq(Bytes)
    BY DueIs DEF InputInv
  <1>2. CASE Rest = <<>>
    BY <1>2, UnderflowKeeps DEF Get
  <1>3. CASE Rest # <<>>
    <2>1. /\ gptr' = gptr + n /\ due' = After(due, n) /\ typed' = typed /\ pending' = pending
          /\ buffer' = buffer /\ pback' = pback /\ where' = where
      BY <1>3 DEF Get
    <2>2. gptr \in 0..Len(A) /\ Len(A) \in Nat
      BY <1>1 DEF Members
    <2>3. Area' = A
      BY <2>1 DEF Area
    <2> HIDE DEF A, y
    <2>4. gptr # Len(A) /\ Len(x) = Len(A) - gptr
      BY <1>1, <1>3, <2>2, RestOfText
    <2>5. n \in 0..Len(x) /\ n \in 0..(Len(A) - gptr) /\ gptr + n \in 0..Len(A)
      BY <2>2, <2>4
    <2>6. After(x, n) = After(A, gptr + n)
      BY <1>1, <2>2, <2>5, RestOfRest
    <2> HIDE DEF x
    <2>7. n \in 0..Len(x \o y) /\ x \o y \in Seq(Bytes) /\ After(x \o y, n) = After(x, n) \o y
      BY <1>1, <2>5, RestOfJoined
    <2>8. After(due, n) \in Seq(Bytes)
      <3>1. n \in 0..Len(due) /\ due \in Seq(Bytes)
        BY <1>1, <2>7, Zenon
      <3> QED
        BY <3>1, RestOfText
    <2>9. After(A, gptr') \o y = due'
      BY <1>1, <2>1, <2>6, <2>7, Zenon
    <2>10. Members'
      BY <1>1, <2>1, <2>3, <2>5, <2>8 DEF Members
    <2>11. ReadsWhatIsDue'
      BY <2>1, <2>3, <2>9, <2>10, DueBecomes, Zenon DEF y
    <2> QED
      BY <2>10, <2>11 DEF InputInv
  <1> QED
    BY <1>2, <1>3

\* A character more in front of what is to be read, and of what is due.
LEMMA FrontKeeps ==
    ASSUME InputInv, NEW c \in Bytes, Members', typed' = typed, pending' = pending,
           After(Area', gptr') = <<c>> \o After(Area, gptr), due' = <<c>> \o due
    PROVE  InputInv'
  <1> DEFINE y == Readable(pending \o typed)
             x == After(Area, gptr)
             o == <<c>>
  <1>1. x \in Seq(Bytes) /\ y \in Seq(Bytes) /\ x \o y = due
    BY DueIs DEF InputInv
  <1>2. o \in Seq(Bytes)
    OBVIOUS
  <1>3. After(Area', gptr') = o \o x /\ due' = o \o due
    OBVIOUS
  <1> HIDE DEF x, o, y
  <1>4. (o \o x) \o y = o \o (x \o y)
    <2> DEFINE U == Bytes
    <2>1. x \in Seq(U)
      BY <1>1
    <2>2. y \in Seq(U)
      BY <1>1
    <2>3. o \in Seq(U)
      BY <1>2
    <2> HIDE DEF U
    <2> QED
      BY <2>1, <2>2, <2>3, JoinAssociates
  <1>5. After(Area', gptr') \o y = due'
    BY <1>1, <1>3, <1>4, Zenon
  <1>6. ReadsWhatIsDue'
    BY <1>5, DueBecomes, Zenon DEF y
  <1> QED
    BY <1>6 DEF InputInv

LEMMA MoreIsDue ==
    ASSUME Members, NEW c \in Bytes
    PROVE  <<c>> \o due \in Seq(Bytes)
  <1>1. due \in Seq(Bytes)
    BY DEF Members
  <1> QED
    BY <1>1

\* Nothing lies in front of the get area unless there is one.
LEMMA InFront ==
    ASSUME Members
    PROVE  /\ Area \in Seq(Bytes) /\ gptr \in 0..Len(Area)
           /\ gptr > 0 => gptr \in 1..Len(Area) /\ where # "none"
           /\ ~(gptr > 0) => gptr = 0 /\ After(Area, gptr) = Area
  <1>1. Area \in Seq(Bytes)
    BY DueIs
  <1>2. gptr \in 0..Len(Area) /\ Len(Area) \in Nat
    BY <1>1 DEF Members
  <1>3. where = "none" => Len(Area) = 0
    BY DEF Area
  <1>4. gptr = 0 => After(Area, gptr) = Area
    <2> DEFINE A == Area
    <2> HIDE DEF A
    <2>1. A \in Seq(Bytes)
      BY <1>1 DEF A
    <2>2. After(A, 0) = A
      <3>1. 0 \in 0..Len(A)
        BY <2>1
      <3> QED
        BY <2>1, <3>1, RestOfText
    <2> QED
      BY <2>2 DEF A
  <1> DEFINE n == Len(Area)
  <1>5. gptr \in 0..n /\ n \in Nat /\ (where = "none" => n = 0)
    BY <1>2, <1>3
  <1> HIDE DEF n
  <1>6. /\ gptr > 0 => gptr \in 1..n /\ where # "none"
        /\ ~(gptr > 0) => gptr = 0
    BY <1>5
  <1> QED
    BY <1>1, <1>2, <1>4, <1>6 DEF n

LEMMA SungetcKeeps ==
    ASSUME InputInv, Sungetc
    PROVE  InputInv'
  <1>1. Members
    BY DEF InputInv
  <1> DEFINE A == Area
             c == A[gptr]
  <1>2. /\ typed' = typed /\ pending' = pending /\ buffer' = buffer /\ pback' = pback /\ where' = where
        /\ gptr > 0 => gptr' = gptr - 1 /\ due' = <<c>> \o due
        /\ ~(gptr > 0) => gptr' = gptr /\ due' = due
    BY DEF Sungetc
  <1>3. Area' = A
    BY <1>2 DEF Area
  <1>4. A \in Seq(Bytes) /\ gptr \in 0..Len(A)
        /\ (gptr > 0 => gptr \in 1..Len(A) /\ where # "none")
    BY <1>1, InFront
  <1>5. CASE gptr > 0
    <2>1. gptr - 1 \in 0..Len(A) /\ c \in Bytes /\ After(A, gptr - 1) = <<c>> \o After(A, gptr)
      <3> HIDE DEF A
      <3> QED
        BY <1>4, <1>5, OneBack
    <2>2. <<c>> \o due \in Seq(Bytes)
      BY <1>1, <2>1, MoreIsDue
    <2> HIDE DEF A, c
    <2>3. Members'
      BY <1>1, <1>2, <1>3, <1>5, <2>1, <2>2 DEF Members
    <2> QED
      BY <1>2, <1>3, <1>5, <2>1, <2>3, FrontKeeps DEF A
  <1>6. CASE ~(gptr > 0)
    <2>1. Members'
      BY <1>1, <1>2, <1>3, <1>6 DEF Members
    <2>2. ReadsWhatIsDue'
      BY <1>2, <1>3, <1>6, DueIs, <1>1, <2>1, DueBecomes DEF InputInv
    <2> QED
      BY <2>1, <2>2 DEF InputInv
  <1> QED
    BY <1>5, <1>6

LEMMA SputbackcKeeps ==
    ASSUME Careful, InputInv, NEW c \in Backs, Sputbackc(c)
    PROVE  InputInv'
  <1>1. Members
    BY DEF InputInv
  <1> DEFINE A == Area
  <1>2. A \in Seq(Bytes) /\ gptr \in 0..Len(A)
        /\ (gptr > 0 => gptr \in 1..Len(A) /\ where # "none")
        /\ (~(gptr > 0) => gptr = 0 /\ After(A, gptr) = A)
    BY <1>1, InFront
  <1>3. c \in Bytes
    <2>1. Extra \subseteq Bytes
      BY ExtraAssumption
    <2>2. gptr > 0 => A[gptr] \in Bytes
      <3> HIDE DEF A
      <3> QED
        BY <1>2, OneBack
    <2> QED
      BY <2>1, <2>2 DEF Backs
  <1>4. /\ typed' = typed /\ pending' = pending /\ due' = <<c>> \o due
        /\ gptr > 0 \/ where = "pback" \/ Rest = <<>>
        /\ (IF gptr > 0 /\ A[gptr] = c
            THEN gptr' = gptr - 1 /\ buffer' = buffer /\ pback' = pback /\ where' = where
            ELSE PbackFail(c))
    BY DEF Sputbackc
  <1>5. due' \in Seq(Bytes)
    BY <1>1, <1>3, <1>4, MoreIsDue
  <1>6. /\ typed \in Seq(Units(Wide)) /\ pending \in Seq(Units(Wide)) /\ Len(pending) <= 1
        /\ buffer \in Seq(Bytes) /\ pback \in Seq(Bytes)
        /\ where \in {"none", "buffer", "pback"} /\ (where # "pback" => pback = <<>>)
    BY <1>1 DEF Members
  <1>7. CASE gptr > 0 /\ A[gptr] = c
    <2>1. Area' = A
      BY <1>4, <1>7 DEF Area
    <2>2. gptr - 1 \in 0..Len(A) /\ After(A, gptr - 1) = <<A[gptr]>> \o After(A, gptr)
      <3> HIDE DEF A
      <3> QED
        BY <1>2, <1>7, OneBack
    <2> HIDE DEF A
    <2>3. Members'
      BY <1>4, <1>5, <1>6, <1>7, <2>1, <2>2 DEF Members
    <2> QED
      BY <1>3, <1>4, <1>7, <2>1, <2>2, <2>3, FrontKeeps DEF A
  <1>8. CASE gptr > 0 /\ A[gptr] # c
    <2> DEFINE B == [A EXCEPT ![gptr] = c]
    <2>1. /\ gptr' = gptr - 1 /\ where' = where
          /\ buffer' = (IF where = "buffer" THEN [buffer EXCEPT ![gptr] = c] ELSE buffer)
          /\ pback' = (IF where = "pback" THEN [pback EXCEPT ![gptr] = c] ELSE pback)
      BY <1>4, <1>8 DEF PbackFail
    <2>2. where = "buffer" \/ where = "pback"
      BY <1>2, <1>6, <1>8
    <2>3. where = "buffer" => A = buffer
      BY DEF Area
    <2>4. where = "pback" => A = pback
      BY DEF Area
    <2>5. Area' = B
      <3>1. CASE where = "buffer"
        <4>1. buffer' = B /\ where' = "buffer"
          BY <2>1, <2>3, <3>1
        <4> HIDE DEF B
        <4> QED
          BY <4>1 DEF Area
      <3>2. CASE where = "pback"
        <4>1. pback' = B /\ where' = "pback"
          BY <2>1, <2>4, <3>2
        <4> HIDE DEF B
        <4> QED
          BY <4>1 DEF Area
      <3> QED
        BY <2>2, <3>1, <3>2
    <2>6. /\ gptr - 1 \in 0..Len(A) /\ B \in Seq(Bytes) /\ Len(B) = Len(A)
          /\ After(B, gptr - 1) = <<c>> \o After(A, gptr)
      <3> HIDE DEF A
      <3>1. A \in Seq(Bytes) /\ gptr \in 1..Len(A)
        BY <1>2, <1>8
      <3>2. gptr - 1 \in 0..Len(A)
        BY <3>1, OneBack
      <3>3. B \in Seq(Bytes) /\ Len(B) = Len(A) /\ After(B, gptr - 1) = <<c>> \o After(A, gptr)
        BY <1>3, <3>1, Overwritten
      <3> QED
        BY <3>2, <3>3
    <2>7. buffer' \in Seq(Bytes) /\ pback' \in Seq(Bytes) /\ (where' # "pback" => pback' = <<>>)
      BY <1>6, <2>1, <2>3, <2>4, <2>6
    <2> HIDE DEF A, B
    <2>8. Members'
      BY <1>4, <1>5, <1>6, <2>1, <2>5, <2>6, <2>7 DEF Members
    <2> QED
      BY <1>3, <1>4, <2>1, <2>5, <2>6, <2>8, FrontKeeps DEF A
  <1>9. CASE ~(gptr > 0)
    <2>1. pback' = <<c>> \o pback /\ where' = "pback" /\ gptr' = 0 /\ buffer' = buffer
      BY <1>4, <1>9 DEF PbackFail
    <2>2. Area' = pback'
      BY <2>1 DEF Area
    <2>3. pback' \in Seq(Bytes) /\ 0 \in 0..Len(pback') /\ After(pback', 0) = pback'
      <3>1. <<c>> \o pback \in Seq(Bytes)
        BY <1>3, <1>6
      <3>2. pback' \in Seq(Bytes)
        BY <2>1, <3>1
      <3>3. 0 \in 0..Len(pback')
        BY <3>2
      <3> QED
        BY <3>2, <3>3, RestOfText
    <2>4. After(A, gptr) = pback
      <3>1. CASE where = "pback"
        BY <1>2, <1>9, <3>1 DEF Area
      <3>2. CASE where # "pback"
        <4>1. Rest = <<>> /\ pback = <<>>
          BY <1>4, <1>6, <1>9, <3>2
        <4>2. Rest = After(A, gptr)
          BY <1>1, DueIs
        <4> QED
          BY <4>1, <4>2, Zenon
      <3> QED
        BY <3>1, <3>2
    <2>5. After(Area', gptr') = <<c>> \o After(A, gptr)
      BY <2>1, <2>2, <2>3, <2>4, Zenon
    <2>6. Members'
      BY <1>4, <1>5, <1>6, <2>1, <2>2, <2>3 DEF Members
    <2> QED
      BY <1>3, <1>4, <2>5, <2>6, FrontKeeps
  <1> QED
    BY <1>7, <1>8, <1>9

LEMMA SyncKeeps ==
    ASSUME Members, Sync
    PROVE  InputInv'
  <1>1. /\ pending' = <<>> /\ pback' = <<>> /\ buffer' = <<>> /\ where' = "none" /\ gptr' = 0
        /\ due' = InputText(typed) /\ typed' = typed
    BY DEF Sync
  <1>2. typed \in Seq(Units(Wide))
    BY DEF Members
  <1> DEFINE y == Readable(typed)
  <1>3. InputText(typed) = y /\ y \in Seq(Bytes)
    BY <1>2, TextIsReadable
  <1> HIDE DEF y
  <1>4. Area' = <<>> /\ After(<<>>, 0) = <<>> /\ <<>> \o y = y /\ <<>> \o typed = typed
    BY <1>1, <1>2, <1>3 DEF Area, After
  <1>5. <<>> \in Seq(Bytes) /\ <<>> \in Seq(Units(Wide)) /\ Len(<<>>) = 0
    OBVIOUS
  <1>6. Members'
    BY <1>1, <1>2, <1>3, <1>4, <1>5 DEF Members
  <1>7. After(Area', gptr') \o Readable(pending' \o typed') = due'
    BY <1>1, <1>3, <1>4, Zenon DEF y
  <1>8. ReadsWhatIsDue'
    BY <1>6, <1>7, DueBecomes
  <1> QED
    BY <1>6, <1>8 DEF InputInv

LEMMA InputStarts ==
    ASSUME InputInit
    PROVE  InputInv
  <1>1. /\ pending = <<>> /\ pback = <<>> /\ buffer = <<>> /\ where = "none" /\ gptr = 0
        /\ due = InputText(typed) /\ typed \in Inputs
    BY DEF InputInit
  <1>2. typed \in Seq(Units(Wide))
    BY <1>1, InputsAssumption
  <1> DEFINE y == Readable(typed)
  <1>3. InputText(typed) = y /\ y \in Seq(Bytes)
    BY <1>2, TextIsReadable
  <1> HIDE DEF y
  <1>4. Area = <<>> /\ After(<<>>, 0) = <<>> /\ <<>> \o y = y /\ <<>> \o typed = typed
    BY <1>1, <1>2, <1>3 DEF Area, After
  <1>5. <<>> \in Seq(Bytes) /\ <<>> \in Seq(Units(Wide)) /\ Len(<<>>) = 0
    OBVIOUS
  <1>6. Members
    BY <1>1, <1>2, <1>3, <1>4, <1>5 DEF Members
  <1>7. Rest = <<>>
    BY <1>1, <1>4, <1>6, DueIs, Zenon
  <1>8. ReadsWhatIsDue
    BY <1>1, <1>3, <1>4, <1>7, Zenon DEF ReadsWhatIsDue
  <1> QED
    BY <1>6, <1>8 DEF InputInv

LEMMA InputNextKeeps ==
    ASSUME Careful
    PROVE  InputInv /\ [InputNext]_inputVars => InputInv'
  <1> SUFFICES ASSUME InputInv, [InputNext]_inputVars PROVE InputInv'
    OBVIOUS
  <1>1. CASE Sgetc \/ Sbumpc
    BY <1>1, GetKeeps DEF Sgetc, Sbumpc
  <1>2. CASE Sungetc
    BY <1>2, SungetcKeeps
  <1>3. CASE \E c \in Backs : Sputbackc(c)
    BY <1>3, SputbackcKeeps
  <1>4. CASE Sync
    BY <1>4, SyncKeeps DEF InputInv
  <1>5. CASE UNCHANGED inputVars
    <2>1. /\ typed' = typed /\ pending' = pending /\ buffer' = buffer /\ pback' = pback
          /\ where' = where /\ gptr' = gptr /\ due' = due
      BY <1>5 DEF inputVars
    <2>2. Area' = Area
      BY <2>1 DEF Area
    <2>3. Members /\ ReadsWhatIsDue
      BY DEF InputInv
    <2>4. Members'
      BY <2>1, <2>2, <2>3 DEF Members
    <2>5. ReadsWhatIsDue'
      BY <2>1, <2>2, <2>3, <2>4, DueIs, DueBecomes
    <2> QED
      BY <2>4, <2>5 DEF InputInv
  <1> QED
    BY <1>1, <1>2, <1>3, <1>4, <1>5 DEF InputNext

\* Whatever ReadConsoleW delivers at a time, a program that puts characters back only where they fit
\* reads the conversion of what was typed, and first what it put back: no surrogate pair is torn at
\* the end of wbuffer_ and nothing is lost between two reads, for any input and any size of wbuffer_.
THEOREM InputIsReadInOrder ==
    ASSUME Careful
    PROVE  InputSpec => []ReadsWhatIsDue
  <1>1. InputInit => InputInv
    BY InputStarts
  <1>2. InputInv /\ [InputNext]_inputVars => InputInv'
    BY InputNextKeeps
  <1>3. InputInv => ReadsWhatIsDue
    BY DEF InputInv
  <1> QED
    BY <1>1, <1>2, <1>3, PTL DEF InputSpec
----------------------------------------------------------------------------
\* A carriage return comes before a line feed, as the enter key types them.
Lined(s) == \A i \in 1..(Len(s) - 1) : s[i] = CR => s[i + 1] = LF

LEMMA CrLf == CR = 13 /\ LF = 10
  BY DEF CR, LF

LEMMA ControlUnit ==
    ASSUME NEW s \in Seq(Units(Wide)), s # <<>>, s[1] \in {CR, LF}
    PROVE  Decode(Wide, s) = Decoded(s[1], 1)
  <1>1. s[1] \in {10, 13}
    BY CrLf
  <1>2. CASE Wide = 16
    <2>1. IsSingleCodepoint(s[1]) /\ ~IsFirstSurrogate(s[1]) /\ ~IsSecondSurrogate(s[1])
      BY SMT, <1>1 DEF IsSingleCodepoint, IsFirstSurrogate, IsSecondSurrogate
    <2>2. Decode(Wide, s) = Decode16(s)
      BY <1>2 DEF Decode
    <2> QED
      BY <2>1, <2>2 DEF Decode16
  <1>3. CASE Wide = 32
    <2>1. IsValidCodepoint(s[1])
      BY SMT, <1>1 DEF IsValidCodepoint
    <2>2. Decode(Wide, s) = Decode32(s)
      BY <1>3 DEF Decode
    <2> QED
      BY <2>1, <2>2 DEF Decode32
  <1> QED
    BY <1>2, <1>3, WideAssumption

\* Only a carriage return is decoded as one.
LEMMA ReturnIsTyped ==
    ASSUME NEW s \in Seq(Units(Wide)), s # <<>>, Decode(Wide, s).cp # Incomplete, s[1] # CR
    PROVE  Repaired(Decode(Wide, s).cp) # CR
  <1>1. Replacement # CR
    BY DEF Replacement, CR
  <1>2. \A c : c # CR => Repaired(c) # CR
    BY <1>1 DEF Repaired
  <1>3. Decode(Wide, s).cp # CR
    <2>1. CR # Illegal
      BY DEF CR, Illegal
    <2>2. CASE Wide = 16
      <3>1. s[1] \in Units16
        BY <2>2, NotEmpty DEF Units
      <3>2. Decode(Wide, s) = Decode16(s)
        BY <2>2 DEF Decode
      <3>3. CASE IsSingleCodepoint(s[1])
        <4>1. ~IsSecondSurrogate(s[1]) /\ ~IsFirstSurrogate(s[1])
          BY SMT, <3>1, <3>3 DEF IsSingleCodepoint, IsFirstSurrogate, IsSecondSurrogate, Units16
        <4>2. Decode16(s) = Decoded(s[1], 1)
          BY <3>3, <4>1 DEF Decode16
        <4> QED
          BY <3>2, <4>2, DecodedFields
      <3>4. CASE IsSecondSurrogate(s[1])
        <4>1. ~IsSingleCodepoint(s[1]) /\ ~IsFirstSurrogate(s[1])
          BY SMT, <3>1, <3>4 DEF IsSingleCodepoint, IsFirstSurrogate, IsSecondSurrogate, Units16
        <4>2. Decode16(s) = Decoded(Illegal, 1)
          BY <3>4, <4>1 DEF Decode16
        <4> QED
          BY <2>1, <3>2, <4>2, DecodedFields
      <3>5. CASE IsFirstSurrogate(s[1])
        <4>1. ~IsSingleCodepoint(s[1]) /\ ~IsSecondSurrogate(s[1])
          BY SMT, <3>1, <3>5 DEF IsSingleCodepoint, IsFirstSurrogate, IsSecondSurrogate, Units16
        <4> DEFINE c == CombineSurrogate(s[1], s[2])
        <4>2. \/ Decode16(s) = Decoded(Incomplete, 1)
              \/ Decode16(s) = Decoded(Illegal, 2)
              \/ Len(s) # 1 /\ Decode16(s) = Decoded(c, 2)
          BY <3>5, <4>1 DEF Decode16
        <4>3. Len(s) # 1 => c # CR
          <5> SUFFICES ASSUME Len(s) # 1 PROVE c # CR
            OBVIOUS
          <5>1. Len(s) \in Nat /\ Len(s) # 0
            BY NotEmpty
          <5>2. s[2] \in Units16
            <6>1. s \in Seq(Units16)
              BY <2>2 DEF Units
            <6> DEFINE n == Len(s)
            <6>2. n \in Nat /\ n # 0 /\ n # 1
              BY <5>1
            <6> HIDE DEF n
            <6>3. 2 \in 1..n
              BY <6>2
            <6>4. 2 \in 1..Len(s)
              BY <6>3 DEF n
            <6> QED
              BY <6>1, <6>4, UnitOfText
          <5> QED
            BY SMT, <3>1, <5>2 DEF CombineSurrogate, Units16, CR
        <4> HIDE DEF c
        <4> QED
          BY <2>1, <3>2, <4>2, <4>3, DecodedFields
      <3> QED
        BY SMT, <3>1, <3>3, <3>4, <3>5 DEF IsSingleCodepoint, IsFirstSurrogate, IsSecondSurrogate, Units16
    <2>3. CASE Wide = 32
      <3>1. Decode(Wide, s) = Decode32(s)
        BY <2>3 DEF Decode
      <3>2. Decode32(s) = Decoded(s[1], 1) \/ Decode32(s) = Decoded(Illegal, 1)
        BY DEF Decode32
      <3> QED
        BY <2>1, <3>1, <3>2, DecodedFields
    <2> QED
      BY <2>2, <2>3, WideAssumption
  <1> QED
    BY <1>2, <1>3

\* A character other than a carriage return is read as something.
LEMMA ReadsSomething ==
    ASSUME NEW s \in Seq(Units(Wide)), s # <<>>, Decode(Wide, s).cp # Incomplete, s[1] # CR
    PROVE  Readable(s) # <<>>
  <1> DEFINE d == Decode(Wide, s)
             c == Repaired(d.cp)
             r == After(s, d.used)
             y == Readable(r)
             e == Reads[c]
  <1>1. 0 \in 0..Len(s) /\ After(s, 0) = s /\ Len(s) \in Nat
    BY RestOfText
  <1>2. c \in CodePoints /\ d.used \in 0..Len(s)
    <2>1. ~Stays(Wide, s, 0)
      BY <1>1 DEF Stays
    <2>2. Decode(Wide, After(s, 0)) = d
      BY <1>1
    <2> DEFINE q == Decode(Wide, After(s, 0))
    <2>3. Repaired(q.cp) \in CodePoints /\ q.used \in 1..(Len(s) - 0)
      BY <1>1, <2>1, ShowsUnits, OneCharacter
    <2>4. Repaired(d.cp) \in CodePoints /\ d.used \in 1..(Len(s) - 0)
      BY <2>2, <2>3, Zenon
    <2> HIDE DEF d
    <2> QED
      BY <1>1, <2>4
  <1>3. c # 13
    BY ReturnIsTyped, CrLf
  <1>4. Readable(s) = e \o y
    BY ShowsUnits, ReadsBytes, IntoUnfolds DEF Readable
  <1>5. r \in Seq(Units(Wide))
    <2> DEFINE u == d.used
    <2>1. u \in 0..Len(s)
      BY <1>2
    <2> HIDE DEF u
    <2>2. After(s, u) \in Seq(Units(Wide))
      BY <2>1, RestOfText
    <2> QED
      BY <2>2 DEF u
  <1> HIDE DEF r
  <1>6. y \in Seq(Bytes)
    BY <1>5, TextIsReadable
  <1> HIDE DEF c, y
  <1>7. e \in Seq(Bytes) /\ Len(e) \in Nat /\ Len(e) # 0
    <2>1. e = Encode(8, c)
      BY <1>2, <1>3 DEF Reads
    <2>2. Encode(8, c) = Encode8(c)
      BY DEF Encode
    <2>3. Encode8(c) \in Seq(Bytes) /\ Len(Encode8(c)) = Width8(c)
      BY <1>2, Encode8Bytes
    <2>4. Width8(c) \in 1..4
      BY SMT, <1>2 DEF Width8, CodePoints
    <2> QED
      BY <2>1, <2>2, <2>3, <2>4
  <1> HIDE DEF e
  <1>8. Len(e \o y) = Len(e) + Len(y) /\ Len(y) \in Nat
    BY <1>6, <1>7, JoinedText
  <1>9. Len(e \o y) # 0 /\ Len(<<>>) = 0
    BY <1>7, <1>8
  <1> QED
    BY <1>4, <1>9, Zenon

\* A carriage return is not.
LEMMA ReturnIsSkipped ==
    ASSUME NEW s \in Seq(Units(Wide)), s # <<>>, s[1] = CR
    PROVE  Readable(s) = Readable(After(s, 1))
  <1>1. Decode(Wide, s) = Decoded(CR, 1)
    BY ControlUnit
  <1>2. Decode(Wide, s).cp = CR /\ Decode(Wide, s).used = 1
    BY <1>1, DecodedFields
  <1>3. Repaired(CR) = CR /\ CR # Incomplete /\ CR \in CodePoints /\ Reads[CR] = <<>>
    <2>1. CR \in CodePoints
      BY SMT DEF CR, CodePoints, IsValidCodepoint
    <2> QED
      BY <2>1 DEF CR, Repaired, Illegal, Incomplete, Reads
  <1>4. Readable(s) = Reads[CR] \o Readable(After(s, 1))
    <2>1. Readable(s) = Reads[Repaired(Decode(Wide, s).cp)] \o Readable(After(s, Decode(Wide, s).used))
      BY <1>2, <1>3, ShowsUnits, ReadsBytes, IntoUnfolds DEF Readable
    <2> QED
      BY <1>2, <1>3, <2>1, Zenon
  <1> DEFINE y == Readable(After(s, 1))
  <1>5. y \in Seq(Bytes)
    <2>1. 1 \in 0..Len(s)
      BY NotEmpty
    <2>2. After(s, 1) \in Seq(Units(Wide))
      BY <2>1, RestOfText
    <2> QED
      BY <2>2, TextIsReadable
  <1> HIDE DEF y
  <1>6. <<>> \o y = y
    BY <1>5
  <1> QED
    BY <1>3, <1>4, <1>6, Zenon DEF y

\* Where a read ends: the room is used up, or nothing is left, or the line ends.
LEMMA ChunkEnds ==
    ASSUME Members, typed # <<>>
    PROVE  LET k == ChunkLength(WbufferSize - Len(pending))
           IN /\ k \in 1..Len(typed)
              /\ k = WbufferSize - Len(pending) \/ k = Len(typed) \/ typed[k] = LF
  <1>1. typed \in Seq(Units(Wide)) /\ Len(typed) \in Nat /\ Len(typed) # 0
        /\ Len(pending) \in Nat /\ Len(pending) <= 1
    BY NotEmpty DEF Members
  <1>2. WbufferSize \in Nat /\ WbufferSize >= 2
    BY WbufferAssumption
  <1> DEFINE n == WbufferSize - Len(pending)
             l == LineLength
             D == {i \in 1..Len(typed) : typed[i] = LF}
  <1>3. n \in Nat /\ n >= 1
    BY <1>1, <1>2
  <1>4. l \in 1..Len(typed) /\ (l = Len(typed) \/ typed[l] = LF)
    <2>1. Contains(typed, LF) => D # {}
      BY DEF Contains
    <2>2. l = IF Contains(typed, LF)
              THEN (IF D # {} THEN Min(D) ELSE 0) ELSE Len(typed)
      BY DEF LineLength, SelectInSeq
    <2>3. D # {} => Min(D) \in D
      <3> SUFFICES ASSUME D # {} PROVE Min(D) \in D
        OBVIOUS
      <3>1. D \in SUBSET Nat
        BY <1>1
      <3>2. \E x \in D : \A y \in D : x <= y
        BY <3>1, LeastNumber
      <3> HIDE DEF D
      <3> QED
        BY <3>2 DEF Min
    <2>4. \A i \in D : i \in 1..Len(typed) /\ typed[i] = LF
      OBVIOUS
    <2> HIDE DEF l, D
    <2>5. l \in D \/ l = Len(typed)
      BY <2>1, <2>2, <2>3, Zenon
    <2>6. Len(typed) \in 1..Len(typed)
      BY <1>1
    <2> QED
      BY <2>4, <2>5, <2>6, Zenon
  <1> HIDE DEF n, l
  <1>5. ChunkLength(n) \in {n, l} /\ ChunkLength(n) <= l
    <2> DEFINE D2 == {n, l}
    <2>1. \E x \in D2 : \A y \in D2 : x <= y
      BY <1>1, <1>3, <1>4
    <2>2. Min(D2) \in D2 /\ \A y \in D2 : Min(D2) <= y
      <3> HIDE DEF D2
      <3> QED
        BY <2>1 DEF Min
    <2> QED
      BY <2>2 DEF ChunkLength, l
  <1> DEFINE k == ChunkLength(n)
  <1> HIDE DEF k
  <1>6. k \in {n, l} /\ k <= l
    BY <1>5 DEF k
  <1>7. k \in 1..Len(typed) /\ (k = n \/ k = Len(typed) \/ typed[k] = LF)
    BY <1>1, <1>3, <1>4, <1>6
  <1> QED
    BY <1>7 DEF k, n

\* While there is more to come a read delivers something.
LEMMA ReadDelivers ==
    ASSUME Members, pending # <<>> => pending[1] # CR, Lined(typed), typed # <<>>
    PROVE  LET k == ChunkLength(WbufferSize - Len(pending))
               w == pending \o SubSeq(typed, 1, k)
           IN k < Len(typed) => Readable(w) # <<>>
  <1> DEFINE k == ChunkLength(WbufferSize - Len(pending))
             c == SubSeq(typed, 1, k)
             w == pending \o c
  <1>1. k \in 1..Len(typed) /\ (k = WbufferSize - Len(pending) \/ k = Len(typed) \/ typed[k] = LF)
    BY ChunkEnds
  <1>2. /\ typed \in Seq(Units(Wide)) /\ Len(typed) \in Nat
        /\ pending \in Seq(Units(Wide)) /\ Len(pending) \in Nat /\ Len(pending) <= 1
        /\ (Len(pending) # 0 => pending # <<>>)
        /\ (Len(pending) = 0 => pending = <<>>)
    BY NotEmpty DEF Members
  <1>3. WbufferSize \in Nat /\ WbufferSize >= 2
    BY WbufferAssumption
  <1> SUFFICES ASSUME k < Len(typed) PROVE Readable(w) # <<>>
    OBVIOUS
  <1> HIDE DEF k
  <1>4. c \in Seq(Units(Wide)) /\ Len(c) = k /\ \A i \in 1..k : c[i] = typed[i]
    BY <1>1, <1>2
  <1> HIDE DEF c
  <1>5. /\ w \in Seq(Units(Wide)) /\ Len(w) = Len(pending) + k
        /\ \A i \in 1..Len(pending) : w[i] = pending[i]
        /\ \A i \in 1..k : w[Len(pending) + i] = typed[i]
    <2> DEFINE U == Units(Wide)
    <2>1. pending \in Seq(U)
      BY <1>2
    <2>2. c \in Seq(U)
      BY <1>4
    <2> HIDE DEF U
    <2>3. /\ w \in Seq(U) /\ Len(w) = Len(pending) + Len(c)
          /\ \A i \in 1..Len(pending) : w[i] = pending[i]
          /\ \A i \in 1..Len(c) : w[Len(pending) + i] = c[i]
      BY <2>1, <2>2, JoinedText
    <2> QED
      BY <1>4, <2>3 DEF U
  <1> HIDE DEF w
  <1>6. w # <<>> /\ Len(w) \in Nat
    <2>1. Len(<<>>) = 0
      OBVIOUS
    <2> QED
      BY <1>1, <1>2, <1>5, <2>1
  <1>7. CR # LF
    BY CrLf
  <1>8. Len(w) >= 2 \/ w[1] = LF
    BY <1>1, <1>2, <1>3, <1>5
  <1>9. Decode(Wide, w).cp # Incomplete
    <2>1. CASE w[1] = LF
      <3>1. Decode(Wide, w) = Decoded(LF, 1)
        BY <1>5, <1>6, <2>1, ControlUnit
      <3>2. LF # Incomplete
        BY DEF LF, Incomplete
      <3> QED
        BY <3>1, <3>2, DecodedFields
    <2>2. CASE Len(w) >= 2
      <3> SUFFICES ASSUME Decode(Wide, w).cp = Incomplete PROVE FALSE
        OBVIOUS
      <3>1. (Wide = 16 => Len(w) <= 1) /\ (Wide = 32 => Len(w) = 0)
        BY <1>5, ShowsUnits, IncompleteIsShort
      <3> QED
        BY <1>6, <2>2, <3>1, WideAssumption
    <2> QED
      BY <1>8, <2>1, <2>2
  <1>10. CASE w[1] # CR
    BY <1>5, <1>6, <1>9, <1>10, ReadsSomething
  <1>11. CASE w[1] = CR
    <2>1. Len(pending) = 0
      <3> SUFFICES ASSUME Len(pending) # 0 PROVE FALSE
        OBVIOUS
      <3> DEFINE n == Len(pending)
      <3>0. n \in Nat /\ n <= 1 /\ n # 0 /\ (n # 0 => pending # <<>>)
        BY <1>2
      <3> HIDE DEF n
      <3>1. n = 1 /\ pending # <<>>
        BY <3>0
      <3>2. w[1] = pending[1]
        BY <1>5, <3>1 DEF n
      <3> QED
        BY <1>11, <3>1, <3>2
    <2>2. typed[1] = CR /\ 1 \in 1..(Len(typed) - 1)
      BY <1>1, <1>2, <1>5, <1>11, <2>1
    <2>3. typed[2] = LF
      BY <2>2 DEF Lined
    <2>4. k >= 2
      BY <1>1, <1>2, <1>3, <1>7, <2>1, <2>2
    <2>5. Len(w) = k /\ w[2] = LF /\ k \in Nat
      BY <1>1, <1>5, <2>1, <2>3, <2>4
    <2> DEFINE r == After(w, 1)
    <2>6. 1 \in 0..Len(w) /\ 1 < Len(w) /\ 1 \in 1..(Len(w) - 1) /\ 1 + 1 = 2
      BY <2>4, <2>5
    <2>7. r \in Seq(Units(Wide)) /\ r # <<>> /\ r[1] = w[1 + 1]
      BY <1>5, <2>6, RestOfText
    <2> HIDE DEF r
    <2>8. r[1] = LF
      BY <2>5, <2>6, <2>7
    <2>9. Decode(Wide, r) = Decoded(LF, 1)
      BY <2>7, <2>8, ControlUnit
    <2>10. Decode(Wide, r).cp # Incomplete
      <3>1. LF # Incomplete
        BY DEF LF, Incomplete
      <3> QED
        BY <2>9, <3>1, DecodedFields
    <2>11. Readable(r) # <<>>
      BY <1>7, <2>7, <2>8, <2>10, ReadsSomething
    <2>12. Readable(w) = Readable(r)
      BY <1>5, <1>6, <1>11, ReturnIsSkipped DEF r
    <2> QED
      BY <2>11, <2>12
  <1> QED
    BY <1>10, <1>11

\* The rest of such an input is one.
LEMMA RestIsLined ==
    ASSUME NEW S, NEW s \in Seq(S), Lined(s), NEW k \in 0..Len(s)
    PROVE  Lined(After(s, k))
  <1>1. Len(s) \in Nat /\ k \in Nat /\ k <= Len(s)
    OBVIOUS
  <1> DEFINE r == After(s, k)
  <1>2. Len(r) = Len(s) - k /\ \A i \in 1..(Len(s) - k) : r[i] = s[k + i]
    BY RestOfText
  <1> HIDE DEF r
  <1>3. ASSUME NEW i \in 1..(Len(r) - 1), r[i] = CR PROVE r[i + 1] = LF
    <2>1. /\ i \in 1..(Len(s) - k) /\ i + 1 \in 1..(Len(s) - k) /\ k + i \in 1..(Len(s) - 1)
          /\ k + (i + 1) = (k + i) + 1
      BY <1>1, <1>2
    <2>2. s[k + i] = CR
      BY <1>2, <1>3, <2>1
    <2>3. s[(k + i) + 1] = LF
      BY <2>1, <2>2 DEF Lined
    <2> QED
      BY <1>2, <2>1, <2>3
  <1> QED
    BY <1>3 DEF Lined, r

\* What was read converts, and converts further, as what is kept of it does.
Consumes(s, p) ==
    /\ s \in Seq(Units(Wide))
    /\ \A x \in Seq(Units(Wide)) : Readable(s \o x) = Readable(s) \o Readable(p \o x)

\* was_newline_ tells whether the next read starts at the beginning of a line.
Starting == Readable(consumed) = <<>> \/ Last(Readable(consumed)) = LF
Lines ==
    /\ Lined(typed)
    /\ pending # <<>> => pending[1] # CR
    /\ Readable(pending) = <<>>
    /\ Consumes(consumed, pending)
    /\ newline \in BOOLEAN
    /\ typed # <<>> => (newline <=> Starting)

LEMMA ReadableOfNothing == Readable(<<>>) = <<>> /\ Consumes(<<>>, <<>>)
  <1> DEFINE e == <<>>
             r == ScanInput(e)
             U == Units(Wide)
  <1>1. e \in Seq(U) /\ Len(e) = 0
    OBVIOUS
  <1> HIDE DEF e
  <1>2. r.used \in 0..Len(e) /\ Readable(After(e, r.used)) = <<>>
    BY <1>1, ReadContinues
  <1>3. r.used = 0
    BY <1>1, <1>2
  <1>4. After(e, 0) = e
    <2> HIDE DEF U
    <2>1. 0 \in 0..Len(e)
      BY <1>1
    <2> QED
      BY <1>1, <2>1, RestOfText
  <1>5. Readable(e) = <<>>
    BY <1>2, <1>3, <1>4, Zenon
  <1>6. ASSUME NEW x \in Seq(U) PROVE Readable(e \o x) = Readable(e) \o Readable(e \o x)
    <2>1. e \o x = x
      BY DEF e
    <2> DEFINE y == Readable(x)
    <2>2. y \in Seq(Bytes)
      BY TextIsReadable
    <2> HIDE DEF y
    <2>3. <<>> \o y = y
      BY <2>2
    <2> QED
      BY <1>5, <2>1, <2>3, Zenon DEF y
  <1>7. Consumes(e, e)
    BY <1>1, <1>6, Zenon DEF Consumes, U
  <1> QED
    BY <1>5, <1>7 DEF e

LEMMA ConsumesMore ==
    ASSUME NEW s, NEW p \in Seq(Units(Wide)), Consumes(s, p), NEW c \in Seq(Units(Wide))
    PROVE  LET r == ScanInput(p \o c)
           IN /\ Readable(s \o c) = Readable(s) \o Readable(p \o c)
              /\ Consumes(s \o c, After(p \o c, r.used))
  <1> DEFINE U == Units(Wide)
             w == p \o c
             r == ScanInput(w)
             q == After(w, r.used)
             b == Readable(w)
             a == Readable(s)
  <1>1. s \in Seq(U) /\ \A x \in Seq(U) : Readable(s \o x) = a \o Readable(p \o x)
    BY Zenon DEF Consumes, U, a
  <1>2. p \in Seq(U) /\ c \in Seq(U)
    OBVIOUS
  <1>3. w \in Seq(U) /\ s \o c \in Seq(U)
    <2> HIDE DEF U
    <2> QED
      BY <1>1, <1>2, JoinedText
  <1>4. Readable(s \o c) = a \o b
    BY <1>1, <1>2, Zenon DEF b, w
  <1> HIDE DEF w
  <1>5. b = r.bytes /\ b \in Seq(Bytes) /\ a \in Seq(Bytes)
    BY <1>1, <1>3, TextIsReadable DEF InputText
  <1>6. q \in Seq(U) /\ \A x \in Seq(U) : Readable(w \o x) = r.bytes \o Readable(q \o x)
    <2>1. q \in Seq(Units(Wide)) /\ Continues(w)
      BY <1>3, ReadContinues
    <2> HIDE DEF q
    <2> QED
      BY <2>1, Zenon DEF Continues, U, q
  <1> HIDE DEF U, r, q, a, b
  <1>7. ASSUME NEW x \in Seq(U) PROVE Readable((s \o c) \o x) = Readable(s \o c) \o Readable(q \o x)
    <2> DEFINE z == Readable(q \o x)
    <2>0. \A l, m, n \in Seq(U) : (l \o m) \o n = l \o (m \o n)
      BY JoinAssociates
    <2>1. (s \o c) \o x = s \o (c \o x) /\ c \o x \in Seq(U)
      <3>1. c \o x \in Seq(U)
        BY <1>2, JoinedText
      <3> QED
        BY <1>1, <1>2, <2>0, <3>1, Zenon
    <2>2. (p \o c) \o x = p \o (c \o x)
      BY <1>2, <2>0, Zenon
    <2>3. Readable(s \o (c \o x)) = a \o Readable(p \o (c \o x))
      BY <1>1, <2>1, Zenon
    <2>4. Readable(w \o x) = b \o z
      BY <1>5, <1>6, Zenon
    <2>5. q \o x \in Seq(U)
      BY <1>6, JoinedText
    <2>6. z \in Seq(Bytes)
      BY <2>5, TextIsReadable DEF U
    <2> HIDE DEF z
    <2>7. (a \o b) \o z = a \o (b \o z)
      <3>1. \A l, m, n \in Seq(Bytes) : (l \o m) \o n = l \o (m \o n)
        BY JoinAssociates
      <3> QED
        BY <1>5, <2>6, <3>1, Zenon
    <2> QED
      BY <1>4, <2>1, <2>2, <2>3, <2>4, <2>7, Zenon DEF z, w
  <1>8. Consumes(s \o c, q)
    BY <1>3, <1>7, Zenon DEF Consumes, U
  <1> QED
    BY <1>4, <1>8 DEF q, r, a, b, w

\* The end of a text that is followed by another one.
LEMMA LastOfJoined ==
    ASSUME NEW a \in Seq(Bytes), NEW b \in Seq(Bytes), b # <<>>
    PROVE  a \o b # <<>> /\ Last(a \o b) = Last(b)
  <1> DEFINE t == a \o b
  <1>1. /\ t \in Seq(Bytes) /\ Len(t) = Len(a) + Len(b)
        /\ \A i \in 1..Len(b) : t[Len(a) + i] = b[i]
        /\ Len(a) \in Nat /\ Len(b) \in Nat
    BY JoinedText
  <1>2. Len(b) # 0
    BY NotEmpty
  <1> HIDE DEF t
  <1>3. Len(b) \in 1..Len(b)
    BY <1>1, <1>2
  <1>4. t[Len(t)] = b[Len(b)]
    BY <1>1, <1>3
  <1>5. t # <<>>
    <2>1. Len(<<>>) = 0 /\ Len(t) # 0
      BY <1>1, <1>2
    <2> QED
      BY <2>1
  <1> QED
    BY <1>4, <1>5 DEF Last, t

LEMMA StartsAreLines == ASSUME InputInit, \A s \in Inputs : Lined(s) PROVE Lines
  <1>1. /\ pending = <<>> /\ consumed = <<>> /\ newline = TRUE /\ typed \in Inputs
    BY DEF InputInit
  <1>2. Readable(<<>>) = <<>> /\ Consumes(<<>>, <<>>)
    BY ReadableOfNothing
  <1>3. Starting
    BY <1>1, <1>2 DEF Starting
  <1> QED
    BY <1>1, <1>2, <1>3 DEF Lines

\* What underflow finds: in the words of EofWhenDue.
Finds(r) ==
    /\ r.bytes = <<>> <=> due = <<>> \/ (due[1] = CtrlZ /\ AtLineStart)
    /\ r.bytes # <<>> => r.bytes[1] # Eof

LEMMA UnderflowFinds ==
    ASSUME InputInv, Lines, Rest = <<>>
    PROVE  LET r == NextRead
               c == SubSeq(typed, 1, r.k)
           IN /\ Finds(r)
              /\ r.k \in 0..Len(typed)
              /\ r.newline \in BOOLEAN
              /\ r.pending # <<>> => r.pending[1] # CR
              /\ Readable(r.pending) = <<>>
              /\ r.dropped => r.pending = <<>> /\ r.newline = TRUE
              /\ ~r.dropped => /\ Consumes(consumed \o c, r.pending)
                               /\ r.k < Len(typed) =>
                                    (r.newline <=> \/ Readable(consumed \o c) = <<>>
                                                   \/ Last(Readable(consumed \o c)) = LF)
  <1> DEFINE r == NextRead
             y == Readable(pending \o typed)
  <1>1. Members /\ ReadsWhatIsDue
    BY DEF InputInv
  <1>2. /\ typed \in Seq(Units(Wide)) /\ pending \in Seq(Units(Wide)) /\ Len(typed) \in Nat
        /\ due \in Seq(Bytes)
    BY <1>1 DEF Members
  <1>3. due = y /\ y \in Seq(Bytes)
    <2>1. y \in Seq(Bytes) /\ Rest \o y = due
      BY <1>1, DueIs
    <2> HIDE DEF y
    <2>2. <<>> \o y = y
      BY <2>1
    <2> QED
      BY <2>1, <2>2, Zenon
  <1>4. /\ Lined(typed) /\ (pending # <<>> => pending[1] # CR) /\ Readable(pending) = <<>>
        /\ Consumes(consumed, pending) /\ newline \in BOOLEAN
        /\ (typed # <<>> => (newline <=> Starting))
    BY DEF Lines
  <1>5. consumed \in Seq(Units(Wide))
    BY <1>4, Zenon DEF Consumes
  <1>6. AtLineStart <=> Starting
    <2>1. InputText(consumed) = Readable(consumed)
      BY <1>5, TextIsReadable
    <2> QED
      BY <2>1, Zenon DEF AtLineStart, Starting
  <1>7. CASE typed = <<>>
    <2>1. /\ r.k = 0 /\ r.dropped = FALSE /\ r.bytes = <<>> /\ r.pending = pending
          /\ r.newline = newline
      BY <1>7 DEF NextRead
    <2> HIDE DEF r, y
    <2>2. pending \o typed = pending
      BY <1>2, <1>7
    <2>3. due = <<>>
      BY <1>3, <1>4, <2>2, Zenon DEF y
    <2>4. SubSeq(typed, 1, 0) = <<>> /\ consumed \o <<>> = consumed /\ 0 \in 0..Len(typed)
          /\ ~(0 < Len(typed))
      BY <1>2, <1>5, <1>7
    <2>5. Finds(r)
      BY <2>1, <2>3 DEF Finds
    <2>6. consumed \o SubSeq(typed, 1, r.k) = consumed
      BY <2>1, <2>4
    <2> QED
      BY <1>4, <2>1, <2>4, <2>5, <2>6 DEF r
  <1>8. CASE typed # <<>>
    <2> DEFINE k == ChunkLength(WbufferSize - Len(pending))
               c == SubSeq(typed, 1, k)
               w == pending \o c
               s == ScanInput(w)
               b == s.bytes
               eof == newline /\ b # <<>> /\ b[1] = CtrlZ
               rest == After(w, s.used)
               left == After(typed, k)
    <2>1. /\ r.k = k /\ r.dropped = eof
          /\ r.bytes = (IF eof THEN <<>> ELSE b)
          /\ r.pending = (IF eof THEN <<>> ELSE Kept(w, s.used))
          /\ r.newline = (eof \/ EndsLine(b))
      BY <1>8 DEF NextRead, Read
    <2>2. k \in 0..Len(typed) /\ k \in Nat /\ k <= Len(typed)
      BY <1>1, <1>2, Chunk
    <2>3. k < Len(typed) => Readable(w) # <<>>
      BY <1>1, <1>4, <1>8, ReadDelivers
    <2> HIDE DEF k
    <2>4. c \in Seq(Units(Wide)) /\ c \o left = typed /\ left \in Seq(Units(Wide))
          /\ (k = Len(typed) => left = <<>>)
      BY <1>2, <2>2, CutInTwo, RestOfText
    <2>5. r.k = k => SubSeq(typed, 1, r.k) = c
      OBVIOUS
    <2> HIDE DEF c, left
    <2>6. w \in Seq(Units(Wide))
      BY <1>2, <2>4
    <2>7. /\ Readable(consumed \o c) = Readable(consumed) \o Readable(w)
          /\ Consumes(consumed \o c, rest)
      BY <1>2, <1>4, <2>4, ConsumesMore
    <2>8. w \o left = pending \o typed
      <3>1. (pending \o c) \o left = pending \o (c \o left)
        <4> DEFINE U == Units(Wide)
        <4>1. pending \in Seq(U)
          BY <1>2
        <4>2. c \in Seq(U)
          BY <2>4
        <4>3. left \in Seq(U)
          BY <2>4
        <4> HIDE DEF U
        <4>4. \A l, m, n \in Seq(U) : (l \o m) \o n = l \o (m \o n)
          BY JoinAssociates
        <4> QED
          BY <4>1, <4>2, <4>3, <4>4, Zenon
      <3> QED
        BY <2>4, <3>1, Zenon
    <2> HIDE DEF w
    <2>9. /\ b \in Seq(Bytes) /\ rest \in Seq(Units(Wide)) /\ Decode(Wide, rest).cp = Incomplete
          /\ Readable(rest) = <<>> /\ Continues(w)
      BY <2>6, ReadContinues
    <2>10. Readable(w) = b
      BY <2>6, TextIsReadable DEF InputText
    <2>11. y = b \o Readable(rest \o left)
      BY <2>4, <2>8, <2>9, Zenon DEF Continues, y
    <2>12. Kept(w, s.used) = rest
      BY Zenon DEF Kept
    <2> DEFINE z == Readable(rest \o left)
    <2>13. z \in Seq(Bytes)
      <3>1. rest \o left \in Seq(Units(Wide))
        <4> HIDE DEF rest
        <4> QED
          BY <2>4, <2>9
      <3> QED
        BY <3>1, TextIsReadable
    <2>14. b = <<>> => y = <<>>
      <3> SUFFICES ASSUME b = <<>> PROVE y = <<>>
        OBVIOUS
      <3>1. k = Len(typed)
        BY <1>2, <2>2, <2>3, <2>10
      <3>2. left = <<>> /\ w \o <<>> = w
        BY <2>4, <2>6, <3>1
      <3> HIDE DEF b, y
      <3> QED
        BY <2>8, <2>10, <3>2, Zenon DEF y, b
    <2>15. rest # <<>> => rest[1] # CR
      <3> HIDE DEF rest
      <3> SUFFICES ASSUME rest # <<>>, rest[1] = CR PROVE FALSE
        OBVIOUS
      <3>1. Decode(Wide, rest) = Decoded(CR, 1)
        BY <2>9, ControlUnit
      <3>2. CR # Incomplete
        BY DEF CR, Incomplete
      <3> QED
        BY <2>9, <3>1, <3>2, DecodedFields
    <2> HIDE DEF z, b, y, r, rest, s
    <2>16. b # <<>> => y # <<>> /\ y[1] = b[1] /\ b[1] \in Bytes /\ b[1] # Eof
      <3> SUFFICES ASSUME b # <<>> PROVE y # <<>> /\ y[1] = b[1] /\ b[1] \in Bytes /\ b[1] # Eof
        OBVIOUS
      <3>1. Len(b) \in Nat /\ Len(b) # 0
        BY <2>9, NotEmpty
      <3>2. /\ Len(b \o z) = Len(b) + Len(z) /\ Len(z) \in Nat
            /\ \A i \in 1..Len(b) : (b \o z)[i] = b[i]
        BY <2>9, <2>13, JoinedText
      <3>3. Len(b \o z) # 0 /\ (b \o z)[1] = b[1] /\ Len(<<>>) = 0
        BY <3>1, <3>2
      <3>4. y = b \o z
        BY <2>11 DEF z
      <3>5. b[1] \in Bytes
        BY <2>9, <3>1
      <3>6. \A v \in Bytes : v # Eof
        BY DEF Bytes, Eof
      <3> QED
        BY <3>3, <3>4, <3>5, <3>6, Zenon
    <2>17. newline <=> AtLineStart
      BY <1>4, <1>6, <1>8
    <2>18. Finds(r)
      <3>1. CASE b = <<>>
        <4>1. r.bytes = <<>>
          BY <2>1, <3>1
        <4> QED
          BY <1>3, <2>14, <3>1, <4>1 DEF Finds
      <3>2. CASE b # <<>> /\ eof
        <4>1. r.bytes = <<>> /\ due[1] = CtrlZ /\ AtLineStart
          BY <1>3, <2>1, <2>16, <2>17, <3>2
        <4> QED
          BY <4>1 DEF Finds
      <3>3. CASE b # <<>> /\ ~eof
        <4>1. r.bytes = b /\ due # <<>> /\ ~(due[1] = CtrlZ /\ AtLineStart)
          BY <1>3, <2>1, <2>16, <2>17, <3>3
        <4> QED
          BY <2>16, <3>3, <4>1 DEF Finds
      <3> QED
        BY <3>1, <3>2, <3>3
    <2>19. r.newline \in BOOLEAN
      BY <2>1 DEF EndsLine
    <2>20. SubSeq(typed, 1, r.k) = c /\ r.k = k
      BY <2>1, <2>5
    <2>21. CASE eof
      BY <2>1, <2>2, <2>18, <2>19, <2>20, <2>21, ReadableOfNothing DEF r
    <2>22. CASE ~eof
      <3>1. ~r.dropped /\ r.pending = rest /\ r.newline = EndsLine(b)
        <4> HIDE DEF eof
        <4>1. ~r.dropped /\ r.pending = rest
          BY <2>1, <2>12, <2>22, Zenon
        <4>2. r.newline = EndsLine(b)
          <5>1. EndsLine(b) \in BOOLEAN
            BY DEF EndsLine
          <5> QED
            BY <2>1, <2>22, <5>1, Zenon
        <4> QED
          BY <4>1, <4>2
      <3>2. k < Len(typed) => (EndsLine(b) <=> \/ Readable(consumed \o c) = <<>>
                                                \/ Last(Readable(consumed \o c)) = LF)
        <4> SUFFICES ASSUME k < Len(typed)
                     PROVE  EndsLine(b) <=> \/ Readable(consumed \o c) = <<>>
                                            \/ Last(Readable(consumed \o c)) = LF
          OBVIOUS
        <4>1. b # <<>>
          BY <2>3, <2>10
        <4> DEFINE a == Readable(consumed)
        <4>2. a \in Seq(Bytes)
          BY <1>5, TextIsReadable
        <4> HIDE DEF a
        <4>3. a \o b # <<>> /\ Last(a \o b) = Last(b)
          BY <2>9, <4>1, <4>2, LastOfJoined
        <4>4. Readable(consumed \o c) = a \o b
          BY <2>7, <2>10, Zenon DEF a
        <4>5. EndsLine(b) <=> Last(b) = LF
          BY <4>1 DEF EndsLine
        <4> QED
          BY <4>3, <4>4, <4>5, Zenon
      <3> QED
        BY <2>2, <2>7, <2>9, <2>15, <2>18, <2>19, <2>20, <3>1, <3>2 DEF r
    <2> QED
      BY <2>21, <2>22
  <1> QED
    BY <1>7, <1>8

\* What a step that reads nothing leaves alone.
LEMMA LinesStay ==
    ASSUME Lines, typed' = typed, pending' = pending, newline' = newline, consumed' = consumed
    PROVE  Lines'
  <1>1. Starting' <=> Starting
    BY DEF Starting
  <1> QED
    BY <1>1 DEF Lines

LEMMA UnderflowKeepsLines ==
    ASSUME InputInv, Lines, Rest = <<>>, NEW op, NEW n, Underflow(op, n)
    PROVE  Lines'
  <1> DEFINE r == NextRead
             c == SubSeq(typed, 1, r.k)
             t == After(typed, r.k)
             read == consumed \o c
  <1>1. /\ r.k \in 0..Len(typed)
        /\ r.newline \in BOOLEAN
        /\ r.pending # <<>> => r.pending[1] # CR
        /\ Readable(r.pending) = <<>>
    BY UnderflowFinds
  <1>2. /\ r.dropped => r.pending = <<>> /\ r.newline = TRUE
        /\ ~r.dropped => Consumes(read, r.pending)
        /\ ~r.dropped /\ r.k < Len(typed) =>
             (r.newline <=> Readable(read) = <<>> \/ Last(Readable(read)) = LF)
    BY UnderflowFinds
  <1>3. /\ typed' = t /\ pending' = r.pending /\ newline' = r.newline
        /\ consumed' = (IF r.dropped THEN <<>> ELSE read)
    BY DEF Underflow
  <1>4. typed \in Seq(Units(Wide)) /\ Len(typed) \in Nat /\ Lined(typed)
    BY DEF InputInv, Members, Lines
  <1> HIDE DEF r, read
  <1>5. Lined(t) /\ (t # <<>> => r.k < Len(typed))
    <2>1. Lined(t)
      BY <1>1, <1>4, RestIsLined
    <2>2. r.k = Len(typed) => t = <<>>
      BY <1>1, <1>4, RestOfText
    <2> QED
      BY <1>1, <1>4, <2>1, <2>2
  <1> HIDE DEF t
  <1>6. CASE r.dropped
    <2>1. consumed' = <<>> /\ pending' = <<>> /\ newline' = TRUE
      BY <1>2, <1>3, <1>6
    <2>2. Starting'
      BY <2>1, ReadableOfNothing DEF Starting
    <2> QED
      BY <1>3, <1>5, <2>1, <2>2, ReadableOfNothing DEF Lines
  <1>7. CASE ~r.dropped
    <2>1. consumed' = read /\ pending' = r.pending /\ newline' = r.newline /\ typed' = t
      BY <1>3, <1>7
    <2>2. Starting' <=> Readable(read) = <<>> \/ Last(Readable(read)) = LF
      BY <2>1 DEF Starting
    <2>3. Lined(typed)' /\ Consumes(consumed, pending)'
      BY <1>2, <1>5, <1>7, <2>1
    <2>4. (typed' # <<>>) => (newline' <=> Starting')
      BY <1>2, <1>5, <1>7, <2>1, <2>2
    <2>5. /\ pending' # <<>> => pending'[1] # CR
          /\ Readable(pending)' = <<>>
          /\ newline' \in BOOLEAN
      BY <1>1, <2>1
    <2> QED
      BY <2>3, <2>4, <2>5 DEF Lines
  <1> QED
    BY <1>6, <1>7

LEMMA LinesKeep == InputInv /\ Lines /\ [InputNext]_inputVars => Lines'
  <1> SUFFICES ASSUME InputInv, Lines, [InputNext]_inputVars PROVE Lines'
    OBVIOUS
  <1>1. ASSUME NEW op, NEW n, Get(op, n) PROVE Lines'
    <2>1. CASE Rest = <<>>
      BY <1>1, <2>1, UnderflowKeepsLines DEF Get
    <2>2. CASE Rest # <<>>
      BY <1>1, <2>2, LinesStay DEF Get
    <2> QED
      BY <2>1, <2>2
  <1>2. CASE Sgetc \/ Sbumpc
    BY <1>1, <1>2 DEF Sgetc, Sbumpc
  <1>3. CASE Sungetc
    BY <1>3, LinesStay DEF Sungetc
  <1>4. CASE \E c \in Backs : Sputbackc(c)
    BY <1>4, LinesStay DEF Sputbackc
  <1>5. CASE Sync
    <2>1. pending' = <<>> /\ newline' = TRUE /\ consumed' = <<>> /\ typed' = typed
      BY <1>5 DEF Sync
    <2>2. Starting'
      BY <2>1, ReadableOfNothing DEF Starting
    <2> QED
      BY <2>1, <2>2, ReadableOfNothing DEF Lines
  <1>6. CASE UNCHANGED inputVars
    BY <1>6, LinesStay DEF inputVars
  <1> QED
    BY <1>2, <1>3, <1>4, <1>5, <1>6 DEF InputNext

\* The step of EofWhenDue.
ReadsTimely ==
    result'.op \in {"sgetc", "sbumpc"} /\ Rest = <<>> =>
        (result'.value = Eof <=> due = <<>> \/ (due[1] = CtrlZ /\ AtLineStart))

LEMMA StepIsTimely == InputInv /\ Lines /\ [InputNext]_inputVars => [ReadsTimely]_inputVars
  <1> SUFFICES ASSUME InputInv, Lines, InputNext PROVE ReadsTimely
    BY Zenon
  <1>1. ASSUME NEW op, NEW n, Get(op, n), Rest = <<>> PROVE ReadsTimely
    <2> DEFINE r == NextRead
    <2>1. Finds(r)
      BY <1>1, UnderflowFinds
    <2>2. result'.value = IF r.bytes = <<>> THEN Eof ELSE r.bytes[1]
      BY <1>1 DEF Get, Underflow
    <2> HIDE DEF r
    <2>3. result'.value = Eof <=> r.bytes = <<>>
      BY <2>1, <2>2 DEF Finds
    <2> QED
      BY <2>1, <2>3, Zenon DEF Finds, ReadsTimely
  <1>2. CASE Sgetc \/ Sbumpc
    <2>1. CASE Rest = <<>>
      BY <1>1, <1>2, <2>1 DEF Sgetc, Sbumpc
    <2>2. CASE Rest # <<>>
      BY <2>2 DEF ReadsTimely
    <2> QED
      BY <2>1, <2>2
  <1>3. CASE Sungetc
    <2>1. result'.op = "sungetc"
      BY <1>3 DEF Sungetc
    <2> QED
      BY <2>1 DEF ReadsTimely
  <1>4. CASE \E c \in Backs : Sputbackc(c)
    <2>1. result'.op = "sputbackc"
      BY <1>4 DEF Sputbackc
    <2> QED
      BY <2>1 DEF ReadsTimely
  <1>5. CASE Sync
    <2>1. result'.op = "sync"
      BY <1>5 DEF Sync
    <2> QED
      BY <2>1 DEF ReadsTimely
  <1> QED
    BY <1>2, <1>3, <1>4, <1>5 DEF InputNext

\* When what is typed has a line feed after each carriage return, as the console's line input mode
\* types them for the enter key, underflow returns eof at the end of the input and for a ctrl-Z at
\* the beginning of a line, and at no other time: a chunk that ends between CR and LF, or inside a
\* surrogate pair, is not taken for the end of the input, for any size of wbuffer_.
THEOREM EofIsTimely ==
    ASSUME Careful, \A s \in Inputs : Lined(s)
    PROVE  InputSpec => EofWhenDue
  <1>1. InputInit => InputInv /\ Lines
    BY InputStarts, StartsAreLines
  <1>2. InputInv /\ Lines /\ [InputNext]_inputVars => InputInv' /\ Lines'
    BY InputNextKeeps, LinesKeep
  <1>3. InputInv /\ Lines /\ [InputNext]_inputVars => [ReadsTimely]_inputVars
    BY StepIsTimely
  <1>4. InputSpec => [][ReadsTimely]_inputVars
    BY <1>1, <1>2, <1>3, PTL DEF InputSpec
  <1> QED
    BY <1>4 DEF EofWhenDue, ReadsTimely
=============================================================================
