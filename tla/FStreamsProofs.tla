--------------------------- MODULE FStreamsProofs --------------------------
(***************************************************************************)
(* Proofs about FStreams, for every value of its constants: for any number *)
(* of streams and files and any sizes of buffers.                          *)
(***************************************************************************)
EXTENDS FStreams, FileBufObjectProofs

USE DEF GetAreas, PutAreas

Bits == {"eof", "fail", "bad"}

\* A stream whose filebuf is in order.
InOrder == {r \in Streams : Good(r.buf)}

\* The inductive invariant.
Inv ==
    /\ kind \in Kinds /\ faults \in Nat
    /\ disk \in [Names -> Seq(Chars)]
    /\ obj \in [Objs -> InOrder]

----------------------------------------------------------------------------
\* What is exchanged.

\* An area that does not lie in another object's last_char_ survives the exchange.
LEMMA GetAreaMended ==
    ASSUME NEW g \in GetAreas, g.at # Foreign
    PROVE  LET u == [g EXCEPT !.at = IF @ = Last THEN Foreign ELSE @]
           IN (IF u.at = Foreign THEN [u EXCEPT !.at = Last] ELSE u) = g
  <1>1. CASE g.at = Last
    BY <1>1
  <1>2. CASE g.at # Last
    BY <1>2
  <1> QED
    BY <1>1, <1>2

LEMMA PutAreaMended ==
    ASSUME NEW p \in PutAreas, p.at # Foreign
    PROVE  LET u == [p EXCEPT !.at = IF @ = Last THEN Foreign ELSE @]
           IN (IF u.at = Foreign THEN [u EXCEPT !.at = Last] ELSE u) = p
  <1>1. CASE p.at = Last
    BY <1>1
  <1>2. CASE p.at # Last
    BY <1>2
  <1> QED
    BY <1>1, <1>2

\* Pointers into the object are the only ones that another object has to mend, and all are.
LEMMA SwappedSame ==
    ASSUME NEW s, Good(s)
    PROVE  Swapped(s) = s
  <1> DEFINE t == Moved(s)
             g == [s.get EXCEPT !.at = IF @ = Last THEN Foreign ELSE @]
             p == [s.put EXCEPT !.at = IF @ = Last THEN Foreign ELSE @]
             gg == IF g.at = Foreign THEN [g EXCEPT !.at = Last] ELSE g
             pp == IF p.at = Foreign THEN [p EXCEPT !.at = Last] ELSE p
  <1>1. /\ s \in FileBufs
        /\ s.get.at # Foreign /\ s.put.at # Foreign
    BY ForeignAssumption DEF Good, MemorySafe, GetInBlock, PutInBlock, FileBufs
  <1>2. s.get \in GetAreas /\ s.put \in PutAreas
    <2> HIDE DEF GetAreas, PutAreas
    <2> QED
      BY <1>1 DEF FileBufs
  <1>3. gg = s.get /\ pp = s.put
    BY <1>1, <1>2, GetAreaMended, PutAreaMended
  <1>4. t = [s EXCEPT !.get = g, !.put = p] /\ t.get = g /\ t.put = p
    BY <1>1 DEF Moved, FileBufs
  <1> HIDE DEF t, g, p
  <1>5. Swapped(s) = [t EXCEPT !.get = gg, !.put = pp]
    BY <1>4 DEF Swapped, Mended, t
  <1>6. [t EXCEPT !.get = s.get, !.put = s.put] = s
    <2> HIDE DEF GetAreas, PutAreas
    <2> QED
      BY <1>1, <1>4 DEF FileBufs
  <1> QED
    BY <1>3, <1>5, <1>6

----------------------------------------------------------------------------
\* The steps.

\* Counting the failures and forgetting a closed file disturbs nothing.
LEMMA CountedGood ==
    ASSUME NEW s, Good(s)
    PROVE  Good(Counted(s)) /\ SameUse(s, Counted(s))
  <1> DEFINE e == [s EXCEPT !.file.errs = 0, !.got = <<>>, !.ok = TRUE]
             c == [s EXCEPT !.file = NewFile(<<>>), !.got = <<>>, !.ok = TRUE]
  <1> HIDE DEF GetAreas, PutAreas
  <1>1. <<>> \in Seq(Chars) /\ s \in FileBufs
    BY DEF Good
  <1>2. NewFile(<<>>) \in CFiles /\ [s.file EXCEPT !.errs = 0] \in CFiles
    <2>1. NewFile(<<>>) \in CFiles
      BY <1>1, NewFileType
    <2>2. s.file \in CFiles
      BY <1>1 DEF FileBufs
    <2> QED
      BY <2>1, <2>2 DEF CFiles
  <1>3. e = [s EXCEPT !.file = [s.file EXCEPT !.errs = 0], !.got = <<>>, !.ok = TRUE]
    BY <1>1 DEF FileBufs
  <1>4. e \in FileBufs /\ SameShell(s, e) /\ e.get = s.get /\ e.put = s.put
    BY <1>1, <1>2, <1>3 DEF FileBufs, SameShell
  <1>5. c \in FileBufs /\ SameShell(s, c) /\ c.get = s.get /\ c.put = s.put
    BY <1>1, <1>2 DEF FileBufs, SameShell
  <1> HIDE DEF e, c
  <1>6. Good(e) /\ Good(c) /\ SameUse(s, e) /\ SameUse(s, c)
    BY <1>4, <1>5, GoodFrame DEF SameShell, SameUse
  <1> QED
    BY <1>6 DEF Counted, e, c

LEMMA NewStreamInOrder == NewStream \in InOrder /\ NoStream \in InOrder
  <1>1. <<>> \in Seq(Chars)
    OBVIOUS
  <1>2. Good(NewFileBuf(NewFile(<<>>)))
    BY <1>1, NewFileType, NewFileBufGood
  <1>3. NewFileBuf(NewFile(<<>>)) \in FileBufs
    BY <1>2 DEF Good
  <1> QED
    BY <1>2, <1>3 DEF NewStream, NoStream, InOrder, Streams

\* A stream with another filebuf, state and name.
LEMMA ChangedInOrder ==
    ASSUME NEW r \in InOrder, NEW s, Good(s), NEW b \in SUBSET Bits, NEW n \in Names \cup {Nobody}
    PROVE  [r EXCEPT !.buf = s, !.state = b, !.name = n] \in InOrder
  <1>1. s \in FileBufs
    BY DEF Good
  <1> QED
    BY <1>1 DEF InOrder, Streams, Bits

\* What a filebuf in order leaves of its file and its failures.
LEMMA FileParts ==
    ASSUME NEW s, Good(s)
    PROVE  s.file.data \in Seq(Chars) /\ s.file.errs \in Nat /\ s.ok \in BOOLEAN
                /\ s.isOpen \in BOOLEAN
  <1>1. s \in FileBufs
    BY DEF Good
  <1>2. s.file \in CFiles /\ s.ok \in BOOLEAN /\ s.isOpen \in BOOLEAN
    BY <1>1 DEF FileBufs
  <1> QED
    BY <1>2 DEF CFiles

LEMMA DiskAfterType ==
    ASSUME Inv, NEW x \in Objs, NEW s, Good(s)
    PROVE  DiskAfter(x, s) \in [Names -> Seq(Chars)]
  <1>1. s.file.data \in Seq(Chars)
    BY FileParts
  <1> QED
    BY <1>1 DEF DiskAfter, Inv

LEMMA CalledInOrder ==
    ASSUME Inv, NEW x \in Objs, NEW s, Good(s), NEW bits \in SUBSET Bits
    PROVE  Called(x, s, bits) \in InOrder
  <1> DEFINE r == obj[x]
             b == IF s.ok THEN r.state ELSE r.state \cup bits
             n == IF s.isOpen THEN r.name ELSE Nobody
  <1>1. r \in InOrder
    BY DEF Inv
  <1>2. b \in SUBSET Bits /\ n \in Names \cup {Nobody}
    BY <1>1 DEF InOrder, Streams, Bits
  <1>3. Called(x, s, bits) = [r EXCEPT !.buf = Counted(s), !.state = b, !.name = n]
    BY <1>1 DEF Called, InOrder, Streams
  <1>4. Good(Counted(s))
    BY CountedGood
  <1> HIDE DEF r, b, n
  <1>5. [r EXCEPT !.buf = Counted(s), !.state = b, !.name = n] \in InOrder
    BY <1>1, <1>2, <1>4, ChangedInOrder
  <1> QED
    BY <1>3, <1>5

\* A call that yields a filebuf in order keeps the invariant.
LEMMA CallsInv ==
    ASSUME Inv, NEW x \in Objs, NEW s, Good(s), NEW bits \in SUBSET Bits, Calls(x, s, bits)
    PROVE  Inv'
  <1>1. Called(x, s, bits) \in InOrder /\ DiskAfter(x, s) \in [Names -> Seq(Chars)]
        /\ s.file.errs \in Nat
    BY CalledInOrder, DiskAfterType, FileParts
  <1> QED
    BY <1>1 DEF Inv, Calls

\* So does what gives one stream a value in order and leaves the rest.
LEMMA OneStreamInv ==
    ASSUME Inv, NEW x \in Objs, NEW r \in InOrder, obj' = [obj EXCEPT ![x] = r],
           kind' = kind, disk' \in [Names -> Seq(Chars)], faults' \in Nat
    PROVE  Inv'
  BY DEF Inv

LEMMA TwoStreamsInv ==
    ASSUME Inv, NEW x \in Objs, NEW y \in Objs, NEW r \in InOrder, NEW q \in InOrder,
           obj' = [obj EXCEPT ![x] = r, ![y] = q],
           kind' = kind, disk' \in [Names -> Seq(Chars)], faults' \in Nat
    PROVE  Inv'
  BY DEF Inv

LEMMA InitInv == Init => Inv
  <1> SUFFICES ASSUME Init PROVE Inv
    OBVIOUS
  <1>1. disk \in [Names -> Seq(Chars)]
    BY ContentsAssumption DEF Init
  <1> QED
    BY <1>1, NewStreamInOrder DEF Init, Inv

\* The filebuf of r before it opens the file n.
Given(r, n) == IF r.buf.isOpen THEN r.buf ELSE [r.buf EXCEPT !.file.data = disk[n]]

LEMMA GivenGood ==
    ASSUME Inv, NEW r \in InOrder, NEW n \in Names
    PROVE  Good(Given(r, n)) /\ SameUse(r.buf, Given(r, n))
  <1> DEFINE g == [r.buf EXCEPT !.file.data = disk[n]]
             f == [r.buf.file EXCEPT !.data = disk[n]]
  <1> HIDE DEF GetAreas, PutAreas
  <1>1. Good(r.buf) /\ r.buf \in FileBufs
    BY DEF InOrder, Good
  <1>2. f \in CFiles
    <2>1. r.buf.file \in CFiles /\ disk[n] \in Seq(Chars)
      BY <1>1 DEF FileBufs, Inv
    <2> QED
      BY <2>1 DEF CFiles
  <1>3. g = [r.buf EXCEPT !.file = f]
    BY <1>1 DEF FileBufs
  <1> HIDE DEF f
  <1>4. g \in FileBufs /\ SameShell(r.buf, g) /\ g.get = r.buf.get /\ g.put = r.buf.put
    BY <1>1, <1>2, <1>3 DEF FileBufs, SameShell
  <1>5. Given(r, n) = IF r.buf.isOpen THEN r.buf ELSE g
    BY DEF Given
  <1> HIDE DEF g
  <1>6. Good(g)
    BY <1>1, <1>4, GoodFrame
  <1> QED
    BY <1>1, <1>4, <1>5, <1>6 DEF SameUse, SameShell

LEMMA OpenAsInv ==
    ASSUME Inv, NEW x \in Objs, NEW r \in InOrder, OpenAs(x, r)
    PROVE  Inv'
  <1>1. PICK n \in Names, m \in ModesOf[kind], o \in Outcomes({"open", "end"}) :
            LET s == TryOpen(r, n, m, o)
            IN /\ obj' = [obj EXCEPT ![x] = OpenedStream(r, n, s)]
               /\ faults' = faults + s.file.errs
               /\ kind' = kind /\ disk' = disk
    BY DEF OpenAs
  <1> DEFINE given == IF r.buf.isOpen THEN r.buf ELSE [r.buf EXCEPT !.file.data = disk[n]]
             s == TryOpen(r, n, m, o)
             b == IF s.ok THEN {} ELSE r.state \cup {"fail"}
             k == IF s.ok THEN n ELSE r.name
  <1>3. Good(given)
    BY GivenGood DEF Given
  <1>4. m \cup Modifier(kind) \in SUBSET Flags
    BY KindsAssumption DEF Inv, Modifier, Flags
  <1>5. s = Open(given, m \cup Modifier(kind), o)
    BY DEF TryOpen
  <1> HIDE DEF given
  <1>6. Good(s)
    BY <1>3, <1>4, <1>5, OpenGood
  <1>7. s.file.errs \in Nat /\ Good(Counted(s))
    BY <1>6, FileParts, CountedGood
  <1>8. b \in SUBSET Bits /\ k \in Names \cup {Nobody}
    BY DEF InOrder, Streams, Bits
  <1>9. OpenedStream(r, n, s) = [r EXCEPT !.buf = Counted(s), !.state = b, !.name = k]
    BY DEF OpenedStream, InOrder, Streams
  <1>10. /\ obj' = [obj EXCEPT ![x] = OpenedStream(r, n, s)]
         /\ faults' = faults + s.file.errs
         /\ kind' = kind /\ disk' = disk
    BY <1>1
  <1> HIDE DEF s, b, k
  <1>11. OpenedStream(r, n, s) \in InOrder
    <2>1. [r EXCEPT !.buf = Counted(s), !.state = b, !.name = k] \in InOrder
      BY <1>7, <1>8, ChangedInOrder
    <2> QED
      BY <1>9, <2>1
  <1>12. faults' \in Nat /\ disk' \in [Names -> Seq(Chars)]
    BY <1>7, <1>10 DEF Inv
  <1> QED
    BY <1>10, <1>11, <1>12, OneStreamInv

\* A stream that takes over what another held.
LEMMA TakenOverSame ==
    ASSUME NEW r \in InOrder
    PROVE  [r EXCEPT !.buf = Swapped(@)] = r
  <1>1. Swapped(r.buf) = r.buf
    BY SwappedSame DEF InOrder
  <1> QED
    BY <1>1 DEF InOrder, Streams

LEMMA AssignedGood ==
    ASSUME NEW s, Good(s), NEW o, o.wrote \in Nat
    PROVE  Good(Assigned(s, o))
  <1> DEFINE t == IF s.isOpen THEN Close(s, o) ELSE s
  <1>1. Good(t)
    BY CloseGood
  <1>2. Assigned(s, o) = Swapped(t)
    BY DEF Assigned
  <1> HIDE DEF t
  <1> QED
    BY <1>1, <1>2, SwappedSame

LEMMA MoveAssignInv ==
    ASSUME Inv, NEW x \in Objs, NEW y \in Objs, MoveAssign(x, y)
    PROVE  Inv'
  <1>1. PICK o \in Outcomes(CloseCalls) :
            LET s == Assigned(obj[x].buf, o)
            IN /\ obj' = [obj EXCEPT ![x] = [obj[y] EXCEPT !.buf = Swapped(@)],
                                     ![y] = [obj[x] EXCEPT !.buf = Counted(s),
                                                 !.name = IF s.isOpen THEN @ ELSE Nobody]]
               /\ disk' = DiskAfter(x, s)
               /\ faults' = faults + s.file.errs
               /\ kind' = kind
    BY DEF MoveAssign
  <1> DEFINE s == Assigned(obj[x].buf, o)
             r == [obj[y] EXCEPT !.buf = Swapped(@)]
             n == IF s.isOpen THEN obj[x].name ELSE Nobody
             q == [obj[x] EXCEPT !.buf = Counted(s), !.name = IF s.isOpen THEN @ ELSE Nobody]
  <1>2. obj[x] \in InOrder /\ obj[y] \in InOrder
    BY DEF Inv
  <1>3. Good(s)
    BY <1>2, OutcomeType, AssignedGood DEF InOrder
  <1>4. r \in InOrder
    BY <1>2, TakenOverSame
  <1>5. q = [obj[x] EXCEPT !.buf = Counted(s), !.state = obj[x].state, !.name = n]
    BY <1>2 DEF InOrder, Streams
  <1>6. n \in Names \cup {Nobody} /\ obj[x].state \in SUBSET Bits
    BY <1>2 DEF InOrder, Streams, Bits
  <1>7. /\ obj' = [obj EXCEPT ![x] = r, ![y] = q]
        /\ disk' = DiskAfter(x, s) /\ faults' = faults + s.file.errs /\ kind' = kind
    BY <1>1
  <1> HIDE DEF s, r, n, q
  <1>8. Good(Counted(s))
    BY <1>3, CountedGood
  <1>9. q \in InOrder
    <2>1. [obj[x] EXCEPT !.buf = Counted(s), !.state = obj[x].state, !.name = n] \in InOrder
      BY <1>2, <1>6, <1>8, ChangedInOrder
    <2> QED
      BY <1>5, <2>1
  <1>10. disk' \in [Names -> Seq(Chars)] /\ faults' \in Nat
    BY <1>3, <1>7, DiskAfterType, FileParts DEF Inv
  <1> QED
    BY <1>4, <1>7, <1>9, <1>10, TwoStreamsInv

LEMMA MoveConstructInv ==
    ASSUME Inv, NEW x \in Objs, NEW y \in Objs, MoveConstruct(x, y)
    PROVE  Inv'
  <1> DEFINE r == [obj[y] EXCEPT !.buf = Swapped(@)]
             q == [NewStream EXCEPT !.state = obj[y].state]
  <1>1. obj[y] \in InOrder
    BY DEF Inv
  <1>2. r \in InOrder
    BY <1>1, TakenOverSame
  <1>3. q \in InOrder
    BY <1>1, NewStreamInOrder DEF InOrder, Streams
  <1>4. obj' = [obj EXCEPT ![x] = r, ![y] = q] /\ kind' = kind /\ disk' = disk /\ faults' = faults
    BY DEF MoveConstruct
  <1> HIDE DEF r, q
  <1> QED
    BY <1>2, <1>3, <1>4, TwoStreamsInv DEF Inv

LEMMA SwapInv ==
    ASSUME Inv, NEW x \in Objs, NEW y \in Objs, Swap(x, y)
    PROVE  Inv'
  <1> DEFINE r == [obj[y] EXCEPT !.buf = Swapped(@)]
             q == [obj[x] EXCEPT !.buf = Swapped(@)]
  <1>1. r \in InOrder /\ q \in InOrder
    BY TakenOverSame DEF Inv
  <1>2. obj' = [obj EXCEPT ![x] = r, ![y] = q] /\ kind' = kind /\ disk' = disk /\ faults' = faults
    BY DEF Swap
  <1> HIDE DEF r, q
  <1> QED
    BY <1>1, <1>2, TwoStreamsInv DEF Inv

LEMMA CharType ==
    ASSUME NEW w \in Seq(Chars), NEW i \in 1..Len(w)
    PROVE  w[i] \in Chars
  OBVIOUS

\* The filebuf s becomes t in a call: it is closed, or has the same file as before.
ClosedOrSame(s, t) == (\E o \in Outcomes(CloseCalls) : t = Close(s, o)) \/ SameUse(s, t)

\* The filebuf s becomes t in a call that sets bits on failure, and a C call that fails shows.
Shown(s, t, bits) ==
    Honest(s, t) /\ (bits \cap {"fail", "bad"} # {} \/ t.file.errs = s.file.errs)

\* A call of x, which is constructed, leaves its filebuf in order.
Call(x) ==
    /\ obj[x].alive
    /\ \E s, bits : /\ Good(s) /\ ClosedOrSame(obj[x].buf, s) /\ Shown(obj[x].buf, s, bits)
                    /\ bits \in SUBSET Bits /\ Calls(x, s, bits)

LEMMA CallActions ==
    ASSUME Inv, NEW x \in Objs,
           \/ CloseFile(x) \/ Output(x) \/ Input(x) \/ Unget(x) \/ Flushes(x) \/ Rewind(x)
           \/ SetBuffer(x)
    PROVE  Call(x)
  <1> DEFINE s == obj[x].buf
  <1>1. Good(s)
    BY DEF Inv, InOrder
  <1>2. CASE CloseFile(x)
    <2>0. obj[x].alive
      BY <1>2 DEF CloseFile
    <2>1. PICK o \in Outcomes(CloseCalls) : Calls(x, Close(s, o), {"fail"})
      BY <1>2 DEF CloseFile
    <2>2. Good(Close(s, o)) /\ Honest(s, Close(s, o))
      BY <1>1, OutcomeType, CloseGood, CloseHonest
    <2> QED
      BY <2>0, <2>1, <2>2 DEF Call, ClosedOrSame, Shown, Bits
  <1>3. CASE Output(x)
    <2>0. obj[x].alive
      BY <1>3 DEF Output, Usable
    <2>1. PICK w \in Strings, o \in Outcomes({"seek", "write", "direct"}) :
              Calls(x, IF Len(w) = 1 THEN PutChar(s, w[1], o) ELSE Xsputn(s, w, o), {"bad"})
      BY <1>3 DEF Output
    <2>2. w \in Seq(Chars) /\ o.wrote \in Nat
      BY StringsAssumption, OutcomeType
    <2> DEFINE t == IF Len(w) = 1 THEN PutChar(s, w[1], o) ELSE Xsputn(s, w, o)
    <2>3. Good(t) /\ SameUse(s, t) /\ Honest(s, t)
      <3>1. CASE Len(w) = 1
        <4>1. 1 \in 1..Len(w)
          BY <3>1
        <4>2. w[1] \in Chars
          BY <2>2, <4>1, CharType
        <4> QED
          BY <1>1, <2>2, <3>1, <4>2, PutCharGood, PutCharHonest DEF SameUse
      <3>2. CASE Len(w) # 1
        BY <1>1, <2>2, <3>2, XsputnGood, XsputnHonest DEF SameUse
      <3> QED
        BY <3>1, <3>2
    <2> QED
      BY <2>0, <2>1, <2>3 DEF Call, ClosedOrSame, Shown, Bits
  <1>4. CASE Input(x)
    <2>0. obj[x].alive
      BY <1>4 DEF Input, Usable
    <2>1. PICK o \in Outcomes({"write"}) : Calls(x, BumpChar(s, o), {"eof", "fail"})
      BY <1>4 DEF Input
    <2>2. /\ Good(BumpChar(s, o)) /\ SameUse(s, BumpChar(s, o))
          /\ Honest(s, BumpChar(s, o))
      BY <1>1, OutcomeType, BumpCharGood, BumpCharHonest
    <2> QED
      BY <2>0, <2>1, <2>2 DEF Call, ClosedOrSame, Shown, Bits
  <1>5. CASE Unget(x)
    <2>1. /\ Good(PbackFail(s, <<>>)) /\ SameUse(s, PbackFail(s, <<>>))
          /\ Honest(s, PbackFail(s, <<>>))
      BY <1>1, OneCharType, PbackFailGood, PbackFailHonest
    <2> QED
      BY <1>5, <2>1 DEF Call, ClosedOrSame, Shown, Unget, Usable, Bits
  <1>6. CASE Flushes(x)
    <2>0. obj[x].alive
      BY <1>6 DEF Flushes, Usable
    <2>1. PICK o \in Outcomes(SyncCalls) : Calls(x, Sync(s, o), {"bad"})
      BY <1>6 DEF Flushes
    <2>2. Good(Sync(s, o)) /\ SameUse(s, Sync(s, o)) /\ Honest(s, Sync(s, o))
      BY <1>1, OutcomeType, SyncGood, SyncHonest DEF SameUse
    <2> QED
      BY <2>0, <2>1, <2>2 DEF Call, ClosedOrSame, Shown, Bits
  <1>7. CASE Rewind(x)
    <2>0. obj[x].alive
      BY <1>7 DEF Rewind, Usable
    <2>1. PICK o \in Outcomes(SyncCalls \cup {"position", "tell"}) :
              Calls(x, SeekOff(s, 0, "beg", o), {"fail"})
      BY <1>7 DEF Rewind
    <2>2. /\ Good(SeekOff(s, 0, "beg", o)) /\ SameUse(s, SeekOff(s, 0, "beg", o))
          /\ Honest(s, SeekOff(s, 0, "beg", o))
      BY <1>1, OutcomeType, SeekOffGood, SeekOffHonest
    <2> QED
      BY <2>0, <2>1, <2>2 DEF Call, ClosedOrSame, Shown, Bits
  <1>8. CASE SetBuffer(x)
    <2>0. obj[x].alive
      BY <1>8 DEF SetBuffer
    <2>1. PICK b \in DOMAIN UserSizes : Calls(x, SetBuf(s, b, UserSizes[b]), {})
      BY <1>8 DEF SetBuffer
    <2>2. b \in UserBufs \cup {Null} /\ UserSizes[b] \in Nat
      BY UserSizesAssumption
    <2> DEFINE t == SetBuf(s, b, UserSizes[b])
    <2>3. Good(t) /\ SameUse(s, t) /\ Honest(s, t) /\ t.file = s.file
      BY <1>1, <2>2, SetBufGood, SetBufHonest
    <2> QED
      BY <2>0, <2>1, <2>3 DEF Call, ClosedOrSame, Shown
  <1> QED
    BY <1>2, <1>3, <1>4, <1>5, <1>6, <1>7, <1>8

\* The steps by what they do to the streams.
LEMMA StepCases ==
    ASSUME Inv, Next
    PROVE  \E x \in Objs :
               \/ Call(x) \/ Construct(x) \/ ConstructOpen(x) \/ OpenFile(x) \/ Destroy(x) \/ Clear(x)
               \/ \E y \in Objs : Swap(x, y) \/ MoveAssign(x, y) \/ MoveConstruct(x, y)
  BY CallActions DEF Next

LEMMA DestroyInv ==
    ASSUME Inv, NEW x \in Objs, Destroy(x)
    PROVE  Inv'
  <1> DEFINE s == obj[x].buf
  <1>1. PICK o \in Outcomes(CloseCalls) :
            /\ disk' = DiskAfter(x, Close(s, o)) /\ faults' = faults + Close(s, o).file.errs
            /\ obj' = [obj EXCEPT ![x] = NoStream] /\ kind' = kind
    BY DEF Destroy
  <1>2. Good(Close(s, o))
    <2>1. Good(s)
      BY DEF Inv, InOrder
    <2> QED
      BY <2>1, OutcomeType, CloseGood
  <1>3. disk' \in [Names -> Seq(Chars)] /\ faults' \in Nat
    BY <1>1, <1>2, DiskAfterType, FileParts DEF Inv
  <1> QED
    BY <1>1, <1>3, NewStreamInOrder, OneStreamInv

LEMMA ClearInv ==
    ASSUME Inv, NEW x \in Objs, Clear(x)
    PROVE  Inv'
  <1> DEFINE r == [obj[x] EXCEPT !.state = {}]
  <1>1. obj[x] \in InOrder
    BY DEF Inv
  <1>2. r \in InOrder
    BY <1>1 DEF InOrder, Streams
  <1>3. obj' = [obj EXCEPT ![x] = r]
    BY DEF Clear
  <1> QED
    BY <1>2, <1>3, OneStreamInv DEF Clear, Inv

LEMMA NextInv == Inv /\ [Next]_vars => Inv'
  <1> SUFFICES ASSUME Inv, [Next]_vars PROVE Inv'
    OBVIOUS
  <1>0. CASE UNCHANGED vars
    BY <1>0 DEF vars, Inv
  <1>1. CASE Next
    <2>0. PICK x \in Objs :
              \/ Call(x) \/ Construct(x) \/ ConstructOpen(x) \/ OpenFile(x) \/ Destroy(x) \/ Clear(x)
              \/ \E y \in Objs : Swap(x, y) \/ MoveAssign(x, y) \/ MoveConstruct(x, y)
      BY <1>1, StepCases
    <2>1. CASE Call(x)
      BY <2>1, CallsInv DEF Call
    <2>2. CASE Construct(x)
      BY <2>2, NewStreamInOrder, OneStreamInv DEF Construct, Inv
    <2>3. CASE ConstructOpen(x)
      BY <2>3, NewStreamInOrder, OpenAsInv DEF ConstructOpen
    <2>4. CASE OpenFile(x)
      <3>1. obj[x] \in InOrder
        BY DEF Inv
      <3> QED
        BY <2>4, <3>1, OpenAsInv DEF OpenFile
    <2>5. CASE Destroy(x) \/ Clear(x)
      BY <2>5, DestroyInv, ClearInv
    <2>6. CASE \E y \in Objs : Swap(x, y) \/ MoveAssign(x, y) \/ MoveConstruct(x, y)
      BY <2>6, SwapInv, MoveAssignInv, MoveConstructInv
    <2> QED
      BY <2>0, <2>1, <2>2, <2>3, <2>4, <2>5, <2>6
  <1> QED
    BY <1>0, <1>1

\* However many streams are swapped, moved into each other, opened, closed and destroyed, in any
\* order and with any C calls failing, the areas of each stay inside the buffer it holds or its
\* own last_char_, and each block from new[] is freed once.
THEOREM StreamsAreSafe == Spec => []EachMemorySafe
  <1>1. Inv => EachMemorySafe
    BY DEF Inv, InOrder, Good, EachMemorySafe
  <1> QED
    BY <1>1, InitInv, NextInv, PTL DEF Spec

----------------------------------------------------------------------------
\* What is handed on.

\* No file is open in two streams.
NamesApart == \A x, y \in Objs : x # y /\ obj[x].name = obj[y].name => obj[x].name = Nobody

\* A step in which x alone changes; a name it gets is new.
ChangesOne(x) ==
    /\ \A z \in Objs \ {x} : obj'[z] = obj[z]
    /\ obj'[x].name \in {obj[x].name, Nobody} \/ Available(obj'[x].name)

\* A step in which x takes over all that y was.
TakesOver(x, y) ==
    /\ x # y
    /\ \A z \in Objs \ {x, y} : obj'[z] = obj[z]
    /\ obj'[x] = obj[y]
    /\ obj'[y] = obj[x] \/ obj'[y].name = Nobody

LEMMA CallsChangesOne ==
    ASSUME Inv, NEW x \in Objs, NEW s, NEW bits, Calls(x, s, bits)
    PROVE  ChangesOne(x)
  <1>1. obj[x] \in Streams
    BY DEF Inv, InOrder
  <1>2. Called(x, s, bits).name \in {obj[x].name, Nobody}
    BY <1>1 DEF Called, Streams
  <1> QED
    BY <1>2 DEF Calls, ChangesOne, Inv

LEMMA OpenAsChangesOne ==
    ASSUME Inv, NEW x \in Objs, NEW r \in InOrder, r.name \in {obj[x].name, Nobody}, OpenAs(x, r)
    PROVE  ChangesOne(x)
  <1>1. PICK n \in Names :
            Available(n) /\ \E s : obj' = [obj EXCEPT ![x] = OpenedStream(r, n, s)]
    BY DEF OpenAs
  <1>2. \A s : OpenedStream(r, n, s).name \in {n, r.name}
    BY DEF OpenedStream, InOrder, Streams
  <1> QED
    BY <1>1, <1>2 DEF ChangesOne, Inv

\* Neither the target's old file nor its name survives a move assignment.
LEMMA AssignedClosed ==
    ASSUME NEW s, Good(s), NEW o, o.wrote \in Nat
    PROVE  Assigned(s, o).isOpen = FALSE
  <1>1. CASE s.isOpen
    <2>1. Good(Close(s, o)) /\ Close(s, o).isOpen = FALSE
      BY <1>1, CloseGood
    <2> QED
      BY <1>1, <2>1, SwappedSame DEF Assigned
  <1>2. CASE ~s.isOpen
    <2>1. s.isOpen = FALSE
      BY <1>2 DEF Good, FileBufs
    <2> QED
      BY <1>2, <2>1, SwappedSame DEF Assigned
  <1> QED
    BY <1>1, <1>2

LEMMA StepShapes ==
    ASSUME Inv, Next
    PROVE  \E x \in Objs : ChangesOne(x) \/ \E y \in Objs : TakesOver(x, y)
  <1>0. PICK x \in Objs :
            \/ Call(x) \/ Construct(x) \/ ConstructOpen(x) \/ OpenFile(x) \/ Destroy(x) \/ Clear(x)
            \/ \E y \in Objs : Swap(x, y) \/ MoveAssign(x, y) \/ MoveConstruct(x, y)
    BY StepCases
  <1>1. obj[x] \in InOrder /\ obj[x] \in Streams
    BY DEF Inv, InOrder
  <1>2. CASE Call(x)
    BY <1>2, CallsChangesOne DEF Call
  <1>3. CASE Construct(x) \/ Destroy(x) \/ Clear(x)
    <2>1. NewStream.name = Nobody /\ NoStream.name = Nobody
      BY DEF NewStream, NoStream
    <2>2. [obj[x] EXCEPT !.state = {}].name = obj[x].name
      BY <1>1 DEF Streams
    <2> QED
      BY <1>3, <2>1, <2>2 DEF Construct, Destroy, Clear, ChangesOne, Inv
  <1>4. CASE ConstructOpen(x)
    <2>1. NewStream.name = Nobody
      BY DEF NewStream
    <2> QED
      BY <1>4, <2>1, NewStreamInOrder, OpenAsChangesOne DEF ConstructOpen
  <1>5. CASE OpenFile(x)
    BY <1>1, <1>5, OpenAsChangesOne DEF OpenFile
  <1>6. ASSUME NEW y \in Objs, Swap(x, y) \/ MoveAssign(x, y) \/ MoveConstruct(x, y)
        PROVE  TakesOver(x, y)
    <2>1. obj[y] \in InOrder
      BY DEF Inv
    <2>2. /\ [obj[y] EXCEPT !.buf = Swapped(@)] = obj[y]
          /\ [obj[x] EXCEPT !.buf = Swapped(@)] = obj[x]
      BY <1>1, <2>1, TakenOverSame
    <2>3. CASE Swap(x, y)
      BY <2>2, <2>3 DEF Swap, TakesOver, Inv
    <2>4. CASE MoveAssign(x, y)
      <3>1. PICK o \in Outcomes(CloseCalls) :
                LET s == Assigned(obj[x].buf, o)
                IN obj' = [obj EXCEPT ![x] = [obj[y] EXCEPT !.buf = Swapped(@)],
                                      ![y] = [obj[x] EXCEPT !.buf = Counted(s),
                                                  !.name = IF s.isOpen THEN @ ELSE Nobody]]
        BY <2>4 DEF MoveAssign
      <3> DEFINE s == Assigned(obj[x].buf, o)
                 q == [obj[x] EXCEPT !.buf = Counted(s), !.name = IF s.isOpen THEN @ ELSE Nobody]
      <3>2. s.isOpen = FALSE
        BY <1>1, OutcomeType, AssignedClosed DEF InOrder
      <3> HIDE DEF s
      <3>3. q.name = Nobody
        BY <1>1, <3>2 DEF Streams
      <3>4. obj' = [obj EXCEPT ![x] = obj[y], ![y] = q]
        BY <2>2, <3>1 DEF s
      <3> HIDE DEF q
      <3> QED
        BY <2>4, <3>3, <3>4 DEF MoveAssign, TakesOver, Inv
    <2>5. CASE MoveConstruct(x, y)
      <3> DEFINE q == [NewStream EXCEPT !.state = obj[y].state]
      <3>1. q.name = Nobody
        BY DEF NewStream
      <3>2. x # y
        BY <2>5 DEF MoveConstruct
      <3>3. obj' = [obj EXCEPT ![x] = obj[y], ![y] = q]
        BY <2>2, <2>5 DEF MoveConstruct
      <3> HIDE DEF q
      <3> QED
        BY <3>1, <3>2, <3>3 DEF TakesOver, Inv
    <2> QED
      BY <1>6, <2>3, <2>4, <2>5
  <1> QED
    BY <1>0, <1>2, <1>3, <1>4, <1>5, <1>6

LEMMA NamesApartInv == Inv /\ NamesApart /\ [Next]_vars => NamesApart'
  <1> SUFFICES ASSUME Inv, NamesApart, [Next]_vars PROVE NamesApart'
    OBVIOUS
  <1>1. CASE UNCHANGED vars
    BY <1>1 DEF vars, NamesApart
  <1>2. CASE Next
    <2>1. CASE \E x \in Objs : ChangesOne(x)
      BY <2>1 DEF ChangesOne, NamesApart, Available, Holders
    <2>2. CASE \E x, y \in Objs : TakesOver(x, y)
      BY <2>2 DEF TakesOver, NamesApart
    <2> QED
      BY <1>2, <2>1, <2>2, StepShapes
  <1> QED
    BY <1>1, <1>2

LEMMA StepHandsOver ==
    ASSUME Inv, NamesApart, [Next]_vars, NEW x \in Objs, NEW y \in Objs, x # y,
           obj[y].name # Nobody, obj'[x].name = obj[y].name
    PROVE  View(obj'[x]) = View(obj[y])
  <1>1. obj[x].name # obj[y].name
    BY DEF NamesApart
  <1>2. Next
    BY <1>1 DEF vars
  <1>3. ASSUME NEW u \in Objs, ChangesOne(u) PROVE FALSE
    BY <1>1, <1>3 DEF ChangesOne, Available, Holders
  <1>4. ASSUME NEW u \in Objs, NEW v \in Objs, TakesOver(u, v) PROVE obj'[x] = obj[y]
    BY <1>1, <1>4 DEF TakesOver, NamesApart
  <1> QED
    BY <1>2, <1>3, <1>4, StepShapes

\* In every swap and every move of streams, of any number and at any point in the middle of reading
\* or writing, the file, its content, the position, what is put back, what unget can reach and
\* the state pass to the new holder as they are.
THEOREM MovesHandOver == Spec => HandsOver
  <1>1. Init => NamesApart
    BY DEF Init, NamesApart, NoStream, NewStream
  <1>2. Inv /\ NamesApart /\ [Next]_vars =>
            [\A x, y \in Objs :
                x # y /\ obj[y].name # Nobody /\ obj'[x].name = obj[y].name =>
                    View(obj'[x]) = View(obj[y])]_vars
    BY StepHandsOver
  <1> QED
    BY <1>1, <1>2, InitInv, NextInv, NamesApartInv, PTL DEF Spec, HandsOver

----------------------------------------------------------------------------
\* What a stream knows of its file.

\* A stream r of class k: it has a name while a file is open, in a mode that goes with the class,
\* and is empty while it is not constructed.
Fitting(k, r) ==
    /\ r.buf.isOpen <=> r.name # Nobody
    /\ r.buf.isOpen /\ k = "ifstream" => CanRead(r.buf)
    /\ r.buf.isOpen /\ k = "ofstream" => CanWrite(r.buf)
    /\ ~r.alive => r = NoStream

AllFitting == \A x \in Objs : Fitting(kind, obj[x])

LEMMA NewStreamFitting == \A k : Fitting(k, NewStream) /\ Fitting(k, NoStream)
  BY DEF Fitting, NewStream, NoStream, NewFileBuf

LEMMA ClosedOrSameUse ==
    ASSUME Inv, NEW x \in Objs, NEW s, ClosedOrSame(obj[x].buf, s)
    PROVE  s.isOpen = FALSE \/ SameUse(obj[x].buf, s)
  <1>1. Good(obj[x].buf)
    BY DEF Inv, InOrder
  <1> QED
    BY <1>1, OutcomeType, CloseGood DEF ClosedOrSame

LEMMA CalledFitting ==
    ASSUME Inv, NEW x \in Objs, Fitting(kind, obj[x]), obj[x].alive, NEW s, Good(s),
           ClosedOrSame(obj[x].buf, s), NEW bits
    PROVE  Fitting(kind, Called(x, s, bits))
  <1> DEFINE c == Counted(s)
             r == Called(x, s, bits)
  <1>1. SameUse(s, c)
    BY CountedGood
  <1>2. obj[x] \in Streams /\ s.isOpen \in BOOLEAN
    BY FileParts DEF Inv, InOrder
  <1>3. s.isOpen = FALSE \/ SameUse(obj[x].buf, s)
    BY ClosedOrSameUse
  <1> HIDE DEF c
  <1>4. r.buf = c /\ r.alive = obj[x].alive /\ r.name = IF s.isOpen THEN obj[x].name ELSE Nobody
    BY <1>2 DEF Called, Streams, c
  <1> HIDE DEF r
  <1>5. Fitting(kind, r)
    BY <1>1, <1>2, <1>3, <1>4 DEF Fitting, SameUse, CanRead, CanWrite
  <1> QED
    BY <1>5 DEF r

LEMMA OpenAsFitting ==
    ASSUME Inv, NEW x \in Objs, NEW r \in InOrder, Fitting(kind, r), r.alive, OpenAs(x, r)
    PROVE  Fitting(kind, obj'[x])
  <1>1. PICK n \in Names, m \in ModesOf[kind], o \in Outcomes({"open", "end"}) :
            obj' = [obj EXCEPT ![x] = OpenedStream(r, n, TryOpen(r, n, m, o))]
    BY DEF OpenAs
  <1> DEFINE given == IF r.buf.isOpen THEN r.buf ELSE [r.buf EXCEPT !.file.data = disk[n]]
             mode == m \cup Modifier(kind)
             s == TryOpen(r, n, m, o)
             q == OpenedStream(r, n, s)
  <1>2. Good(given) /\ SameUse(r.buf, given)
    BY GivenGood DEF Given
  <1>3. mode \in SUBSET Flags
    BY KindsAssumption DEF Inv, Modifier, Flags
  <1>4. s = Open(given, mode, o)
    BY DEF TryOpen
  <1>5. /\ kind = "ifstream" => "in" \in mode \ {"ate"}
        /\ kind = "ofstream" => "out" \in mode \ {"ate"}
    BY DEF Modifier
  <1> HIDE DEF given, mode
  <1>6. Good(s) /\ OpenAnswers(given, mode, s)
    BY <1>2, <1>3, <1>4, OpenGood
  <1> HIDE DEF s
  <1>7. SameUse(s, Counted(s))
    BY <1>6, CountedGood
  <1>8. q.buf = Counted(s) /\ q.alive = r.alive /\ q.name = IF s.ok THEN n ELSE r.name
    BY DEF OpenedStream, InOrder, Streams
  <1>9. obj'[x] = q
    BY <1>1 DEF Inv, s
  <1> HIDE DEF q
  <1>10. r.buf.isOpen \in BOOLEAN /\ n # Nobody
    BY FileParts, NamesAssumption DEF InOrder
  <1>11. CASE s.ok = TRUE
    BY <1>5, <1>6, <1>7, <1>8, <1>9, <1>10, <1>11
       DEF OpenAnswers, SameUse, Fitting, CanRead, CanWrite
  <1>12. CASE s.ok = FALSE
    BY <1>2, <1>6, <1>7, <1>8, <1>9, <1>10, <1>12
       DEF OpenAnswers, SameUse, Fitting, CanRead, CanWrite
  <1> QED
    BY <1>6, <1>11, <1>12 DEF OpenAnswers

LEMMA TakeOverFitting ==
    ASSUME Inv, AllFitting, NEW x \in Objs, NEW y \in Objs,
           Swap(x, y) \/ MoveAssign(x, y) \/ MoveConstruct(x, y)
    PROVE  AllFitting'
  <1>1. /\ obj[x] \in InOrder /\ obj[x] \in Streams /\ Fitting(kind, obj[x])
        /\ obj[y] \in InOrder /\ obj[y] \in Streams /\ Fitting(kind, obj[y])
    BY DEF Inv, InOrder, AllFitting
  <1>2. /\ [obj[y] EXCEPT !.buf = Swapped(@)] = obj[y]
        /\ [obj[x] EXCEPT !.buf = Swapped(@)] = obj[x]
    BY <1>1, TakenOverSame
  <1>3. ASSUME NEW q, Fitting(kind, q), obj' = [obj EXCEPT ![x] = obj[y], ![y] = q], kind' = kind
        PROVE  AllFitting'
    BY <1>1, <1>3 DEF AllFitting, Inv
  <1>4. CASE Swap(x, y)
    BY <1>1, <1>2, <1>3, <1>4 DEF Swap
  <1>5. CASE MoveAssign(x, y)
    <2>1. PICK o \in Outcomes(CloseCalls) :
              LET s == Assigned(obj[x].buf, o)
              IN obj' = [obj EXCEPT ![x] = [obj[y] EXCEPT !.buf = Swapped(@)],
                                    ![y] = [obj[x] EXCEPT !.buf = Counted(s),
                                                !.name = IF s.isOpen THEN @ ELSE Nobody]]
      BY <1>5 DEF MoveAssign
    <2> DEFINE s == Assigned(obj[x].buf, o)
               c == Counted(s)
               q == [obj[x] EXCEPT !.buf = c, !.name = IF s.isOpen THEN @ ELSE Nobody]
    <2>2. s.isOpen = FALSE /\ Good(s)
      BY <1>1, OutcomeType, AssignedClosed, AssignedGood DEF InOrder
    <2>3. obj' = [obj EXCEPT ![x] = obj[y], ![y] = q] /\ kind' = kind /\ obj[x].alive
      BY <1>2, <1>5, <2>1 DEF MoveAssign
    <2> HIDE DEF s
    <2>4. c.isOpen = FALSE
      BY <2>2, CountedGood DEF SameUse
    <2> HIDE DEF c
    <2>5. q.buf = c /\ q.name = Nobody /\ q.alive = obj[x].alive
      BY <1>1, <2>2 DEF Streams
    <2> HIDE DEF q
    <2>6. Fitting(kind, q)
      BY <2>3, <2>4, <2>5 DEF Fitting
    <2> QED
      BY <1>3, <2>3, <2>6
  <1>6. CASE MoveConstruct(x, y)
    <2> DEFINE q == [NewStream EXCEPT !.state = obj[y].state]
    <2>1. q.buf.isOpen = FALSE /\ q.name = Nobody /\ q.alive
      BY DEF NewStream, NewFileBuf
    <2>2. obj' = [obj EXCEPT ![x] = obj[y], ![y] = q] /\ kind' = kind
      BY <1>2, <1>6 DEF MoveConstruct
    <2> HIDE DEF q
    <2>3. Fitting(kind, q)
      BY <2>1 DEF Fitting
    <2> QED
      BY <1>3, <2>2, <2>3
  <1> QED
    BY <1>4, <1>5, <1>6

LEMMA AllFittingInv == Inv /\ AllFitting /\ [Next]_vars => AllFitting'
  <1> SUFFICES ASSUME Inv, AllFitting, [Next]_vars PROVE AllFitting'
    OBVIOUS
  <1>1. CASE UNCHANGED vars
    BY <1>1 DEF vars, AllFitting
  <1>2. CASE Next
    <2>0. PICK x \in Objs :
              \/ Call(x) \/ Construct(x) \/ ConstructOpen(x) \/ OpenFile(x) \/ Destroy(x) \/ Clear(x)
              \/ \E y \in Objs : Swap(x, y) \/ MoveAssign(x, y) \/ MoveConstruct(x, y)
      BY <1>2, StepCases
    <2>1. obj[x] \in InOrder /\ obj[x] \in Streams /\ Fitting(kind, obj[x])
      BY DEF Inv, InOrder, AllFitting
    <2>2. ASSUME kind' = kind, \A z \in Objs \ {x} : obj'[z] = obj[z], Fitting(kind, obj'[x])
          PROVE  AllFitting'
      BY <2>2 DEF AllFitting
    <2>3. CASE Call(x)
      <3>1. PICK s, bits : Good(s) /\ ClosedOrSame(obj[x].buf, s) /\ Calls(x, s, bits)
        BY <2>3 DEF Call
      <3>2. Fitting(kind, Called(x, s, bits))
        BY <2>1, <2>3, <3>1, CalledFitting DEF Call
      <3> QED
        BY <2>2, <3>1, <3>2 DEF Calls, Inv
    <2>4. CASE Construct(x) \/ Destroy(x)
      BY <2>2, <2>4, NewStreamFitting DEF Construct, Destroy, Inv
    <2>5. CASE ConstructOpen(x)
      <3>1. NewStream.alive
        BY DEF NewStream
      <3>2. Fitting(kind, obj'[x])
        BY <2>5, <3>1, NewStreamFitting, NewStreamInOrder, OpenAsFitting DEF ConstructOpen
      <3> QED
        BY <2>2, <2>5, <3>2 DEF ConstructOpen, OpenAs, Inv
    <2>6. CASE OpenFile(x)
      <3>1. Fitting(kind, obj'[x])
        BY <2>1, <2>6, OpenAsFitting DEF OpenFile
      <3> QED
        BY <2>2, <2>6, <3>1 DEF OpenFile, OpenAs, Inv
    <2>7. CASE Clear(x)
      <3> DEFINE r == [obj[x] EXCEPT !.state = {}]
      <3>1. r.buf = obj[x].buf /\ r.name = obj[x].name /\ r.alive = obj[x].alive
        BY <2>1 DEF Streams
      <3>2. obj' = [obj EXCEPT ![x] = r] /\ kind' = kind /\ obj[x].alive
        BY <2>7 DEF Clear
      <3> HIDE DEF r
      <3>3. Fitting(kind, r)
        BY <2>1, <3>1, <3>2 DEF Fitting
      <3> QED
        BY <2>2, <3>2, <3>3 DEF Inv
    <2>8. ASSUME NEW y \in Objs, Swap(x, y) \/ MoveAssign(x, y) \/ MoveConstruct(x, y)
          PROVE  AllFitting'
      BY <2>8, TakeOverFitting
    <2> QED
      BY <2>0, <2>3, <2>4, <2>5, <2>6, <2>7, <2>8
  <1> QED
    BY <1>1, <1>2

\* However streams are opened, closed and handed on, each knows the name of the file it has open,
\* an ifstream can be read and an ofstream can be written.
THEOREM StreamsTypeCorrect == Spec => []TypeOK
  <1>1. Init => AllFitting
    BY NewStreamFitting DEF Init, AllFitting
  <1>2. Inv /\ AllFitting => TypeOK
    BY DEF Inv, InOrder, AllFitting, Fitting, TypeOK
  <1> QED
    BY <1>1, <1>2, InitInv, NextInv, AllFittingInv, PTL DEF Spec

----------------------------------------------------------------------------
\* What a closed file holds.

\* The filebuf of x has become s, is closed, and all of its C calls have worked.
LEMMA ClosedFile ==
    ASSUME Inv, AllFitting, NEW x \in Objs, obj[x].name \in Names, NEW o \in Outcomes(CloseCalls),
           NEW s, s = Close(obj[x].buf, o), disk' = DiskAfter(x, s),
           faults' = faults + s.file.errs, faults' = faults
    PROVE  disk'[obj[x].name] = Content(obj[x].buf)
  <1>1. Good(obj[x].buf) /\ obj[x].buf.isOpen = TRUE
    BY NamesAssumption, FileParts DEF Inv, InOrder, AllFitting, Fitting
  <1>2. Good(s) /\ s.isOpen = FALSE /\ Holds(s.file, Content(obj[x].buf))
    BY <1>1, OutcomeType, CloseGood, CloseHolds
  <1>3. s.file.errs = 0
    BY <1>2, FileParts DEF Inv
  <1>4. disk'[obj[x].name] = s.file.data
    BY <1>2, NamesAssumption DEF DiskAfter, Inv
  <1> QED
    BY <1>2, <1>3, <1>4 DEF Holds

LEMMA CloseIsComplete ==
    ASSUME Inv, AllFitting, [Next]_vars, NEW n \in Names, NEW x \in Objs, obj[x].name = n,
           Holders(n)' = {}, faults' = faults
    PROVE  disk'[n] = Content(obj[x].buf)
  <1>1. \A z \in Objs : obj'[z].name # n
    BY DEF Holders
  <1>2. /\ n # Nobody /\ obj[x] \in InOrder /\ obj[x] \in Streams
        /\ Fitting(kind, obj[x]) /\ obj[x].alive /\ obj[x].buf.isOpen
    BY NamesAssumption DEF Inv, InOrder, AllFitting, Fitting, NoStream, NewStream
  <1>3. Next
    BY <1>1 DEF vars
  <1>4. PICK u \in Objs :
            \/ Call(u) \/ Construct(u) \/ ConstructOpen(u) \/ OpenFile(u) \/ Destroy(u) \/ Clear(u)
            \/ \E y \in Objs : Swap(u, y) \/ MoveAssign(u, y) \/ MoveConstruct(u, y)
    BY <1>3, StepCases
  <1>5. CASE Call(u)
    <2>1. PICK s, bits : Good(s) /\ ClosedOrSame(obj[u].buf, s) /\ Calls(u, s, bits)
      BY <1>5 DEF Call
    <2>2. u = x
      BY <1>1, <2>1 DEF Calls, Inv
    <2>3. Called(x, s, bits).name = IF s.isOpen THEN n ELSE Nobody
      BY <1>2 DEF Called, Streams
    <2>4. ~s.isOpen
      BY <1>1, <2>1, <2>2, <2>3 DEF Calls, Inv
    <2>5. PICK o \in Outcomes(CloseCalls) : s = Close(obj[x].buf, o)
      BY <1>2, <2>1, <2>2, <2>4 DEF ClosedOrSame, SameUse
    <2> QED
      BY <2>1, <2>2, <2>5, ClosedFile DEF Calls
  <1>6. CASE Construct(u) \/ ConstructOpen(u)
    BY <1>1, <1>2, <1>6 DEF Construct, ConstructOpen, OpenAs, Inv
  <1>7. CASE OpenFile(u)
    <2>1. PICK k \in Names, m \in ModesOf[kind], o \in Outcomes({"open", "end"}) :
              obj' = [obj EXCEPT ![u] = OpenedStream(obj[u], k, TryOpen(obj[u], k, m, o))]
      BY <1>7 DEF OpenFile, OpenAs
    <2>2. u = x
      BY <1>1, <2>1 DEF Inv
    <2> DEFINE s == TryOpen(obj[x], k, m, o)
    <2>3. s = Result(obj[x].buf, FALSE)
      BY <1>2 DEF TryOpen, Open
    <2>4. s.ok = FALSE
      BY <1>2, <2>3, ResultGood DEF InOrder
    <2> HIDE DEF s
    <2>5. OpenedStream(obj[x], k, s).name = n
      BY <1>2, <2>4 DEF OpenedStream, Streams
    <2> QED
      BY <1>1, <2>1, <2>2, <2>5 DEF Inv, s
  <1>8. CASE Destroy(u)
    <2>1. u = x
      BY <1>1, <1>8 DEF Destroy, Inv
    <2> QED
      BY <1>8, <2>1, ClosedFile DEF Destroy
  <1>9. CASE Clear(u)
    <2>1. [obj[x] EXCEPT !.state = {}].name = n
      BY <1>2 DEF Streams
    <2> QED
      BY <1>1, <1>9, <2>1 DEF Clear, Inv
  <1>10. ASSUME NEW y \in Objs, Swap(u, y) \/ MoveAssign(u, y) \/ MoveConstruct(u, y)
         PROVE  disk'[n] = Content(obj[x].buf)
    <2>1. obj[u] \in InOrder /\ obj[y] \in InOrder
      BY DEF Inv
    <2>2. /\ [obj[y] EXCEPT !.buf = Swapped(@)] = obj[y]
          /\ [obj[u] EXCEPT !.buf = Swapped(@)] = obj[u]
      BY <2>1, TakenOverSame
    <2>3. CASE Swap(u, y)
      BY <1>1, <2>2, <2>3 DEF Swap, Inv
    <2>4. CASE MoveConstruct(u, y)
      BY <1>1, <1>2, <2>2, <2>4 DEF MoveConstruct, Inv
    <2>5. CASE MoveAssign(u, y)
      <3>1. PICK o \in Outcomes(CloseCalls) :
                LET s == Assigned(obj[u].buf, o)
                IN /\ \E q : obj' = [obj EXCEPT ![u] = obj[y], ![y] = q]
                   /\ disk' = DiskAfter(u, s) /\ faults' = faults + s.file.errs
        BY <2>2, <2>5 DEF MoveAssign
      <3>2. u = x
        BY <1>1, <3>1 DEF Inv
      <3>3. Good(obj[x].buf) /\ Good(Close(obj[x].buf, o))
        BY <1>2, OutcomeType, CloseGood DEF InOrder
      <3>4. Assigned(obj[x].buf, o) = Close(obj[x].buf, o)
        BY <1>2, <3>3, SwappedSame DEF Assigned
      <3> QED
        BY <3>1, <3>2, <3>4, ClosedFile
    <2> QED
      BY <1>10, <2>3, <2>4, <2>5
  <1> QED
    BY <1>4, <1>5, <1>6, <1>7, <1>8, <1>9, <1>10

\* However a file ends up closed, by close, a destructor or a move assignment, and however often it
\* has been handed on, it holds what its last holder showed, unless a C call failed.
THEOREM ClosedFilesAreComplete == Spec => ClosedIsComplete
  <1>1. Init => AllFitting
    BY NewStreamFitting DEF Init, AllFitting
  <1>2. Inv /\ AllFitting /\ [Next]_vars =>
            [\A n \in Names, x \in Objs :
                obj[x].name = n /\ Holders(n)' = {} /\ faults' = faults =>
                    disk'[n] = Content(obj[x].buf)]_vars
    BY CloseIsComplete
  <1> QED
    BY <1>1, <1>2, InitInv, NextInv, AllFittingInv, PTL DEF Spec, ClosedIsComplete

----------------------------------------------------------------------------
\* Failures show in the state.

\* Every failure of an earlier call is counted in faults.
NoErrs == \A x \in Objs : obj[x].buf.file.errs = 0

LEMMA CountedErrs ==
    ASSUME NEW s, Good(s)
    PROVE  Counted(s).file.errs = 0
  <1>1. s \in FileBufs /\ s.file \in CFiles
    BY GoodFields
  <1>2. NewFile(<<>>).errs = 0
    BY DEF NewFile
  <1>3. [s EXCEPT !.file.errs = 0, !.got = <<>>, !.ok = TRUE].file.errs = 0
    BY <1>1 DEF FileBufs, CFiles
  <1>4. [s EXCEPT !.file = NewFile(<<>>), !.got = <<>>, !.ok = TRUE].file = NewFile(<<>>)
    BY <1>1 DEF FileBufs
  <1> QED
    BY <1>2, <1>3, <1>4 DEF Counted

LEMMA CalledParts ==
    ASSUME Inv, NEW x \in Objs, NEW s, NEW bits
    PROVE  /\ Called(x, s, bits).buf = Counted(s)
           /\ s.ok = FALSE => bits \subseteq Called(x, s, bits).state
  BY DEF Inv, InOrder, Streams, Called

\* A stream that opens a file shows a failure, and it is counted.
LEMMA OpenAsShows ==
    ASSUME Inv, NEW x \in Objs, NEW r \in InOrder, r.buf.file.errs = 0, OpenAs(x, r)
    PROVE  /\ obj'[x].buf.file.errs = 0
           /\ \A z \in Objs \ {x} : obj'[z] = obj[z]
           /\ faults' = faults \/ "fail" \in obj'[x].state
  <1>1. PICK n \in Names, m \in ModesOf[kind], o \in Outcomes({"open", "end"}) :
            /\ obj' = [obj EXCEPT ![x] = OpenedStream(r, n, TryOpen(r, n, m, o))]
            /\ faults' = faults + TryOpen(r, n, m, o).file.errs
    BY DEF OpenAs
  <1> DEFINE given == Given(r, n)
             mode == m \cup Modifier(kind)
             s == TryOpen(r, n, m, o)
             q == OpenedStream(r, n, s)
  <1>2. Good(given) /\ given.file.errs = 0
    <2>1. r.buf \in FileBufs /\ r.buf.file \in CFiles
      BY GoodFields DEF InOrder
    <2>2. [r.buf EXCEPT !.file.data = disk[n]].file.errs = r.buf.file.errs
      BY <2>1 DEF FileBufs, CFiles
    <2> QED
      BY <2>2, GivenGood DEF Given
  <1>3. mode \in SUBSET Flags
    BY KindsAssumption DEF Inv, Modifier, Flags
  <1>4. s = Open(given, mode, o)
    BY DEF TryOpen, Given
  <1> HIDE DEF given, mode
  <1>5. Good(s) /\ Honest(given, s) /\ s.ok \in BOOLEAN
    BY <1>2, <1>3, <1>4, OpenGood, OpenHonest, FileParts
  <1> HIDE DEF s
  <1>6. s.ok = TRUE => s.file.errs = 0
    BY <1>2, <1>5 DEF Honest
  <1>7. q.buf = Counted(s) /\ (s.ok = FALSE => "fail" \in q.state)
    BY DEF OpenedStream, InOrder, Streams
  <1>8. Counted(s).file.errs = 0
    BY <1>5, CountedErrs
  <1>9. obj' = [obj EXCEPT ![x] = q] /\ faults' = faults + s.file.errs
    BY <1>1 DEF s
  <1> HIDE DEF q
  <1> QED
    BY <1>5, <1>6, <1>7, <1>8, <1>9 DEF Inv

\* What the streams hold after a swap or a move is what they held, or has been counted.
LEMMA TakeOverErrs ==
    ASSUME Inv, NoErrs, NEW x \in Objs, NEW y \in Objs,
           Swap(x, y) \/ MoveAssign(x, y) \/ MoveConstruct(x, y)
    PROVE  NoErrs'
  <1>1. /\ obj[x] \in InOrder /\ obj[x] \in Streams /\ obj[x].buf.file.errs = 0
        /\ obj[y] \in InOrder /\ obj[y] \in Streams /\ obj[y].buf.file.errs = 0
    BY DEF Inv, InOrder, NoErrs
  <1>2. /\ [obj[y] EXCEPT !.buf = Swapped(@)] = obj[y]
        /\ [obj[x] EXCEPT !.buf = Swapped(@)] = obj[x]
    BY <1>1, TakenOverSame
  <1>3. ASSUME NEW q, q.buf.file.errs = 0, obj' = [obj EXCEPT ![x] = obj[y], ![y] = q]
        PROVE  NoErrs'
    BY <1>1, <1>3 DEF NoErrs, Inv
  <1>4. CASE Swap(x, y)
    BY <1>1, <1>2, <1>3, <1>4 DEF Swap
  <1>5. CASE MoveAssign(x, y)
    <2>1. PICK o \in Outcomes(CloseCalls) :
              LET s == Assigned(obj[x].buf, o)
              IN obj' = [obj EXCEPT ![x] = [obj[y] EXCEPT !.buf = Swapped(@)],
                                    ![y] = [obj[x] EXCEPT !.buf = Counted(s),
                                                !.name = IF s.isOpen THEN @ ELSE Nobody]]
      BY <1>5 DEF MoveAssign
    <2> DEFINE s == Assigned(obj[x].buf, o)
               q == [obj[x] EXCEPT !.buf = Counted(s), !.name = IF s.isOpen THEN @ ELSE Nobody]
    <2>2. Good(s)
      BY <1>1, OutcomeType, AssignedGood DEF InOrder
    <2>3. obj' = [obj EXCEPT ![x] = obj[y], ![y] = q]
      BY <1>2, <2>1
    <2> HIDE DEF s
    <2>4. Counted(s).file.errs = 0
      BY <2>2, CountedErrs
    <2>5. q.buf = Counted(s)
      BY <1>1 DEF Streams
    <2> HIDE DEF q
    <2> QED
      BY <1>3, <2>3, <2>4, <2>5
  <1>6. CASE MoveConstruct(x, y)
    <2> DEFINE q == [NewStream EXCEPT !.state = obj[y].state]
    <2>1. q.buf.file.errs = 0
      BY DEF NewStream, NewFileBuf, NewFile
    <2>2. obj' = [obj EXCEPT ![x] = obj[y], ![y] = q]
      BY <1>2, <1>6 DEF MoveConstruct
    <2> HIDE DEF q
    <2> QED
      BY <1>3, <2>1, <2>2
  <1> QED
    BY <1>4, <1>5, <1>6

LEMMA StepShows ==
    ASSUME Inv, NoErrs, Next
    PROVE  /\ NoErrs'
           /\ \/ ~(faults' > faults)
              \/ \E x \in Objs : /\ obj'[x].state \cap {"fail", "bad"} # {}
                                 /\ \A y \in Objs \ {x} : obj'[y] = obj[y]
              \/ \E x \in Objs : Destroy(x) \/ \E y \in Objs : MoveAssign(x, y)
  <1>0. PICK x \in Objs :
            \/ Call(x) \/ Construct(x) \/ ConstructOpen(x) \/ OpenFile(x) \/ Destroy(x) \/ Clear(x)
            \/ \E y \in Objs : Swap(x, y) \/ MoveAssign(x, y) \/ MoveConstruct(x, y)
    BY StepCases
  <1>1. obj[x] \in InOrder /\ obj[x] \in Streams /\ obj[x].buf.file.errs = 0 /\ faults \in Nat
    BY DEF Inv, InOrder, NoErrs
  <1>2. NewStream.buf.file.errs = 0 /\ NoStream.buf.file.errs = 0
    BY DEF NewStream, NoStream, NewFileBuf, NewFile
  <1>3. ASSUME obj'[x].buf.file.errs = 0, \A z \in Objs \ {x} : obj'[z] = obj[z]
        PROVE  NoErrs'
    BY <1>3 DEF NoErrs
  <1>4. CASE Call(x)
    <2>1. PICK s, bits : Good(s) /\ Shown(obj[x].buf, s, bits) /\ Calls(x, s, bits)
      BY <1>4 DEF Call
    <2> DEFINE q == Called(x, s, bits)
    <2>2. /\ obj' = [obj EXCEPT ![x] = q] /\ faults' = faults + s.file.errs
          /\ q.buf = Counted(s) /\ (s.ok = FALSE => bits \subseteq q.state)
      BY <2>1, CalledParts DEF Calls
    <2> HIDE DEF q
    <2>3. Counted(s).file.errs = 0
      BY <2>1, CountedErrs
    <2>4. s.file.errs = 0 \/ q.state \cap {"fail", "bad"} # {}
      BY <1>1, <2>1, <2>2 DEF Shown, Honest
    <2> QED
      BY <1>1, <1>3, <2>2, <2>3, <2>4 DEF Inv
  <1>5. CASE Construct(x)
    BY <1>1, <1>2, <1>3, <1>5 DEF Construct, Inv
  <1>6. CASE ConstructOpen(x)
    <2>1. OpenAs(x, NewStream)
      BY <1>6 DEF ConstructOpen
    <2> QED
      BY <1>1, <1>2, <1>3, <2>1, NewStreamInOrder, OpenAsShows
  <1>7. CASE OpenFile(x)
    <2>1. OpenAs(x, obj[x])
      BY <1>7 DEF OpenFile
    <2> QED
      BY <1>1, <1>3, <2>1, OpenAsShows
  <1>8. CASE Destroy(x)
    BY <1>2, <1>3, <1>8 DEF Destroy, Inv
  <1>9. CASE Clear(x)
    <2>1. [obj[x] EXCEPT !.state = {}].buf = obj[x].buf
      BY <1>1 DEF Streams
    <2> QED
      BY <1>1, <1>3, <1>9, <2>1 DEF Clear, Inv
  <1>10. ASSUME NEW y \in Objs, Swap(x, y) \/ MoveAssign(x, y) \/ MoveConstruct(x, y)
         PROVE  NoErrs' /\ (~(faults' > faults) \/ MoveAssign(x, y))
    BY <1>1, <1>10, TakeOverErrs DEF Swap, MoveConstruct
  <1> QED
    BY <1>0, <1>4, <1>5, <1>6, <1>7, <1>8, <1>9, <1>10

\* A C call that fails, for whichever stream and in whatever state, sets a bit of that stream's
\* state and of no other; only a destructor and a move assignment, which close a file that has no
\* stream left to say it of, keep it to themselves.
THEOREM FailuresShow == Spec => ErrorsShow
  <1>1. Init => NoErrs
    BY DEF Init, NoErrs, NoStream, NewStream, NewFileBuf, NewFile
  <1>2. Inv /\ NoErrs /\ [Next]_vars => NoErrs'
    <2>1. Inv /\ NoErrs /\ Next => NoErrs'
      BY StepShows
    <2>2. NoErrs /\ UNCHANGED vars => NoErrs'
      BY DEF NoErrs, vars
    <2> QED
      BY <2>1, <2>2
  <1>3. Inv /\ NoErrs /\ [Next]_vars =>
            [faults' > faults =>
                \/ \E x \in Objs : /\ obj'[x].state \cap {"fail", "bad"} # {}
                                   /\ \A y \in Objs \ {x} : obj'[y] = obj[y]
                \/ \E x \in Objs : Destroy(x) \/ \E y \in Objs : MoveAssign(x, y)]_vars
    BY StepShows
  <1> QED
    BY <1>1, <1>2, <1>3, InitInv, NextInv, PTL DEF Spec, ErrorsShow

=============================================================================
