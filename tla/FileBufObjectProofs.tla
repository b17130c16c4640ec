------------------------ MODULE FileBufObjectProofs ------------------------
(***************************************************************************)
(* Lemmas about FileBufObject, for every value of its constants: what each *)
(* member function keeps.                                                  *)
(***************************************************************************)
EXTENDS FileBufObject, TLAPS

----------------------------------------------------------------------------
\* The C stream.

\* The bytes a read delivers are bytes of the file, and no more than asked for.
LEMMA BytesReadType ==
    ASSUME NEW f \in CFiles, NEW n \in Nat
    PROVE  BytesRead(f, n) \in Seq(Chars) /\ Len(BytesRead(f, n)) <= n
  <1> DEFINE d == f.data
             p == f.pos
             e == Least(p + n, Len(d))
  <1>1. d \in Seq(Chars) /\ p \in Nat
    BY DEF CFiles
  <1>2. BytesRead(f, n) = SubSeq(d, p + 1, e)
    BY DEF BytesRead
  <1> HIDE DEF d, p
  <1>3. e \in Int /\ e <= p + n /\ e <= Len(d)
    BY <1>1 DEF Least
  <1> HIDE DEF e
  <1>4. SubSeq(d, p + 1, e) \in Seq(Chars)
    BY <1>1, <1>3
  <1>5. Len(SubSeq(d, p + 1, e)) <= n
    <2>1. Len(SubSeq(d, p + 1, e)) = IF p + 1 <= e THEN e - p ELSE 0
      BY <1>1, <1>3
    <2> QED
      BY <1>1, <1>3, <2>1
  <1> QED
    BY <1>2, <1>4, <1>5

LEMMA FReadType ==
    ASSUME NEW f \in CFiles, NEW n \in Nat
    PROVE  FRead(f, n) \in CFiles
  <1>1. Len(BytesRead(f, n)) \in Nat
    BY BytesReadType
  <1>2. f.pos + Len(BytesRead(f, n)) \in Nat
    BY <1>1 DEF CFiles
  <1>3. (f.misused \/ f.op = "write") \in BOOLEAN
    OBVIOUS
  <1>4. (IF Len(BytesRead(f, n)) < n THEN "none" ELSE "read") \in {"none", "read", "write"}
    OBVIOUS
  <1> QED
    BY <1>2, <1>3, <1>4 DEF FRead, CFiles

\* Storing bytes in a file yields a file: a gap before them is filled with Hole.
LEMMA OverwriteType ==
    ASSUME NEW d \in Seq(Chars), NEW at \in Nat, NEW w \in Seq(Chars)
    PROVE  Overwrite(d, at, w) \in Seq(Chars)
  <1>1. CASE w = <<>>
    BY <1>1 DEF Overwrite
  <1>2. CASE w # <<>>
    <2> DEFINE n == Greatest(Len(d), at + Len(w))
    <2>1. n \in Nat
      BY DEF Greatest
    <2>2. \A i \in 1..n : (IF i > at /\ i <= at + Len(w) THEN w[i - at]
                           ELSE IF i <= Len(d) THEN d[i] ELSE Hole) \in Chars
      BY <2>1, HoleAssumption
    <2>3. Overwrite(d, at, w) \in [1..n -> Chars]
      BY <1>2, <2>2 DEF Overwrite
    <2> QED
      BY <2>1, <2>3
  <1> QED
    BY <1>1, <1>2

LEMMA FWriteType ==
    ASSUME NEW f \in CFiles, NEW w \in Seq(Chars), NEW k \in 0..Len(w), NEW app \in BOOLEAN
    PROVE  FWrite(f, w, k, app) \in CFiles
  <1>1. WritePos(f, app) \in Nat
    BY DEF WritePos, CFiles
  <1>2. SubSeq(w, 1, k) \in Seq(Chars)
    OBVIOUS
  <1>3. Overwrite(f.data, WritePos(f, app), SubSeq(w, 1, k)) \in Seq(Chars)
    BY <1>1, <1>2, OverwriteType DEF CFiles
  <1>4. (f.misused \/ f.op = "read") \in BOOLEAN
    OBVIOUS
  <1>5. (IF k < Len(w) THEN f.errs + 1 ELSE f.errs) \in Nat
    BY DEF CFiles
  <1>6. WritePos(f, app) + k \in Nat
    BY <1>1
  <1> QED
    BY <1>3, <1>4, <1>5, <1>6 DEF FWrite, CFiles

LEMMA PositioningType ==
    ASSUME NEW f \in CFiles, NEW p \in Int, NEW fails \in BOOLEAN
    PROVE  /\ FSeek(f, p, fails) \in CFiles
           /\ FTell(f, fails) \in CFiles
           /\ FFlush(f, fails) \in CFiles
           /\ FClose(f, fails) \in CFiles
           /\ FOpen(f, fails) \in CFiles
  <1>1. (IF fails THEN f.errs + 1 ELSE f.errs) \in Nat /\ f.errs + 1 \in Nat
    BY DEF CFiles
  <1>2. (f.misused \/ f.op = "read") \in BOOLEAN
    OBVIOUS
  <1>3. FSeek(f, p, fails) \in CFiles
    <2>1. CASE SeekWorks(p, fails)
      <3>1. p \in Nat
        BY <2>1 DEF SeekWorks
      <3> QED
        BY <2>1, <3>1 DEF FSeek, CFiles
    <2>2. CASE ~SeekWorks(p, fails)
      BY <2>2, <1>1 DEF FSeek, CFiles
    <2> QED
      BY <2>1, <2>2
  <1>4. FTell(f, fails) \in CFiles
    BY <1>1 DEF FTell, CFiles
  <1>5. FFlush(f, fails) \in CFiles
    BY <1>1, <1>2 DEF FFlush, CFiles
  <1>6. FClose(f, fails) \in CFiles
    BY <1>1 DEF FClose, CFiles
  <1>7. FOpen(f, fails) \in CFiles
    <2>1. (IF fails THEN <<>> ELSE f.data) \in Seq(Chars)
      BY DEF CFiles
    <2> QED
      BY <2>1 DEF FOpen, CFiles
  <1> QED
    BY <1>3, <1>4, <1>5, <1>6, <1>7

----------------------------------------------------------------------------
\* The member functions.

\* The types of the areas are expanded throughout.
USE DEF GetAreas, PutAreas

\* What every member function keeps: the types of the members, and the state of the memory.
Good(s) == s \in FileBufs /\ MemorySafe(s)

\* The part of it that is about the two areas.
AreasSafe(s) == OneArea(s) /\ GetInBlock(s) /\ PutInBlock(s) /\ AreasNeedFile(s)

\* The members that make up the rest.
SameShell(s, t) ==
    /\ t.isOpen = s.isOpen /\ t.mode = s.mode /\ t.unbuffered = s.unbuffered
    /\ t.mem = s.mem /\ t.size = s.size /\ t.owned = s.owned /\ t.allocs = s.allocs

\* The same file in the same mode.
SameUse(s, t) == t.isOpen = s.isOpen /\ t.mode = s.mode

\* What open says, t, of what it has made of s: the file is open as asked, or all is as before.
OpenAnswers(s, m, t) ==
    \/ s.isOpen = FALSE /\ t.ok = TRUE /\ t.isOpen = TRUE /\ t.mode = m \ {"ate"}
    \/ t.ok = FALSE /\ t.isOpen = s.isOpen /\ (s.isOpen = TRUE => t.mode = s.mode)

\* A function that changes nothing but the areas keeps what holds of the rest.
LEMMA GoodAreas ==
    ASSUME NEW s, NEW t, Good(s), t \in FileBufs, SameShell(s, t), AreasSafe(t)
    PROVE  Good(t)
  <1>1. OwnsItsBlock(t)
    BY DEF Good, MemorySafe, OwnsItsBlock, SameShell
  <1>2. ClosedIsClean(t)
    <2> SUFFICES ASSUME ~t.isOpen
                 PROVE  t.mode = {} /\ ~HasGet(t) /\ ~HasPut(t) /\ ~t.owned
      BY DEF ClosedIsClean
    <2>1. ~HasGet(t) /\ ~HasPut(t)
      BY DEF AreasSafe, AreasNeedFile
    <2>2. ~s.isOpen /\ t.mode = s.mode /\ t.owned = s.owned
      BY DEF SameShell
    <2> QED
      BY <2>1, <2>2 DEF Good, MemorySafe, ClosedIsClean
  <1>3. BufferedIsBinary(t)
    BY DEF Good, MemorySafe, BufferedIsBinary, SameShell
  <1> QED
    BY <1>1, <1>2, <1>3 DEF Good, MemorySafe, AreasSafe

\* A function that changes not even the areas.
LEMMA GoodFrame ==
    ASSUME NEW s, NEW t, Good(s), t \in FileBufs, SameShell(s, t),
           t.get = s.get, t.put = s.put
    PROVE  Good(t)
  <1>1. OneArea(t) /\ GetInBlock(t) /\ PutInBlock(t)
    BY DEF Good, MemorySafe, SameShell, OneArea, GetInBlock, PutInBlock, HasGet, HasPut, Pending
  <1>2. AreasNeedFile(t)
    BY DEF Good, MemorySafe, SameShell, AreasNeedFile, HasGet, HasPut, CanRead, CanWrite
  <1> QED
    BY <1>1, <1>2, GoodAreas DEF AreasSafe

LEMMA ResultGood ==
    ASSUME NEW s, Good(s), NEW b \in BOOLEAN
    PROVE  /\ Good(Result(s, b)) /\ SameShell(s, Result(s, b))
           /\ Result(s, b).get = s.get /\ Result(s, b).put = s.put
           /\ Result(s, b).file = s.file /\ Result(s, b).got = s.got /\ Result(s, b).ok = b
  <1> DEFINE t == Result(s, b)
  <1>1. t \in FileBufs /\ SameShell(s, t) /\ t.get = s.get /\ t.put = s.put
        /\ t.file = s.file /\ t.got = s.got /\ t.ok = b
    BY DEF Good, FileBufs, Result, SameShell
  <1> QED
    BY <1>1, GoodFrame

\* The null areas.
LEMMA NullAreas ==
    /\ NoGet \in GetAreas
    /\ NoPut \in PutAreas
    /\ Marker \in PutAreas
    /\ NoGet.at = Null /\ NoPut.at = Null /\ Marker.at = Last
    /\ Len(NoPut.chars) = 0 /\ Len(Marker.chars) = 0 /\ Len(NoGet.chars) - NoGet.idx = 0
  BY DEF NoGet, NoPut, Marker, PutArea, GetAreas, PutAreas

\* stop_reading leaves no get area and keeps the put area.
LEMMA StopReadingGood ==
    ASSUME NEW s, Good(s), NEW o
    PROVE  LET t == StopReading(s, o)
           IN Good(t) /\ SameShell(s, t) /\ t.get = NoGet /\ t.put = s.put /\ t.got = s.got
  <1> DEFINE t == StopReading(s, o)
             back == s.file.pos - Unread(s)
  <1>1. back \in Int
    BY DEF Good, FileBufs, CFiles, Unread
  <1>2. FSeek(s.file, back, o.fault = "seek") \in CFiles
    BY <1>1, PositioningType DEF Good, FileBufs
  <1>3. SeekWorks(back, o.fault = "seek") \in BOOLEAN
    BY DEF SeekWorks
  <1>4. \E f \in CFiles, b \in BOOLEAN : t = [s EXCEPT !.get = NoGet, !.file = f, !.ok = b]
    <2>1. CASE ~HasGet(s) \/ Unread(s) = 0
      <3>1. t = [s EXCEPT !.get = NoGet, !.file = s.file, !.ok = TRUE]
        BY <2>1 DEF StopReading, Good, FileBufs
      <3>2. s.file \in CFiles
        BY DEF Good, FileBufs
      <3> QED
        BY <3>1, <3>2
    <2>2. CASE ~(~HasGet(s) \/ Unread(s) = 0)
      <3>1. t = [s EXCEPT !.get = NoGet, !.file = FSeek(s.file, back, o.fault = "seek"),
                          !.ok = SeekWorks(back, o.fault = "seek")]
        BY <2>2 DEF StopReading, Good, FileBufs
      <3> QED
        BY <1>2, <1>3, <3>1
    <2> QED
      BY <2>1, <2>2
  <1>5. t \in FileBufs /\ SameShell(s, t) /\ t.get = NoGet /\ t.put = s.put /\ t.got = s.got
    <2>1. PICK f \in CFiles, b \in BOOLEAN : t = [s EXCEPT !.get = NoGet, !.file = f, !.ok = b]
      BY <1>4
    <2>2. NoGet \in GetAreas
      BY NullAreas
    <2> HIDE DEF t, GetAreas, PutAreas
    <2> QED
      BY <2>1, <2>2 DEF Good, FileBufs, SameShell
  <1>6. OneArea(t) /\ GetInBlock(t) /\ PutInBlock(t)
    BY <1>5, NullAreas
       DEF Good, MemorySafe, SameShell, OneArea, GetInBlock, PutInBlock, HasGet, HasPut, Pending
  <1>7. AreasNeedFile(t)
    BY <1>5, NullAreas DEF Good, MemorySafe, SameShell, AreasNeedFile, HasGet, HasPut, CanRead, CanWrite
  <1> QED
    BY <1>5, <1>6, <1>7, GoodAreas DEF AreasSafe

\* What the C library takes of a write.
LEMMA AcceptedType ==
    ASSUME NEW w \in Seq(Chars), w # <<>>, NEW o, o.wrote \in Nat, NEW fault
    PROVE  Accepted(w, o, fault) \in 0..Len(w)
  BY DEF Accepted, Least

\* The members that only a write of the C stream changes.
LEMMA FileWritten ==
    ASSUME NEW s, Good(s), NEW w \in Seq(Chars), w # <<>>, NEW o, o.wrote \in Nat, NEW fault
    PROVE  FWrite(s.file, w, Accepted(w, o, fault), AppendMode(s)) \in CFiles
  <1>1. AppendMode(s) \in BOOLEAN
    BY DEF AppendMode
  <1>2. s.file \in CFiles
    BY DEF Good, FileBufs
  <1> QED
    BY <1>1, <1>2, AcceptedType, FWriteType

\* make_buffer allocates only when there is no buffer, and leaves one when there is a size.
LEMMA MakeBufferGood ==
    ASSUME NEW s, Good(s), s.isOpen
    PROVE  LET t == MakeBuffer(s)
           IN /\ Good(t) /\ t.get = s.get /\ t.put = s.put
              /\ t.isOpen = s.isOpen /\ t.mode = s.mode /\ t.unbuffered = s.unbuffered
              /\ t.size = s.size /\ t.file = s.file /\ t.got = s.got
              /\ s.size > 0 => t.mem # Null
  <1> DEFINE t == MakeBuffer(s)
  <1>1. CASE s.mem # Null \/ s.size = 0
    <2>1. t = s
      BY <1>1 DEF MakeBuffer
    <2>2. s.size > 0 => s.mem # Null
      BY <1>1
    <2> QED
      BY <2>1, <2>2
  <1>2. CASE ~(s.mem # Null \/ s.size = 0)
    <2>1. t = [s EXCEPT !.mem = Heap, !.owned = TRUE, !.allocs = s.allocs + 1]
      BY <1>2 DEF MakeBuffer
    <2>2. /\ t \in FileBufs /\ t.isOpen = s.isOpen /\ t.mode = s.mode
          /\ t.unbuffered = s.unbuffered /\ t.size = s.size /\ t.file = s.file
          /\ t.got = s.got /\ t.get = s.get /\ t.put = s.put
          /\ t.mem = Heap /\ t.owned = TRUE /\ t.allocs = s.allocs + 1
      <3>1. s \in FileBufs /\ s.allocs + 1 \in Nat
        BY DEF Good, FileBufs
      <3> HIDE DEF t
      <3> QED
        BY <2>1, <3>1 DEF FileBufs
    <2>3. s.owned = FALSE /\ s.allocs = 0
      BY <1>2, BlocksAssumption DEF Good, MemorySafe, OwnsItsBlock, FileBufs
    <2>4. OwnsItsBlock(t)
      BY <2>2, <2>3 DEF OwnsItsBlock
    <2>5. s.get.at \in {Null, Last} /\ s.put.at \in {Null, Last}
      BY <1>2 DEF Good, MemorySafe, GetInBlock, PutInBlock, FileBufs
    <2>6. OneArea(t) /\ GetInBlock(t) /\ PutInBlock(t) /\ AreasNeedFile(t)
      <3>1. s.mem = Null /\ s.isOpen
        BY <1>2
      <3> HIDE DEF t
      <3>2. OneArea(t)
        BY <2>2 DEF Good, MemorySafe, OneArea, HasGet, HasPut
      <3>3. GetInBlock(t)
        BY <2>2, <2>5 DEF Good, MemorySafe, GetInBlock, HasGet
      <3>4. PutInBlock(t)
        BY <2>2, <2>5 DEF Good, MemorySafe, PutInBlock, HasPut, Pending
      <3>5. AreasNeedFile(t)
        BY <2>2 DEF Good, MemorySafe, AreasNeedFile, HasGet, HasPut, CanRead, CanWrite
      <3> QED
        BY <3>2, <3>3, <3>4, <3>5
    <2>7. ClosedIsClean(t)
      BY <2>2 DEF ClosedIsClean
    <2>8. BufferedIsBinary(t)
      BY <2>2 DEF Good, MemorySafe, BufferedIsBinary
    <2> QED
      BY <2>2, <2>4, <2>6, <2>7, <2>8, BlocksAssumption DEF Good, MemorySafe
  <1> QED
    BY <1>1, <1>2

\* stop_writing leaves no put area and keeps the get area.
LEMMA StopWritingGood ==
    ASSUME NEW s, Good(s), NEW o, o.wrote \in Nat
    PROVE  LET t == StopWriting(s, o)
           IN Good(t) /\ SameShell(s, t) /\ t.put = NoPut /\ t.get = s.get /\ t.got = s.got
  <1> DEFINE w == s.put.chars
             k == Accepted(w, o, "write")
             f == FWrite(s.file, w, k, AppendMode(s))
             t == StopWriting(s, o)
  <1>1. t \in FileBufs /\ SameShell(s, t) /\ t.put = NoPut /\ t.get = s.get /\ t.got = s.got
    <2>1. CASE w = <<>>
      <3>1. t = [s EXCEPT !.put = NoPut, !.ok = TRUE]
        BY <2>1 DEF StopWriting
      <3>2. NoPut \in PutAreas
        BY NullAreas
      <3> HIDE DEF t, GetAreas, PutAreas
      <3> QED
        BY <3>1, <3>2 DEF Good, FileBufs, SameShell
    <2>2. CASE w # <<>>
      <3>1. w \in Seq(Chars)
        BY DEF Good, FileBufs
      <3>2. f \in CFiles
        BY <2>2, <3>1, FileWritten
      <3>3. t = [s EXCEPT !.put = NoPut, !.file = f, !.ok = (k = Len(w))]
        BY <2>2 DEF StopWriting
      <3>4. (k = Len(w)) \in BOOLEAN
        OBVIOUS
      <3>5. NoPut \in PutAreas
        BY NullAreas
      <3> HIDE DEF w, k, f, t, GetAreas, PutAreas
      <3> QED
        BY <3>2, <3>3, <3>4, <3>5 DEF Good, FileBufs, SameShell
    <2> QED
      BY <2>1, <2>2
  <1>2. OneArea(t) /\ GetInBlock(t) /\ PutInBlock(t)
    BY <1>1, NullAreas, BlocksAssumption
       DEF Good, MemorySafe, SameShell, OneArea, GetInBlock, PutInBlock, HasGet, HasPut, Pending
  <1>3. AreasNeedFile(t)
    BY <1>1, NullAreas
       DEF Good, MemorySafe, SameShell, AreasNeedFile, HasGet, HasPut, CanRead, CanWrite
  <1> QED
    BY <1>1, <1>2, <1>3, GoodAreas DEF AreasSafe

\* A character to store, or none.
OneChar == {c \in Seq(Chars) : Len(c) <= 1}

\* A put area that spans the whole buffer and holds c already.
LEMMA RestartGood ==
    ASSUME NEW s, Good(s), s.isOpen, CanWrite(s), ~HasGet(s), s.mem # Null, s.size > 0,
           NEW c \in OneChar
    PROVE  LET t == Restart(s, c)
           IN /\ Good(t) /\ SameShell(s, t) /\ t.get = s.get /\ t.got = s.got
              /\ t.ok = TRUE /\ t.put.room = s.size - Len(c)
  <1> DEFINE t == Restart(s, c)
             p == [at |-> s.mem, off |-> 0, chars |-> c, room |-> s.size - Len(c)]
  <1>1. c \in Seq(Chars) /\ Len(c) \in Nat /\ Len(c) <= 1
    BY DEF OneChar
  <1>2. s.size \in Nat /\ s.mem \in UserBufs \cup {Null, Heap}
    BY DEF Good, FileBufs
  <1>3. p \in PutAreas
    BY <1>1, <1>2
  <1>4. t = [s EXCEPT !.put = p, !.ok = TRUE]
    BY DEF Restart
  <1> HIDE DEF t, p
  <1>5. t \in FileBufs /\ SameShell(s, t) /\ t.get = s.get /\ t.put = p /\ t.got = s.got /\ t.ok = TRUE
    BY <1>3, <1>4 DEF Good, FileBufs, SameShell
  <1>6. OneArea(t) /\ GetInBlock(t)
    BY <1>5 DEF Good, MemorySafe, SameShell, OneArea, GetInBlock, HasGet
  <1>7. p.at = s.mem /\ p.off = 0 /\ p.chars = c /\ p.room = s.size - Len(c)
    BY DEF p
  <1>8. s.mem # Last
    BY <1>2, BlocksAssumption
  <1>9. PutInBlock(t)
    BY <1>1, <1>2, <1>5, <1>7, <1>8 DEF SameShell, PutInBlock, HasPut, Pending
  <1>10. AreasNeedFile(t)
    BY <1>5 DEF SameShell, AreasNeedFile, HasGet, CanRead, CanWrite
  <1> QED
    BY <1>5, <1>6, <1>7, <1>9, <1>10, GoodAreas DEF AreasSafe, t

\* What overflow and the functions it uses leave to their caller: when they succeed in
\* storing a character, the rest of a whole buffer is room.
Stored(s, c, t) ==
    /\ Good(t) /\ t.isOpen = s.isOpen /\ t.mode = s.mode /\ t.size = s.size /\ t.got = s.got
    /\ t.ok = TRUE /\ c # <<>> /\ s.size > 0 => t.put.room = s.size - Len(c)

\* overflow with characters pending.
LEMMA FlushAndStoreGood ==
    ASSUME NEW s, Good(s), ~HasGet(s), Pending(s) > 0, NEW c \in OneChar, NEW o, o.wrote \in Nat
    PROVE  Stored(s, c, FlushAndStore(s, c, o))
  <1> DEFINE w == s.put.chars
             k == Accepted(w, o, "write")
             f == FWrite(s.file, w, k, AppendMode(s))
             t == [s EXCEPT !.file = f]
  <1>1. w \in Seq(Chars) /\ w # <<>>
    BY DEF Good, FileBufs, Pending
  <1>2. f \in CFiles
    BY <1>1, FileWritten
  <1>3. s.put.at \notin {Null, Last} /\ s.put.at = s.mem
    BY NullAreas DEF Good, MemorySafe, PutInBlock, Pending
  <1>4. s.isOpen /\ CanWrite(s) /\ s.mem # Null
    BY <1>3 DEF Good, MemorySafe, AreasNeedFile, HasPut
  <1>5. s.size > 0
    <2>1. s.put.off + Pending(s) + s.put.room = s.size
      BY <1>3 DEF Good, MemorySafe, PutInBlock, HasPut
    <2>2. s.put.off \in Nat /\ s.put.room \in Nat /\ Pending(s) \in Nat /\ s.size \in Nat
      BY <1>1 DEF Good, FileBufs, Pending
    <2> QED
      BY <2>1, <2>2
  <1> HIDE DEF f
  <1>6. t \in FileBufs /\ SameShell(s, t) /\ t.get = s.get /\ t.put = s.put /\ t.got = s.got
    BY <1>2 DEF Good, FileBufs, SameShell
  <1>7. Good(t)
    BY <1>6, GoodFrame
  <1>8. CASE k < Len(w)
    <2>1. FlushAndStore(s, c, o) = Result(t, FALSE)
      BY <1>8 DEF FlushAndStore, f
    <2>2. Stored(s, c, Result(t, FALSE))
      <3> HIDE DEF t
      <3> QED
        BY <1>6, <1>7, ResultGood DEF Stored, SameShell
    <2> QED
      BY <2>1, <2>2
  <1>9. CASE ~(k < Len(w))
    <2>1. FlushAndStore(s, c, o) = Restart(t, c)
      BY <1>9 DEF FlushAndStore, f
    <2> HIDE DEF t
    <2>2. t.isOpen /\ CanWrite(t) /\ ~HasGet(t) /\ t.mem # Null /\ t.size > 0
      BY <1>4, <1>5, <1>6 DEF SameShell, CanWrite, HasGet
    <2> DEFINE r == Restart(t, c)
    <2>3. /\ Good(r) /\ SameShell(t, r) /\ r.got = t.got
          /\ r.ok = TRUE /\ r.put.room = t.size - Len(c)
      BY <1>7, <2>2, RestartGood
    <2> HIDE DEF r
    <2>4. Stored(s, c, r)
      BY <1>6, <2>3 DEF Stored, SameShell
    <2> QED
      BY <2>1, <2>4 DEF r
  <1> QED
    BY <1>8, <1>9

\* overflow without a buffer leaves the marker.
LEMMA PutUnbufferedGood ==
    ASSUME NEW s, Good(s), ~HasGet(s), s.isOpen, CanWrite(s), s.size = 0,
           NEW c \in OneChar, c # <<>>, NEW o, o.wrote \in Nat
    PROVE  Stored(s, c, PutUnbuffered(s, c, o))
  <1> DEFINE k == Accepted(c, o, "direct")
             f == FWrite(s.file, c, k, AppendMode(s))
             t == PutUnbuffered(s, c, o)
  <1>1. c \in Seq(Chars)
    BY DEF OneChar
  <1>2. f \in CFiles
    BY <1>1, FileWritten
  <1>3. (k = Len(c)) \in BOOLEAN
    OBVIOUS
  <1> HIDE DEF f
  <1>4. CASE k = Len(c) /\ ~HasPut(s)
    <2>1. t = [s EXCEPT !.file = f, !.put = Marker, !.ok = TRUE]
      BY <1>4 DEF PutUnbuffered, f
    <2> HIDE DEF t
    <2>2. t \in FileBufs /\ SameShell(s, t) /\ t.get = s.get /\ t.put = Marker /\ t.got = s.got
      BY <1>2, <2>1, NullAreas DEF Good, FileBufs, SameShell
    <2>3. OneArea(t) /\ GetInBlock(t) /\ PutInBlock(t)
      BY <2>2, NullAreas, BlocksAssumption
         DEF Good, MemorySafe, SameShell, OneArea, GetInBlock, PutInBlock, HasGet, HasPut
    <2>4. AreasNeedFile(t)
      BY <2>2 DEF SameShell, AreasNeedFile, HasGet, CanWrite
    <2>5. Good(t)
      BY <2>2, <2>3, <2>4, GoodAreas DEF AreasSafe
    <2> QED
      BY <2>2, <2>5 DEF Stored, SameShell, t
  <1>5. CASE ~(k = Len(c) /\ ~HasPut(s))
    <2>1. t = [s EXCEPT !.file = f, !.put = s.put, !.ok = (k = Len(c))]
      BY <1>5 DEF PutUnbuffered, f
    <2>2. t = [s EXCEPT !.file = f, !.ok = (k = Len(c))]
      BY <2>1 DEF Good, FileBufs
    <2>3. Good(t) /\ SameShell(s, t) /\ t.got = s.got
      <3>1. t \in FileBufs
        <4> DEFINE b == (k = Len(c))
        <4>1. b \in BOOLEAN
          OBVIOUS
        <4>2. t = [s EXCEPT !.file = f, !.ok = b]
          BY <2>2
        <4> HIDE DEF t, b
        <4> QED
          BY <1>2, <4>1, <4>2 DEF Good, FileBufs
      <3>2. SameShell(s, t) /\ t.get = s.get /\ t.put = s.put /\ t.got = s.got
        BY <2>2 DEF Good, FileBufs, SameShell
      <3> HIDE DEF t
      <3> QED
        BY <3>1, <3>2, GoodFrame
    <2>4. ~(s.size > 0)
      OBVIOUS
    <2> QED
      BY <2>3, <2>4 DEF Stored, SameShell
  <1> QED
    BY <1>4, <1>5

LEMMA StoreOrFlushGood ==
    ASSUME NEW s, Good(s), ~HasGet(s), s.isOpen, CanWrite(s),
           NEW c \in OneChar, NEW o, o.wrote \in Nat
    PROVE  Stored(s, c, StoreOrFlush(s, c, o))
  <1> DEFINE t == StoreOrFlush(s, c, o)
  <1>1. CASE Pending(s) > 0
    BY <1>1, FlushAndStoreGood DEF StoreOrFlush
  <1>2. CASE ~(Pending(s) > 0) /\ c = <<>>
    <2>1. t = Result(s, TRUE)
      BY <1>2 DEF StoreOrFlush
    <2>2. Good(t) /\ SameShell(s, t) /\ t.got = s.got
      BY <2>1, ResultGood
    <2> HIDE DEF t
    <2>3. Stored(s, c, t)
      BY <1>2, <2>2 DEF Stored, SameShell
    <2> QED
      BY <2>3 DEF t
  <1>3. CASE ~(Pending(s) > 0) /\ c # <<>> /\ s.size > 0
    <2> DEFINE m == MakeBuffer(s)
               r == Restart(m, c)
    <2>1. t = r
      BY <1>3 DEF StoreOrFlush
    <2>2. /\ Good(m) /\ m.get = s.get /\ m.isOpen = s.isOpen /\ m.mode = s.mode
          /\ m.size = s.size /\ m.got = s.got /\ m.mem # Null
      BY <1>3, MakeBufferGood
    <2>3. ~HasGet(m) /\ CanWrite(m)
      BY <2>2 DEF HasGet, CanWrite
    <2> HIDE DEF m
    <2>4. /\ Good(r) /\ SameShell(m, r) /\ r.got = m.got
          /\ r.ok = TRUE /\ r.put.room = m.size - Len(c)
      BY <1>3, <2>2, <2>3, RestartGood
    <2> QED
      BY <2>1, <2>2, <2>4 DEF Stored, SameShell
  <1>4. CASE ~(Pending(s) > 0) /\ c # <<>> /\ ~(s.size > 0)
    <2>1. t = PutUnbuffered(s, c, o)
      BY <1>4 DEF StoreOrFlush
    <2>2. s.size = 0
      BY <1>4 DEF Good, FileBufs
    <2> QED
      BY <1>4, <2>1, <2>2, PutUnbufferedGood
  <1> QED
    BY <1>1, <1>2, <1>3, <1>4

\* overflow: stop_reading, then store or flush.
LEMMA OverflowGood ==
    ASSUME NEW s, Good(s), NEW c \in OneChar, NEW o, o.wrote \in Nat
    PROVE  Stored(s, c, Overflow(s, c, o))
  <1> DEFINE t == StopReading(s, o)
             u == Overflow(s, c, o)
  <1>1. Good(t) /\ SameShell(s, t) /\ t.get = NoGet /\ t.got = s.got
    BY StopReadingGood
  <1>2. CASE ~CanWrite(s)
    <2>1. u = Result(s, FALSE)
      BY <1>2 DEF Overflow
    <2>2. Good(u) /\ SameShell(s, u) /\ u.got = s.got /\ u.ok = FALSE
      BY <2>1, ResultGood
    <2> HIDE DEF u
    <2> QED
      BY <2>2 DEF Stored, SameShell, u
  <1>3. CASE CanWrite(s) /\ t.ok # TRUE
    <2>1. t.ok \in BOOLEAN
      BY <1>1 DEF Good, FileBufs
    <2>2. u = t
      BY <1>3, <2>1 DEF Overflow
    <2>3. u.ok # TRUE
      BY <1>3, <2>2
    <2> HIDE DEF t, u
    <2> QED
      BY <1>1, <2>2, <2>3 DEF Stored, SameShell, u
  <1>4. CASE CanWrite(s) /\ t.ok = TRUE
    <2>1. u = StoreOrFlush(t, c, o)
      BY <1>4 DEF Overflow
    <2>2. ~HasGet(t) /\ t.isOpen /\ CanWrite(t)
      <3>1. s.isOpen
        BY <1>4 DEF Good, MemorySafe, ClosedIsClean, CanWrite
      <3> QED
        BY <1>1, <1>4, <3>1, NullAreas DEF HasGet, SameShell, CanWrite
    <2> HIDE DEF t
    <2>3. Stored(t, c, StoreOrFlush(t, c, o))
      BY <1>1, <2>2, StoreOrFlushGood
    <2> HIDE DEF u
    <2> QED
      BY <1>1, <2>1, <2>3 DEF Stored, SameShell, u
  <1> QED
    BY <1>2, <1>3, <1>4

\* Characters move from the room of a put area to its pending characters, or out of it.
LEMMA AreaArithmetic ==
    ASSUME NEW off \in Int, NEW len \in Int, NEW room \in Int, NEW k \in Int
    PROVE  /\ off + (len + k) + (room - k) = off + len + room
           /\ (off + k) + 0 + (room + len - k) = off + len + room
  OBVIOUS

\* Storing what fits in the room of the put area.
LEMMA StoreGood ==
    ASSUME NEW s, Good(s), NEW w \in Seq(Chars), Len(w) <= s.put.room
    PROVE  /\ Good(Store(s, w)) /\ SameShell(s, Store(s, w))
           /\ Store(s, w).got = s.got /\ Store(s, w).ok = TRUE
  <1> DEFINE p == [s.put EXCEPT !.chars = @ \o w, !.room = @ - Len(w)]
             t == Store(s, w)
  <1>1. /\ s.put.chars \in Seq(Chars) /\ s.put.room \in Nat /\ s.put.off \in Nat
        /\ s.put.at \in UserBufs \cup {Null, Last, Heap}
    BY DEF Good, FileBufs
  <1>2. s.put.chars \o w \in Seq(Chars) /\ Len(s.put.chars \o w) = Len(s.put.chars) + Len(w)
    BY <1>1
  <1>3. s.put.room - Len(w) \in Nat
    BY <1>1
  <1>4. /\ p \in PutAreas
        /\ p.at = s.put.at /\ p.off = s.put.off /\ p.chars = s.put.chars \o w
        /\ p.room = s.put.room - Len(w)
    BY <1>1, <1>2, <1>3 DEF Good, FileBufs
  <1>5. t = [s EXCEPT !.put = p, !.ok = TRUE]
    BY DEF Store, Good, FileBufs
  <1> HIDE DEF p, t
  <1>6. t \in FileBufs /\ SameShell(s, t) /\ t.get = s.get /\ t.put = p /\ t.got = s.got /\ t.ok = TRUE
    BY <1>4, <1>5 DEF Good, FileBufs, SameShell
  <1>7. OneArea(t) /\ GetInBlock(t)
    BY <1>4, <1>6 DEF Good, MemorySafe, SameShell, OneArea, GetInBlock, HasGet, HasPut
  <1>8. AreasNeedFile(t)
    BY <1>4, <1>6 DEF Good, MemorySafe, SameShell, AreasNeedFile, HasGet, HasPut, CanRead, CanWrite
  <1>9. PutInBlock(t)
    <2>1. CASE w = <<>>
      <3>1. p = s.put
        <4>1. s.put.chars \o w = s.put.chars /\ s.put.room - Len(w) = s.put.room
          BY <1>1, <2>1
        <4>2. p = [s.put EXCEPT !.chars = s.put.chars, !.room = s.put.room]
          BY <4>1 DEF p
        <4> QED
          BY <4>2 DEF Good, FileBufs
      <3> QED
        BY <1>6, <3>1 DEF Good, MemorySafe, SameShell, PutInBlock, HasPut, Pending
    <2>2. CASE w # <<>>
      <3>1. s.put.room > 0
        BY <1>1, <2>2
      <3>2. s.put.at \notin {Null, Last}
        BY <3>1 DEF Good, MemorySafe, PutInBlock, NoPut, Marker, PutArea
      <3>3. s.put.at = s.mem /\ s.put.off + Len(s.put.chars) + s.put.room = s.size
        BY <3>2 DEF Good, MemorySafe, PutInBlock, HasPut, Pending
      <3>4. p.off + Len(p.chars) + p.room = s.size
        <4>1. Len(s.put.chars) \in Int /\ Len(w) \in Int
          BY <1>1
        <4> DEFINE off == s.put.off
                   len == Len(s.put.chars)
                   room == s.put.room
                   k == Len(w)
        <4>2. off + (len + k) + (room - k) = off + len + room
          <5>1. off \in Int /\ len \in Int /\ room \in Int /\ k \in Int
            BY <1>1, <4>1
          <5> HIDE DEF off, len, room, k
          <5> QED
            BY <5>1, AreaArithmetic
        <4> QED
          BY <1>2, <1>4, <3>3, <4>2
      <3> QED
        BY <1>4, <1>6, <3>2, <3>3, <3>4 DEF SameShell, PutInBlock, HasPut, Pending
    <2> QED
      BY <2>1, <2>2
  <1> QED
    BY <1>6, <1>7, <1>8, <1>9, GoodAreas DEF AreasSafe, t

LEMMA OneCharType ==
    /\ <<>> \in OneChar
    /\ \A c \in Chars : <<c>> \in OneChar /\ <<c>> # <<>> /\ Len(<<c>>) = 1
  BY DEF OneChar

\* streambuf::sputc.
LEMMA PutCharGood ==
    ASSUME NEW s, Good(s), NEW c \in Chars, NEW o, o.wrote \in Nat
    PROVE  LET t == PutChar(s, c, o)
           IN Good(t) /\ t.isOpen = s.isOpen /\ t.mode = s.mode /\ t.got = s.got
  <1>1. CASE s.put.room > 0
    <2>1. PutChar(s, c, o) = Store(s, <<c>>)
      BY <1>1 DEF PutChar
    <2>2. <<c>> \in Seq(Chars) /\ Len(<<c>>) <= s.put.room
      BY <1>1 DEF Good, FileBufs
    <2> QED
      BY <2>1, <2>2, StoreGood DEF SameShell
  <1>2. CASE ~(s.put.room > 0)
    <2>1. PutChar(s, c, o) = Overflow(s, <<c>>, o)
      BY <1>2 DEF PutChar
    <2>2. <<c>> \in OneChar
      BY OneCharType
    <2>3. Stored(s, <<c>>, Overflow(s, <<c>>, o))
      BY <2>2, OverflowGood
    <2> QED
      BY <2>1, <2>3 DEF Stored
  <1> QED
    BY <1>1, <1>2

\* streambuf::xsputn: what overflow leaves is room for all the rest.
LEMMA PutSmallGood ==
    ASSUME NEW s, Good(s), NEW w \in Seq(Chars), Len(w) <= s.size, NEW o, o.wrote \in Nat
    PROVE  LET t == PutSmall(s, w, o)
           IN Good(t) /\ t.isOpen = s.isOpen /\ t.mode = s.mode /\ t.got = s.got
  <1> DEFINE r == Least(s.put.room, Len(w))
             t == Store(s, SubSeq(w, 1, r))
             c == <<w[r + 1]>>
             u == Overflow(t, c, o)
             v == Store(u, SubSeq(w, r + 2, Len(w)))
  <1>1. r \in Nat /\ r <= Len(w) /\ r <= s.put.room
    BY DEF Least, Good, FileBufs
  <1>2. SubSeq(w, 1, r) \in Seq(Chars) /\ Len(SubSeq(w, 1, r)) = r
    BY <1>1
  <1> HIDE DEF r
  <1>3. Good(t) /\ SameShell(s, t) /\ t.got = s.got
    BY <1>1, <1>2, StoreGood
  <1>4. CASE r = Len(w)
    <2>1. PutSmall(s, w, o) = t
      BY <1>4 DEF PutSmall, r
    <2> QED
      BY <1>3, <2>1 DEF SameShell
  <1>5. CASE r # Len(w)
    <2>1. w[r + 1] \in Chars
      BY <1>1, <1>5
    <2>2. c \in OneChar /\ c # <<>> /\ Len(c) = 1
      BY <2>1, OneCharType
    <2> HIDE DEF c, t
    <2>3. Stored(t, c, u)
      BY <1>3, <2>2, OverflowGood
    <2> HIDE DEF u
    <2>4. Good(u) /\ u.isOpen = s.isOpen /\ u.mode = s.mode /\ u.got = s.got /\ u.size = s.size
      BY <1>3, <2>3 DEF Stored, SameShell
    <2>5. CASE u.ok # TRUE
      <3>1. u.ok = FALSE
        BY <2>4, <2>5 DEF Good, FileBufs
      <3>2. PutSmall(s, w, o) = u
        BY <1>5, <3>1 DEF PutSmall, u, c, t, r
      <3> QED
        BY <2>4, <3>2
    <2>6. CASE u.ok = TRUE
      <3>1. PutSmall(s, w, o) = v
        BY <1>5, <2>6 DEF PutSmall, u, c, t, r
      <3>2. s.size \in Nat /\ s.size > 0
        BY <1>1, <1>5 DEF Good, FileBufs
      <3>3. u.put.room = s.size - 1
        BY <1>3, <2>2, <2>3, <2>6, <3>2 DEF Stored, SameShell
      <3>4. SubSeq(w, r + 2, Len(w)) \in Seq(Chars)
            /\ Len(SubSeq(w, r + 2, Len(w))) = Len(w) - r - 1
        BY <1>1, <1>5
      <3>5. Len(SubSeq(w, r + 2, Len(w))) <= u.put.room
        BY <1>1, <3>2, <3>3, <3>4
      <3>6. Good(v) /\ SameShell(u, v) /\ v.got = u.got
        BY <2>4, <3>4, <3>5, StoreGood
      <3> HIDE DEF v
      <3> QED
        BY <2>4, <3>1, <3>6 DEF SameShell
    <2> QED
      BY <2>5, <2>6
  <1> QED
    BY <1>4, <1>5

\* A put area with other members than its block.
LEMMA PutAreaType ==
    ASSUME NEW p \in PutAreas, NEW off \in Nat, NEW w \in Seq(Chars), NEW room \in Nat
    PROVE  LET q == [p EXCEPT !.off = off, !.chars = w, !.room = room]
           IN q \in PutAreas /\ q.at = p.at /\ q.off = off /\ q.chars = w /\ q.room = room
  BY DEF PutAreas

\* The first half of the bulk xsputn: pbase moves on within the buffer.
LEMMA DrainPutGood ==
    ASSUME NEW s, Good(s), NEW o, o.wrote \in Nat
    PROVE  LET t == DrainPut(s, o)
           IN /\ Good(t) /\ SameShell(s, t) /\ t.get = s.get /\ t.got = s.got
              /\ t.put.at = s.put.at
  <1> DEFINE w == s.put.chars
             k == Accepted(w, o, "write")
             f == FWrite(s.file, w, k, AppendMode(s))
             p == [s.put EXCEPT !.off = @ + k, !.chars = <<>>, !.room = @ + Len(w) - k]
             t == DrainPut(s, o)
  <1>1. CASE w = <<>>
    <2>1. t = Result(s, TRUE)
      BY <1>1 DEF DrainPut
    <2>2. LET r == Result(s, TRUE)
          IN Good(r) /\ SameShell(s, r) /\ r.get = s.get /\ r.got = s.got /\ r.put = s.put
      BY ResultGood
    <2> QED
      BY <2>1, <2>2
  <1>2. CASE w # <<>>
    <2>1. /\ w \in Seq(Chars) /\ Len(w) \in Nat /\ Len(w) > 0
          /\ s.put.room \in Nat /\ s.put.off \in Nat
          /\ s.put.at \in UserBufs \cup {Null, Last, Heap}
      BY <1>2 DEF Good, FileBufs
    <2>2. f \in CFiles
      BY <1>2, <2>1, FileWritten
    <2>3. k \in 0..Len(w)
      BY <1>2, <2>1, AcceptedType
    <2> HIDE DEF k, f
    <2>4. /\ p \in PutAreas
          /\ p.at = s.put.at /\ p.off = s.put.off + k /\ p.chars = <<>>
          /\ p.room = s.put.room + Len(w) - k
      <3>1. s.put.off + k \in Nat /\ s.put.room + Len(w) - k \in Nat
        <4> DEFINE len == Len(w)
        <4>1. len \in Nat /\ k \in 0..len
          BY <2>1, <2>3
        <4> HIDE DEF len, w
        <4>2. s.put.room + len - k \in Nat
          BY <2>1, <4>1
        <4> QED
          BY <2>1, <4>1, <4>2 DEF len
      <3>2. s.put \in PutAreas /\ <<>> \in Seq(Chars)
        BY DEF Good, FileBufs
      <3>3. p = [s.put EXCEPT !.off = s.put.off + k, !.chars = <<>>,
                              !.room = s.put.room + Len(w) - k]
        OBVIOUS
      <3> QED
        BY <3>1, <3>2, <3>3, PutAreaType
    <2>5. t = [s EXCEPT !.file = f, !.put = p, !.ok = (k = Len(w))]
      BY <1>2 DEF DrainPut, f, k, Good, FileBufs
    <2>6. t \in FileBufs
      <3> DEFINE b == (k = Len(w))
      <3>1. b \in BOOLEAN
        OBVIOUS
      <3>2. t = [s EXCEPT !.file = f, !.put = p, !.ok = b]
        BY <2>5
      <3> HIDE DEF t, b, p
      <3> QED
        BY <2>2, <2>4, <3>1, <3>2 DEF Good, FileBufs
    <2>7. SameShell(s, t) /\ t.get = s.get /\ t.put = p /\ t.got = s.got
      <3> HIDE DEF p
      <3> QED
        BY <2>5 DEF Good, FileBufs, SameShell
    <2> HIDE DEF t, p
    <2>8. OneArea(t) /\ GetInBlock(t)
      BY <2>4, <2>7 DEF Good, MemorySafe, SameShell, OneArea, GetInBlock, HasGet, HasPut
    <2>9. AreasNeedFile(t)
      BY <2>4, <2>7 DEF Good, MemorySafe, SameShell, AreasNeedFile, HasGet, HasPut, CanRead, CanWrite
    <2>10. PutInBlock(t)
      <3>1. s.put.at \notin {Null, Last}
        BY <2>1 DEF Good, MemorySafe, PutInBlock, NoPut, Marker, PutArea
      <3>2. s.put.at = s.mem /\ s.put.off + Len(w) + s.put.room = s.size
        BY <3>1 DEF Good, MemorySafe, PutInBlock, HasPut, Pending
      <3>3. p.off + Len(p.chars) + p.room = s.size
        <4>1. Len(p.chars) = 0 /\ k \in Int
          BY <2>3, <2>4
        <4> DEFINE off == s.put.off
                   len == Len(w)
                   room == s.put.room
        <4>2. (off + k) + 0 + (room + len - k) = off + len + room
          <5>1. off \in Int /\ len \in Int /\ room \in Int /\ k \in Int
            BY <2>1, <4>1
          <5> HIDE DEF off, len, room
          <5> QED
            BY <5>1, AreaArithmetic
        <4> QED
          BY <2>4, <3>2, <4>1, <4>2
      <3> QED
        BY <2>4, <2>7, <3>1, <3>2, <3>3 DEF SameShell, PutInBlock, HasPut, Pending
    <2>11. Good(t)
      BY <2>6, <2>7, <2>8, <2>9, <2>10, GoodAreas DEF AreasSafe
    <2> QED
      BY <2>4, <2>7, <2>11 DEF t
  <1> QED
    BY <1>1, <1>2

\* The second half: the put area stays, or becomes the marker.
LEMMA WriteThroughGood ==
    ASSUME NEW s, Good(s), s.isOpen, CanWrite(s), ~HasGet(s),
           NEW w \in Seq(Chars), w # <<>>, NEW o, o.wrote \in Nat
    PROVE  LET t == WriteThrough(s, w, o)
           IN Good(t) /\ SameShell(s, t) /\ t.got = s.got
  <1> DEFINE k == Accepted(w, o, "direct")
             f == FWrite(s.file, w, k, AppendMode(s))
             p == IF k > 0 /\ s.put.at # Last THEN Marker ELSE s.put
             b == (k = Len(w))
             t == WriteThrough(s, w, o)
  <1>1. f \in CFiles
    BY FileWritten
  <1>2. t = [s EXCEPT !.file = f, !.put = p, !.ok = b]
    BY DEF WriteThrough
  <1>3. b \in BOOLEAN
    OBVIOUS
  <1>4. p \in {Marker, s.put}
    OBVIOUS
  <1> HIDE DEF t, f, p, b
  <1>5. t \in FileBufs
    BY <1>1, <1>2, <1>3, <1>4, NullAreas DEF Good, FileBufs
  <1>6. SameShell(s, t) /\ t.get = s.get /\ t.put = p /\ t.got = s.got
    BY <1>2 DEF Good, FileBufs, SameShell
  <1>7. OneArea(t) /\ GetInBlock(t)
    BY <1>6 DEF Good, MemorySafe, SameShell, OneArea, GetInBlock, HasGet, HasPut
  <1>8. AreasNeedFile(t)
    BY <1>6 DEF SameShell, AreasNeedFile, HasGet, HasPut, CanWrite
  <1>9. PutInBlock(t)
    BY <1>4, <1>6, NullAreas, BlocksAssumption
       DEF Good, MemorySafe, SameShell, PutInBlock, HasPut, Pending
  <1> QED
    BY <1>5, <1>6, <1>7, <1>8, <1>9, GoodAreas DEF AreasSafe, t

LEMMA PutDirectGood ==
    ASSUME NEW s, Good(s), NEW w \in Seq(Chars), w # <<>>, NEW o, o.wrote \in Nat
    PROVE  LET t == PutDirect(s, w, o)
           IN Good(t) /\ t.isOpen = s.isOpen /\ t.mode = s.mode /\ t.got = s.got
  <1> DEFINE t == StopReading(s, o)
             u == DrainPut(t, o)
             v == WriteThrough(u, w, o)
             z == PutDirect(s, w, o)
  <1>1. Good(t) /\ SameShell(s, t) /\ t.get = NoGet /\ t.got = s.got
    BY StopReadingGood
  <1> HIDE DEF t
  <1>2. Good(u) /\ SameShell(t, u) /\ u.get = t.get /\ u.got = t.got
    BY <1>1, DrainPutGood
  <1> HIDE DEF u
  <1>3. t.ok \in BOOLEAN /\ u.ok \in BOOLEAN
    BY <1>1, <1>2 DEF Good, FileBufs
  <1>4. CASE ~CanWrite(s)
    <2>1. z = Result(s, FALSE)
      BY <1>4 DEF PutDirect
    <2>2. LET r == Result(s, FALSE) IN Good(r) /\ SameShell(s, r) /\ r.got = s.got
      BY ResultGood
    <2> QED
      BY <2>1, <2>2 DEF SameShell
  <1>5. CASE CanWrite(s) /\ t.ok = FALSE
    <2>1. z = t
      BY <1>5 DEF PutDirect, t
    <2> QED
      BY <1>1, <2>1 DEF SameShell
  <1>6. CASE CanWrite(s) /\ t.ok = TRUE /\ u.ok = FALSE
    <2>1. z = u
      BY <1>6 DEF PutDirect, t, u
    <2> QED
      BY <1>1, <1>2, <2>1 DEF SameShell
  <1>7. CASE CanWrite(s) /\ t.ok = TRUE /\ u.ok = TRUE
    <2>1. z = v
      BY <1>7 DEF PutDirect, t, u
    <2>2. s.isOpen
      BY <1>7 DEF Good, MemorySafe, ClosedIsClean, CanWrite
    <2>3. u.isOpen /\ CanWrite(u) /\ ~HasGet(u)
      BY <1>1, <1>2, <1>7, <2>2, NullAreas DEF SameShell, CanWrite, HasGet
    <2>4. Good(v) /\ SameShell(u, v) /\ v.got = u.got
      BY <1>2, <2>3, WriteThroughGood
    <2> HIDE DEF v
    <2> QED
      BY <1>1, <1>2, <2>1, <2>4 DEF SameShell
  <1> QED
    BY <1>3, <1>4, <1>5, <1>6, <1>7

\* streambuf::sputn.
LEMMA XsputnGood ==
    ASSUME NEW s, Good(s), NEW w \in Seq(Chars), NEW o, o.wrote \in Nat
    PROVE  LET t == Xsputn(s, w, o)
           IN Good(t) /\ t.isOpen = s.isOpen /\ t.mode = s.mode /\ t.got = s.got
  <1>1. CASE Len(w) <= s.size
    BY <1>1, PutSmallGood DEF Xsputn
  <1>2. CASE ~(Len(w) <= s.size)
    <2>1. w # <<>>
      BY <1>2 DEF Good, FileBufs
    <2> QED
      BY <1>2, <2>1, PutDirectGood DEF Xsputn
  <1> QED
    BY <1>1, <1>2

\* A get area filled from the file, in last_char_ or in the buffer.
LEMMA GetAreaGood ==
    ASSUME NEW s, Good(s), s.isOpen, CanRead(s), ~HasPut(s),
           NEW t, t \in FileBufs, SameShell(s, t), t.put = s.put,
           NEW b, b \in {Last, s.mem}, b # Null, NEW w \in Seq(Chars),
           Len(w) <= (IF b = Last THEN 1 ELSE s.size), t.get = GetArea(b, w)
    PROVE  Good(t)
  <1>1. t.get.at = b /\ t.get.chars = w /\ t.get.idx = 0
    BY DEF GetArea
  <1>2. OneArea(t) /\ PutInBlock(t)
    BY DEF Good, MemorySafe, SameShell, OneArea, PutInBlock, HasPut, Pending
  <1>3. GetInBlock(t)
    BY <1>1 DEF SameShell, GetInBlock, HasGet
  <1>4. AreasNeedFile(t)
    BY DEF SameShell, AreasNeedFile, HasGet, HasPut, CanRead
  <1> QED
    BY <1>2, <1>3, <1>4, GoodAreas DEF AreasSafe

\* underflow without a buffer.
LEMMA FillLastGood ==
    ASSUME NEW s, Good(s), s.isOpen, CanRead(s), ~HasPut(s)
    PROVE  LET t == FillLast(s)
           IN Good(t) /\ SameShell(s, t) /\ t.got = s.got /\ (t.ok = TRUE => Unread(t) > 0)
  <1> DEFINE w == BytesRead(s.file, 1)
             f == FRead(s.file, 1)
             t == FillLast(s)
  <1>1. s.file \in CFiles /\ 1 \in Nat
    BY DEF Good, FileBufs
  <1>2. w \in Seq(Chars) /\ Len(w) <= 1 /\ f \in CFiles
    BY <1>1, BytesReadType, FReadType
  <1>3. CASE w = <<>>
    <2>1. t = [s EXCEPT !.file = f, !.get = s.get, !.ok = FALSE]
      BY <1>3 DEF FillLast
    <2> HIDE DEF f, t
    <2>2. t \in FileBufs /\ SameShell(s, t) /\ t.get = s.get /\ t.put = s.put /\ t.got = s.got
          /\ t.ok = FALSE
      BY <1>2, <2>1 DEF Good, FileBufs, SameShell
    <2>3. Good(t)
      BY <2>2, GoodFrame
    <2> QED
      BY <2>2, <2>3 DEF t
  <1>4. CASE w # <<>>
    <2>1. t = [s EXCEPT !.file = f, !.get = GetArea(Last, w), !.ok = w # <<>>]
      BY <1>4 DEF FillLast
    <2> HIDE DEF f, t, w
    <2>2. /\ t \in FileBufs /\ SameShell(s, t) /\ t.get = GetArea(Last, w)
          /\ t.put = s.put /\ t.got = s.got
      <3> DEFINE a == GetArea(Last, w)
                 r == w # <<>>
      <3>1. a \in GetAreas
        BY <1>2 DEF GetArea, Good, FileBufs
      <3>2. r \in BOOLEAN
        OBVIOUS
      <3>3. t = [s EXCEPT !.file = f, !.get = a, !.ok = r]
        BY <2>1
      <3> HIDE DEF a, r
      <3>4. t \in FileBufs /\ SameShell(s, t) /\ t.get = a /\ t.put = s.put /\ t.got = s.got
        BY <1>2, <3>1, <3>2, <3>3 DEF Good, FileBufs, SameShell
      <3> QED
        BY <3>4 DEF a
    <2>3. Good(t)
      BY <1>2, <2>2, BlocksAssumption, GetAreaGood
    <2>4. Unread(t) > 0
      BY <1>2, <1>4, <2>2 DEF Unread, GetArea
    <2> QED
      BY <2>2, <2>3, <2>4 DEF t
  <1> QED
    BY <1>3, <1>4

\* underflow into the buffer.
LEMMA FillBufferGood ==
    ASSUME NEW s, Good(s), s.isOpen, CanRead(s), ~HasPut(s), s.mem # Null
    PROVE  LET t == FillBuffer(s)
           IN Good(t) /\ SameShell(s, t) /\ t.got = s.got /\ (t.ok = TRUE => Unread(t) > 0)
  <1> DEFINE w == BytesRead(s.file, s.size)
             f == FRead(s.file, s.size)
             t == FillBuffer(s)
  <1>1. s.file \in CFiles /\ s.size \in Nat /\ s.mem # Last
    BY BlocksAssumption DEF Good, FileBufs
  <1>2. w \in Seq(Chars) /\ Len(w) <= s.size /\ f \in CFiles
    BY <1>1, BytesReadType, FReadType
  <1>3. t = [s EXCEPT !.file = f, !.get = GetArea(s.mem, w), !.ok = w # <<>>]
    BY DEF FillBuffer
  <1> HIDE DEF f, t, w
  <1>4. /\ t \in FileBufs /\ SameShell(s, t) /\ t.get = GetArea(s.mem, w)
        /\ t.put = s.put /\ t.got = s.got
    <2> DEFINE a == GetArea(s.mem, w)
               r == w # <<>>
    <2>1. a \in GetAreas
      BY <1>2 DEF GetArea, Good, FileBufs
    <2>2. r \in BOOLEAN
      OBVIOUS
    <2>3. t = [s EXCEPT !.file = f, !.get = a, !.ok = r]
      BY <1>3
    <2> HIDE DEF a, r
    <2>4. t \in FileBufs /\ SameShell(s, t) /\ t.get = a /\ t.put = s.put /\ t.got = s.got
      BY <1>2, <2>1, <2>2, <2>3 DEF Good, FileBufs, SameShell
    <2> QED
      BY <2>4 DEF a
  <1>5. Good(t)
    BY <1>1, <1>2, <1>4, GetAreaGood
  <1>6. t.ok = TRUE => Unread(t) > 0
    <2> SUFFICES ASSUME t.ok = TRUE PROVE Unread(t) > 0
      OBVIOUS
    <2>1. w # <<>>
      BY <1>3 DEF Good, FileBufs
    <2> QED
      BY <1>2, <1>4, <2>1 DEF Unread, GetArea
  <1> QED
    BY <1>4, <1>5, <1>6 DEF t

\* underflow: stop_writing, then fill last_char_ or the buffer.
LEMMA UnderflowGood ==
    ASSUME NEW s, Good(s), NEW o, o.wrote \in Nat
    PROVE  LET t == Underflow(s, o)
           IN /\ Good(t) /\ t.isOpen = s.isOpen /\ t.mode = s.mode /\ t.got = s.got
              /\ t.ok = TRUE => Unread(t) > 0
  <1> DEFINE t == StopWriting(s, o)
             m == MakeBuffer(t)
             z == Underflow(s, o)
  <1>1. Good(t) /\ SameShell(s, t) /\ t.put = NoPut /\ t.got = s.got
    BY StopWritingGood
  <1> HIDE DEF t
  <1>2. t.ok \in BOOLEAN /\ s.unbuffered \in BOOLEAN
    BY <1>1 DEF Good, FileBufs
  <1>3. CASE ~CanRead(s)
    <2>1. z = Result(s, FALSE)
      BY <1>3 DEF Underflow
    <2>2. LET r == Result(s, FALSE)
          IN Good(r) /\ SameShell(s, r) /\ r.got = s.got /\ r.ok = FALSE
      BY ResultGood
    <2> QED
      BY <2>1, <2>2 DEF SameShell
  <1>4. CASE CanRead(s) /\ t.ok = FALSE
    <2>1. z = t
      BY <1>4 DEF Underflow, t
    <2> QED
      BY <1>1, <1>4, <2>1 DEF SameShell
  <1>5. CASE CanRead(s) /\ t.ok = TRUE
    <2>1. t.isOpen /\ CanRead(t) /\ ~HasPut(t)
      <3>1. s.isOpen
        BY <1>5 DEF Good, MemorySafe, ClosedIsClean, CanRead
      <3> QED
        BY <1>1, <1>5, <3>1, NullAreas DEF SameShell, CanRead, HasPut
    <2>2. CASE s.unbuffered = TRUE
      <3>1. z = FillLast(t)
        BY <1>5, <2>2 DEF Underflow, t
      <3>2. LET r == FillLast(t)
            IN Good(r) /\ SameShell(t, r) /\ r.got = t.got /\ (r.ok = TRUE => Unread(r) > 0)
        BY <1>1, <2>1, FillLastGood
      <3> QED
        BY <1>1, <3>1, <3>2 DEF SameShell
    <2>3. CASE s.unbuffered = FALSE
      <3>1. z = FillBuffer(m)
        BY <1>5, <2>3 DEF Underflow, t
      <3>2. t.size > 0
        BY <1>1, <2>1, <2>3 DEF Good, MemorySafe, BufferedIsBinary, SameShell
      <3>3. /\ Good(m) /\ m.put = t.put /\ m.isOpen = t.isOpen /\ m.mode = t.mode
            /\ m.got = t.got /\ m.mem # Null
        BY <1>1, <2>1, <3>2, MakeBufferGood
      <3> HIDE DEF m
      <3>4. m.isOpen /\ CanRead(m) /\ ~HasPut(m)
        BY <2>1, <3>3 DEF CanRead, HasPut
      <3>5. LET r == FillBuffer(m)
            IN Good(r) /\ SameShell(m, r) /\ r.got = m.got /\ (r.ok = TRUE => Unread(r) > 0)
        BY <3>3, <3>4, FillBufferGood
      <3> QED
        BY <1>1, <3>1, <3>3, <3>5 DEF SameShell
    <2> QED
      BY <1>2, <2>2, <2>3
  <1> QED
    BY <1>2, <1>3, <1>4, <1>5

LEMMA ConcatType ==
    ASSUME NEW S, NEW v \in Seq(S), NEW w \in Seq(S)
    PROVE  v \o w \in Seq(S) /\ Len(v \o w) = Len(v) + Len(w)
  OBVIOUS

\* gbump, within the get area.
LEMMA TakeGood ==
    ASSUME NEW s, Good(s), NEW n \in Nat, n <= Unread(s)
    PROVE  LET t == Take(s, n)
           IN /\ Good(t) /\ SameShell(s, t) /\ t.put = s.put /\ t.ok = TRUE
              /\ t.file = s.file /\ HasGet(t) = HasGet(s)
              /\ Len(t.got) = Len(s.got) + n
  <1> DEFINE w == SubSeq(s.get.chars, s.get.idx + 1, s.get.idx + n)
             g == [s.get EXCEPT !.idx = @ + n]
             t == Take(s, n)
  <1>1. s.get.chars \in Seq(Chars) /\ s.get.idx \in Nat /\ s.got \in Seq(Chars) /\ s.get \in GetAreas
    BY DEF Good, FileBufs
  <1>2. s.get.idx + n <= Len(s.get.chars)
    BY <1>1 DEF Unread
  <1>3. w \in Seq(Chars) /\ Len(w) = n
    BY <1>1, <1>2
  <1> HIDE DEF w
  <1>4. s.got \o w \in Seq(Chars) /\ Len(s.got \o w) = Len(s.got) + n
    <2>1. Len(s.got \o w) = Len(s.got) + Len(w)
      BY <1>1, <1>3, ConcatType
    <2> QED
      BY <1>1, <1>3, <2>1, ConcatType
  <1>5. /\ g \in GetAreas /\ g.at = s.get.at /\ g.chars = s.get.chars
        /\ g.idx = s.get.idx + n
    <2> DEFINE i == s.get.idx + n
    <2>1. i \in Nat
      BY <1>1
    <2>2. g = [s.get EXCEPT !.idx = i]
      BY <1>1
    <2> HIDE DEF i
    <2>3. g \in GetAreas /\ g.at = s.get.at /\ g.chars = s.get.chars /\ g.idx = i
      BY <1>1, <2>1, <2>2
    <2> QED
      BY <2>3 DEF i
  <1>6. t = [s EXCEPT !.got = s.got \o w, !.get = g, !.ok = TRUE]
    BY DEF Take, Good, FileBufs, w
  <1> HIDE DEF t, g
  <1>7. /\ t \in FileBufs /\ SameShell(s, t) /\ t.get = g /\ t.put = s.put /\ t.ok = TRUE
        /\ t.file = s.file /\ t.got = s.got \o w
    BY <1>4, <1>5, <1>6 DEF Good, FileBufs, SameShell
  <1>8. OneArea(t) /\ PutInBlock(t)
    BY <1>5, <1>7 DEF Good, MemorySafe, SameShell, OneArea, PutInBlock, HasGet, HasPut, Pending
  <1>9. GetInBlock(t)
    <2>1. CASE s.get.at = Null
      <3>1. s.get = NoGet
        BY <2>1 DEF Good, MemorySafe, GetInBlock
      <3>2. n = 0 /\ s.get.idx + n = s.get.idx
        BY <1>1, <1>2, <3>1 DEF NoGet
      <3>3. g = s.get
        BY <1>1, <3>2 DEF g
      <3> QED
        BY <1>7, <3>3 DEF Good, MemorySafe, SameShell, GetInBlock, HasGet
    <2>2. CASE s.get.at # Null
      BY <1>2, <1>5, <1>7, <2>2 DEF Good, MemorySafe, SameShell, GetInBlock, HasGet
    <2> QED
      BY <2>1, <2>2
  <1>10. AreasNeedFile(t)
    BY <1>5, <1>7 DEF Good, MemorySafe, SameShell, AreasNeedFile, HasGet, HasPut, CanRead, CanWrite
  <1>11. HasGet(t) = HasGet(s)
    BY <1>5, <1>7 DEF HasGet
  <1> QED
    BY <1>4, <1>7, <1>8, <1>9, <1>10, <1>11, GoodAreas DEF AreasSafe, t

LEMMA UnreadType ==
    ASSUME NEW s, Good(s)
    PROVE  Unread(s) \in Nat /\ s.ok \in BOOLEAN
  BY DEF Good, MemorySafe, GetInBlock, FileBufs, Unread

LEMMA TakeUpToGood ==
    ASSUME NEW s, Good(s), NEW n \in Nat
    PROVE  LET t == TakeUpTo(s, n)
           IN /\ Good(t) /\ SameShell(s, t) /\ t.put = s.put /\ t.ok = TRUE
              /\ t.file = s.file
              /\ Len(t.got) <= Len(s.got) + n /\ Len(t.got) \in Nat
  <1> DEFINE k == Least(n, Unread(s))
  <1>1. k \in Nat /\ k <= n /\ k <= Unread(s)
    BY UnreadType DEF Least
  <1>2. TakeUpTo(s, n) = Take(s, k)
    BY DEF TakeUpTo
  <1> HIDE DEF k
  <1>3. LET t == Take(s, k)
        IN /\ Good(t) /\ SameShell(s, t) /\ t.put = s.put /\ t.ok = TRUE
           /\ t.file = s.file /\ Len(t.got) = Len(s.got) + k
    BY <1>1, TakeGood
  <1>4. Len(s.got) \in Nat
    BY DEF Good, FileBufs
  <1> QED
    BY <1>1, <1>2, <1>3, <1>4

\* streambuf::sgetc and sbumpc.
LEMMA RefillGood ==
    ASSUME NEW s, Good(s), NEW o, o.wrote \in Nat
    PROVE  LET t == Refill(s, o)
           IN /\ Good(t) /\ t.isOpen = s.isOpen /\ t.mode = s.mode /\ t.got = s.got
              /\ t.ok = TRUE => Unread(t) > 0
  <1>1. CASE Unread(s) > 0
    <2>1. LET r == Result(s, TRUE)
          IN Good(r) /\ SameShell(s, r) /\ r.got = s.got /\ r.get = s.get
      BY ResultGood
    <2>2. Refill(s, o) = Result(s, TRUE)
      BY <1>1 DEF Refill
    <2> QED
      BY <1>1, <2>1, <2>2 DEF SameShell, Unread
  <1>2. CASE ~(Unread(s) > 0)
    BY <1>2, UnderflowGood DEF Refill
  <1> QED
    BY <1>1, <1>2

LEMMA PeekCharGood ==
    ASSUME NEW s, Good(s), NEW o, o.wrote \in Nat
    PROVE  Good(PeekChar(s, o))
  <1> DEFINE t == Refill(s, o)
             g == <<t.get.chars[t.get.idx + 1]>>
             u == [t EXCEPT !.got = g]
  <1>1. Good(t) /\ (t.ok = TRUE => Unread(t) > 0)
    BY RefillGood
  <1> HIDE DEF t
  <1>2. t.ok \in BOOLEAN
    BY <1>1, UnreadType
  <1>3. CASE t.ok = FALSE
    <2>1. PeekChar(s, o) = t
      BY <1>3 DEF PeekChar, t
    <2> QED
      BY <1>1, <2>1
  <1>4. CASE t.ok = TRUE
    <2>1. PeekChar(s, o) = u
      BY <1>4 DEF PeekChar, t
    <2>2. t.get.chars[t.get.idx + 1] \in Chars
      <3>1. t.get.chars \in Seq(Chars) /\ t.get.idx \in Nat
        BY <1>1 DEF Good, FileBufs
      <3>2. t.get.idx + 1 \in 1..Len(t.get.chars)
        BY <1>1, <1>4, <3>1 DEF Unread
      <3> QED
        BY <3>1, <3>2
    <2>3. g \in Seq(Chars)
      BY <2>2
    <2> HIDE DEF g
    <2>4. u \in FileBufs /\ SameShell(t, u) /\ u.get = t.get /\ u.put = t.put
      BY <1>1, <2>3 DEF Good, FileBufs, SameShell
    <2> HIDE DEF u
    <2>5. Good(u)
      BY <1>1, <2>4, GoodFrame
    <2> QED
      BY <2>1, <2>5
  <1> QED
    BY <1>2, <1>3, <1>4

LEMMA BumpCharGood ==
    ASSUME NEW s, Good(s), NEW o, o.wrote \in Nat
    PROVE  Good(BumpChar(s, o)) /\ SameUse(s, BumpChar(s, o))
  <1> DEFINE t == Refill(s, o)
  <1>1. Good(t) /\ SameUse(s, t) /\ (t.ok = TRUE => Unread(t) > 0)
    BY RefillGood DEF SameUse
  <1> HIDE DEF t
  <1>2. t.ok \in BOOLEAN /\ Unread(t) \in Nat
    BY <1>1, UnreadType
  <1>3. CASE t.ok = FALSE
    <2>1. BumpChar(s, o) = t
      BY <1>3 DEF BumpChar, t
    <2> QED
      BY <1>1, <2>1
  <1>4. CASE t.ok = TRUE
    <2>1. BumpChar(s, o) = Take(t, 1)
      BY <1>4 DEF BumpChar, t
    <2>2. 1 <= Unread(t)
      BY <1>1, <1>2, <1>4
    <2>3. Good(Take(t, 1)) /\ SameUse(t, Take(t, 1))
      BY <1>1, <2>2, TakeGood DEF SameUse, SameShell
    <2> QED
      BY <1>1, <2>1, <2>3 DEF SameUse
  <1> QED
    BY <1>2, <1>3, <1>4

\* streambuf::xsgetn: at most two refills.
LEMMA GetSmallGood ==
    ASSUME NEW s, Good(s), s.got = <<>>, NEW n \in Nat, NEW o, o.wrote \in Nat
    PROVE  Good(GetSmall(s, n, o))
  <1> DEFINE t == TakeUpTo(s, n)
             u == Underflow(t, o)
             v == TakeUpTo(u, n - Len(t.got))
             z == GetSmall(s, n, o)
  <1>0. Len(s.got) = 0
    OBVIOUS
  <1>1. Good(t) /\ Len(t.got) \in Nat /\ Len(t.got) <= n
    <2>1. Good(t) /\ Len(t.got) \in Nat /\ Len(t.got) <= Len(s.got) + n
      BY TakeUpToGood
    <2> QED
      BY <1>0, <2>1
  <1> HIDE DEF t
  <1>2. Good(u)
    BY <1>1, UnderflowGood
  <1> HIDE DEF u
  <1>3. n - Len(t.got) \in Nat
    BY <1>1
  <1>4. Good(v)
    BY <1>2, <1>3, TakeUpToGood
  <1> HIDE DEF v
  <1>5. Good(Underflow(v, o))
    BY <1>4, UnderflowGood
  <1>6. z \in {t, u, v, Underflow(v, o)}
    BY DEF GetSmall, t, u, v
  <1> QED
    BY <1>1, <1>2, <1>4, <1>5, <1>6

\* The direct part of the bulk xsgetn.
LEMMA ReadThroughGood ==
    ASSUME NEW s, Good(s), NEW n \in Nat
    PROVE  Good(ReadThrough(s, n))
  <1> DEFINE w == BytesRead(s.file, n)
             f == FRead(s.file, n)
             b == s.get.stale \/ (HasGet(s) /\ w # <<>>)
             g == [s.get EXCEPT !.stale = b]
             r == Len(w) = n
             t == ReadThrough(s, n)
  <1>1. s.file \in CFiles /\ s.got \in Seq(Chars) /\ s.get \in GetAreas
    BY DEF Good, FileBufs
  <1>2. w \in Seq(Chars) /\ f \in CFiles
    BY <1>1, BytesReadType, FReadType
  <1>3. b \in BOOLEAN /\ r \in BOOLEAN
    OBVIOUS
  <1>4. s.get = NoGet => b = FALSE
    BY DEF HasGet, NoGet
  <1>5. t = [s EXCEPT !.file = f, !.got = s.got \o w, !.get = g, !.ok = r]
    BY DEF ReadThrough, Good, FileBufs
  <1> HIDE DEF w, f, b, r
  <1>6. g \in GetAreas /\ g.at = s.get.at /\ g.chars = s.get.chars /\ g.idx = s.get.idx
    BY <1>1, <1>3
  <1>7. s.get = NoGet => g = s.get
    <2> SUFFICES ASSUME s.get = NoGet PROVE g = s.get
      OBVIOUS
    <2>1. s.get.stale = FALSE
      BY DEF NoGet
    <2>2. g = [s.get EXCEPT !.stale = s.get.stale]
      BY <1>4, <2>1
    <2> QED
      BY <1>1, <2>2
  <1>8. s.got \o w \in Seq(Chars)
    BY <1>1, <1>2
  <1> HIDE DEF g, t
  <1>9. t \in FileBufs /\ SameShell(s, t) /\ t.get = g /\ t.put = s.put
    BY <1>2, <1>3, <1>5, <1>6, <1>8 DEF Good, FileBufs, SameShell
  <1>10. OneArea(t) /\ PutInBlock(t)
    BY <1>6, <1>9 DEF Good, MemorySafe, SameShell, OneArea, PutInBlock, HasGet, HasPut, Pending
  <1>11. GetInBlock(t)
    BY <1>6, <1>7, <1>9 DEF Good, MemorySafe, SameShell, GetInBlock, HasGet
  <1>12. AreasNeedFile(t)
    BY <1>6, <1>9 DEF Good, MemorySafe, SameShell, AreasNeedFile, HasGet, HasPut, CanRead, CanWrite
  <1> QED
    BY <1>9, <1>10, <1>11, <1>12, GoodAreas DEF AreasSafe, t

LEMMA GetDirectGood ==
    ASSUME NEW s, Good(s), s.got = <<>>, NEW n \in Nat, NEW o, o.wrote \in Nat
    PROVE  Good(GetDirect(s, n, o))
  <1> DEFINE t == StopWriting(s, o)
             u == TakeUpTo(t, n)
             z == GetDirect(s, n, o)
  <1>1. Good(t) /\ t.got = <<>>
    BY StopWritingGood
  <1> HIDE DEF t
  <1>2. t.ok \in BOOLEAN
    BY <1>1, UnreadType
  <1>3. Good(u) /\ Len(u.got) \in Nat /\ Len(u.got) <= n
    <2>1. Good(u) /\ Len(u.got) \in Nat /\ Len(u.got) <= Len(t.got) + n
      BY <1>1, TakeUpToGood
    <2>2. Len(t.got) = 0
      BY <1>1
    <2> QED
      BY <2>1, <2>2
  <1> HIDE DEF u
  <1>4. Good(Result(s, FALSE)) /\ Good(Result(u, t.ok))
    BY <1>2, <1>3, ResultGood
  <1>5. n - Len(u.got) \in Nat
    BY <1>3
  <1>6. Good(ReadThrough(u, n - Len(u.got)))
    BY <1>3, <1>5, ReadThroughGood
  <1>7. z \in {Result(s, FALSE), Result(u, t.ok), ReadThrough(u, n - Len(u.got))}
    BY DEF GetDirect, Result, t, u
  <1> QED
    BY <1>4, <1>6, <1>7

\* streambuf::sgetn.
LEMMA XsgetnGood ==
    ASSUME NEW s, Good(s), s.got = <<>>, NEW n \in Nat, NEW o, o.wrote \in Nat
    PROVE  Good(Xsgetn(s, n, o))
  <1>1. Xsgetn(s, n, o) \in {GetSmall(s, n, o), GetDirect(s, n, o)}
    BY DEF Xsgetn
  <1> QED
    BY <1>1, GetSmallGood, GetDirectGood

\* A step back within the get area.
LEMMA StepBackGood ==
    ASSUME NEW s, Good(s), s.get.idx # 0,
           NEW t, t \in FileBufs, SameShell(s, t), t.put = s.put, t.get.at = s.get.at,
           t.get.idx = s.get.idx - 1, Len(t.get.chars) = Len(s.get.chars)
    PROVE  Good(t)
  <1>1. s.get.at # Null
    BY DEF Good, MemorySafe, GetInBlock, NoGet
  <1>2. OneArea(t) /\ PutInBlock(t)
    BY DEF Good, MemorySafe, SameShell, OneArea, PutInBlock, HasGet, HasPut, Pending
  <1>3. GetInBlock(t)
    <2>1. s.get.idx \in Nat /\ Len(s.get.chars) \in Nat /\ s.get.idx <= Len(s.get.chars)
      BY DEF Good, MemorySafe, GetInBlock, FileBufs
    <2>2. t.get.idx <= Len(t.get.chars)
      BY <2>1
    <2> QED
      BY <1>1, <2>2 DEF Good, MemorySafe, SameShell, GetInBlock, HasGet
  <1>4. AreasNeedFile(t)
    BY DEF Good, MemorySafe, SameShell, AreasNeedFile, HasGet, HasPut, CanRead, CanWrite
  <1> QED
    BY <1>2, <1>3, <1>4, GoodAreas DEF AreasSafe

\* pbackfail: gptr goes back by one, never before eback.
LEMMA PbackFailGood ==
    ASSUME NEW s, Good(s), NEW c \in OneChar
    PROVE  Good(PbackFail(s, c)) /\ SameUse(s, PbackFail(s, c))
  <1> DEFINE i == s.get.idx
             t == PbackFail(s, c)
  <1>1. /\ s.get \in GetAreas /\ i \in Nat /\ s.get.chars \in Seq(Chars) /\ s.get.mod \in SUBSET Nat
        /\ i <= Len(s.get.chars) /\ c \in Seq(Chars)
    BY DEF Good, MemorySafe, GetInBlock, FileBufs, OneChar
  <1>2. CASE i = 0
    <2>1. t = Result(s, FALSE)
      BY <1>2 DEF PbackFail
    <2>2. LET r == Result(s, FALSE) IN Good(r) /\ SameShell(s, r)
      BY ResultGood
    <2> QED
      BY <2>1, <2>2 DEF SameUse, SameShell
  <1>3. CASE i # 0 /\ (c = <<>> \/ c = <<s.get.chars[i]>>)
    <2> DEFINE g == [s.get EXCEPT !.idx = i - 1]
               w == <<s.get.chars[i]>>
    <2>1. t = [s EXCEPT !.get = g, !.got = w, !.ok = TRUE]
      BY <1>3 DEF PbackFail, Good, FileBufs
    <2>2. g \in GetAreas /\ g.at = s.get.at /\ g.idx = i - 1 /\ g.chars = s.get.chars
      BY <1>1, <1>3
    <2>3. w \in Seq(Chars)
      <3>1. s.get.chars[i] \in Chars
        BY <1>1, <1>3
      <3> QED
        BY <3>1
    <2> HIDE DEF g, w, t
    <2>4. t \in FileBufs /\ SameShell(s, t) /\ t.get = g /\ t.put = s.put
      BY <2>1, <2>2, <2>3 DEF Good, FileBufs, SameShell
    <2>5. Good(t)
      BY <1>3, <2>2, <2>4, StepBackGood
    <2> QED
      BY <2>4, <2>5 DEF t, SameUse, SameShell
  <1>4. CASE i # 0 /\ ~(c = <<>> \/ c = <<s.get.chars[i]>>)
    <2> DEFINE d == [s.get.chars EXCEPT ![i] = c[1]]
               m == s.get.mod \cup {i}
               g == [s.get EXCEPT !.idx = i - 1, !.chars = d, !.mod = m]
    <2>1. t = [s EXCEPT !.get = g, !.got = c, !.ok = TRUE]
      BY <1>4 DEF PbackFail, Good, FileBufs
    <2>2. c[1] \in Chars
      BY <1>1, <1>4
    <2>3. d \in Seq(Chars) /\ Len(d) = Len(s.get.chars)
      <3>1. s.get.chars \in [1..Len(s.get.chars) -> Chars] /\ Len(s.get.chars) \in Nat
        BY <1>1
      <3>2. d \in [1..Len(s.get.chars) -> Chars]
        BY <2>2, <3>1
      <3> HIDE DEF d
      <3> QED
        BY <3>1, <3>2
    <2>4. m \in SUBSET Nat /\ i - 1 \in Nat
      BY <1>1, <1>4
    <2> HIDE DEF d, m
    <2>5. g \in GetAreas /\ g.at = s.get.at /\ g.idx = i - 1 /\ g.chars = d
      BY <1>1, <2>3, <2>4
    <2> HIDE DEF g, t
    <2>6. t \in FileBufs /\ SameShell(s, t) /\ t.get = g /\ t.put = s.put
      BY <1>1, <2>1, <2>5 DEF Good, FileBufs, SameShell
    <2>7. Good(t)
      BY <1>4, <2>3, <2>5, <2>6, StepBackGood
    <2> QED
      BY <2>6, <2>7 DEF t, SameUse, SameShell
  <1> QED
    BY <1>2, <1>3, <1>4

\* A C call that fails or not leaves a stream.
LEMMA CCallType ==
    ASSUME NEW f \in CFiles, NEW b \in BOOLEAN
    PROVE  FTell(f, b) \in CFiles /\ FFlush(f, b) \in CFiles /\ FClose(f, b) \in CFiles
           /\ FOpen(f, b) \in CFiles
  <1>1. 0 \in Int
    OBVIOUS
  <1> QED
    BY <1>1, PositioningType

\* fflush within sync.
LEMMA FlushGood ==
    ASSUME NEW s, Good(s), NEW o
    PROVE  LET t == Flush(s, o) IN Good(t) /\ SameShell(s, t)
  <1> DEFINE f == FFlush(s.file, o.fault = "flush")
             b == s.ok /\ o.fault # "flush"
             t == Flush(s, o)
  <1>1. s.file \in CFiles
    BY DEF Good, FileBufs
  <1>2. f \in CFiles
    <2> DEFINE fails == o.fault = "flush"
    <2>1. fails \in BOOLEAN
      OBVIOUS
    <2>2. f = FFlush(s.file, fails)
      OBVIOUS
    <2> HIDE DEF fails
    <2> QED
      BY <1>1, <2>1, <2>2, CCallType
  <1>3. b \in BOOLEAN
    OBVIOUS
  <1>4. t = [s EXCEPT !.file = f, !.ok = b]
    BY DEF Flush, Good, FileBufs
  <1> HIDE DEF f, b, t
  <1>5. t \in FileBufs /\ SameShell(s, t) /\ t.get = s.get /\ t.put = s.put
    BY <1>2, <1>3, <1>4 DEF Good, FileBufs, SameShell
  <1>6. Good(t)
    BY <1>5, GoodFrame
  <1> QED
    BY <1>5, <1>6 DEF t

\* sync leaves the file open in its mode.
LEMMA SyncGood ==
    ASSUME NEW s, Good(s), NEW o, o.wrote \in Nat
    PROVE  LET t == Sync(s, o) IN Good(t) /\ t.isOpen = s.isOpen /\ t.mode = s.mode
  <1> DEFINE t == Overflow(s, <<>>, o)
  <1>1. LET r == Result(s, TRUE) IN Good(r) /\ SameShell(s, r)
    BY ResultGood
  <1>2. LET r == StopReading(s, o) IN Good(r) /\ SameShell(s, r)
    BY StopReadingGood
  <1>3. Good(t) /\ t.isOpen = s.isOpen /\ t.mode = s.mode
    <2>1. <<>> \in OneChar
      BY OneCharType
    <2>2. Stored(s, <<>>, t)
      BY <2>1, OverflowGood
    <2> QED
      BY <2>2 DEF Stored
  <1> HIDE DEF t
  <1>4. LET r == Flush(t, o) IN Good(r) /\ SameShell(t, r)
    BY <1>3, FlushGood
  <1>5. Sync(s, o) \in {Result(s, TRUE), StopReading(s, o), t, Flush(t, o)}
    BY DEF Sync, SyncPut, t
  <1> QED
    BY <1>1, <1>2, <1>3, <1>4, <1>5 DEF SameShell

\* fseek and ftell.
LEMMA RepositionGood ==
    ASSUME NEW s, Good(s), NEW p \in Int, NEW o
    PROVE  Good(Reposition(s, p, o))
  <1> DEFINE t == Reposition(s, p, o)
  <1>1. s.file \in CFiles
    BY DEF Good, FileBufs
  <1>2. ASSUME NEW f \in CFiles, NEW b \in BOOLEAN
        PROVE  Good([s EXCEPT !.file = f, !.ok = b])
    <2> DEFINE u == [s EXCEPT !.file = f, !.ok = b]
    <2>1. u \in FileBufs /\ SameShell(s, u) /\ u.get = s.get /\ u.put = s.put
      BY DEF Good, FileBufs, SameShell
    <2> HIDE DEF u
    <2>2. Good(u)
      BY <2>1, GoodFrame
    <2> QED
      BY <2>2 DEF u
  <1>3. CASE SeekWorks(p, o.fault = "position")
    <2> DEFINE f == FTell(FSeek(s.file, p, FALSE), o.fault = "tell")
               b == o.fault # "tell"
    <2>1. FSeek(s.file, p, FALSE) \in CFiles
      BY <1>1, PositioningType
    <2>2. f \in CFiles /\ b \in BOOLEAN
      BY <2>1, PositioningType
    <2>3. t = [s EXCEPT !.file = f, !.ok = b]
      BY <1>3 DEF Reposition
    <2> HIDE DEF f, b, t
    <2>4. Good([s EXCEPT !.file = f, !.ok = b])
      BY <1>2, <2>2
    <2> QED
      BY <2>3, <2>4 DEF t
  <1>4. CASE ~SeekWorks(p, o.fault = "position")
    <2> DEFINE f == FSeek(s.file, p, o.fault = "position")
    <2>1. f \in CFiles
      BY <1>1, PositioningType
    <2>2. t = [s EXCEPT !.file = f, !.ok = FALSE]
      BY <1>4 DEF Reposition
    <2> HIDE DEF f, t
    <2>3. Good([s EXCEPT !.file = f, !.ok = FALSE])
      BY <1>2, <2>1
    <2> QED
      BY <2>2, <2>3 DEF t
  <1> QED
    BY <1>3, <1>4

LEMMA SeekOffGood ==
    ASSUME NEW s, Good(s), NEW off \in Int, NEW dir \in {"beg", "cur", "end"},
           NEW o, o.wrote \in Nat
    PROVE  Good(SeekOff(s, off, dir, o)) /\ SameUse(s, SeekOff(s, off, dir, o))
  <1> DEFINE t == Sync(s, o)
             p == Base(t, dir) + off
  <1>1. Good(t) /\ SameUse(s, t)
    BY SyncGood DEF SameUse
  <1> HIDE DEF t
  <1>2. t.file.pos \in Int /\ Len(t.file.data) \in Int
    <2>1. t.file \in CFiles
      BY <1>1 DEF Good, FileBufs
    <2>2. t.file.pos \in Nat /\ t.file.data \in Seq(Chars)
      BY <2>1 DEF CFiles
    <2> QED
      BY <2>2
  <1>3. p \in Int
    <2>1. Base(t, dir) \in {0, t.file.pos, Len(t.file.data)}
      BY DEF Base
    <2>2. Base(t, dir) \in Int
      BY <1>2, <2>1
    <2> QED
      BY <2>2
  <1> HIDE DEF p
  <1>4. Good(Result(s, FALSE)) /\ Good(Reposition(t, p, o))
    BY <1>1, <1>3, ResultGood, RepositionGood
  <1>5. SameUse(s, Result(s, FALSE)) /\ SameUse(t, Reposition(t, p, o))
    BY <1>1 DEF SameUse, Result, Reposition, Good, FileBufs
  <1>6. SeekOff(s, off, dir, o) \in {Result(s, FALSE), t, Reposition(t, p, o)}
    BY DEF SeekOff, t, p
  <1> QED
    BY <1>1, <1>4, <1>5, <1>6 DEF SameUse

\* Giving up the block and the areas.
LEMMA FreeOwnedType ==
    ASSUME NEW s \in FileBufs, OwnsItsBlock(s)
    PROVE  LET t == FreeOwned(s)
           IN /\ t \in FileBufs /\ OwnsItsBlock(t) /\ t.owned = FALSE /\ t.allocs = 0
              /\ t.isOpen = s.isOpen /\ t.mode = s.mode /\ t.size = s.size
              /\ t.unbuffered = s.unbuffered /\ t.get = s.get /\ t.put = s.put
  <1> DEFINE t == FreeOwned(s)
  <1>1. s.owned \in BOOLEAN /\ s.allocs \in Nat
    BY DEF FileBufs
  <1>2. CASE s.owned = TRUE
    <2>1. s.allocs = 1
      BY <1>2 DEF OwnsItsBlock
    <2>2. t = [s EXCEPT !.mem = Null, !.owned = FALSE, !.allocs = 0]
      BY <1>2, <2>1 DEF FreeOwned, FileBufs
    <2> HIDE DEF t
    <2>3. /\ t \in FileBufs /\ t.owned = FALSE /\ t.allocs = 0 /\ t.mem = Null
          /\ t.isOpen = s.isOpen /\ t.mode = s.mode /\ t.size = s.size
          /\ t.unbuffered = s.unbuffered /\ t.get = s.get /\ t.put = s.put
      BY <2>2 DEF FileBufs
    <2>4. OwnsItsBlock(t)
      BY <2>3, BlocksAssumption DEF OwnsItsBlock
    <2> QED
      BY <2>3, <2>4 DEF t
  <1>3. CASE s.owned = FALSE
    <2>1. t = s
      BY <1>3 DEF FreeOwned
    <2>2. s.allocs = 0
      BY <1>3 DEF OwnsItsBlock
    <2> QED
      BY <1>3, <2>1, <2>2
  <1> QED
    BY <1>1, <1>2, <1>3

LEMMA NoAreasType ==
    ASSUME NEW s \in FileBufs
    PROVE  LET t == NoAreas(s)
           IN t \in FileBufs /\ SameShell(s, t) /\ t.get = NoGet /\ t.put = NoPut
  <1>1. NoGet \in GetAreas /\ NoPut \in PutAreas
    BY NullAreas
  <1> HIDE DEF GetAreas, PutAreas
  <1> QED
    BY <1>1 DEF NoAreas, FileBufs, SameShell

\* A filebuf without areas is in order if what it says of its block and its mode is.
LEMMA GoodWithoutAreas ==
    ASSUME NEW t \in FileBufs, OwnsItsBlock(t), t.get = NoGet, t.put = NoPut,
           ~t.isOpen => t.mode = {} /\ ~t.owned, BufferedIsBinary(t)
    PROVE  Good(t)
  <1>1. ~HasGet(t) /\ ~HasPut(t)
    BY NullAreas DEF HasGet, HasPut
  <1>2. OneArea(t) /\ GetInBlock(t) /\ PutInBlock(t) /\ AreasNeedFile(t)
    BY <1>1, NullAreas, BlocksAssumption DEF OneArea, GetInBlock, PutInBlock, AreasNeedFile
  <1>3. ClosedIsClean(t)
    BY <1>1 DEF ClosedIsClean
  <1> QED
    BY <1>2, <1>3 DEF Good, MemorySafe

\* What close makes of t, in which the areas are synchronised.
Emptied(t, o) ==
    LET u == [t EXCEPT !.file = FClose(@, o.fault = "close"),
                       !.ok = @ /\ o.fault # "close",
                       !.isOpen = FALSE, !.mode = {}]
    IN NoAreas(FreeOwned(u))

\* It has given up everything.
LEMMA ClosedGood ==
    ASSUME NEW t \in FileBufs, OwnsItsBlock(t), NEW o
    PROVE  Good(Emptied(t, o)) /\ Emptied(t, o).isOpen = FALSE
  <1> DEFINE fails == o.fault = "close"
             f == FClose(t.file, fails)
             b == t.ok /\ o.fault # "close"
             u == [t EXCEPT !.file = f, !.ok = b, !.isOpen = FALSE, !.mode = {}]
             v == FreeOwned(u)
             z == NoAreas(v)
  <1>1. fails \in BOOLEAN /\ b \in BOOLEAN
    OBVIOUS
  <1>2. u = [t EXCEPT !.file = FClose(@, o.fault = "close"), !.ok = @ /\ o.fault # "close",
                      !.isOpen = FALSE, !.mode = {}]
    BY DEF FileBufs
  <1>3. f \in CFiles
    <2>1. t.file \in CFiles
      BY DEF FileBufs
    <2> HIDE DEF fails
    <2> QED
      BY <1>1, <2>1, CCallType
  <1> HIDE DEF f, b
  <1>4. /\ u \in FileBufs /\ u.isOpen = FALSE /\ u.mode = {}
        /\ u.mem = t.mem /\ u.owned = t.owned /\ u.allocs = t.allocs
    BY <1>1, <1>3 DEF FileBufs
  <1> HIDE DEF u
  <1>5. OwnsItsBlock(u)
    BY <1>4 DEF OwnsItsBlock
  <1>6. v \in FileBufs /\ OwnsItsBlock(v) /\ v.owned = FALSE /\ v.isOpen = FALSE /\ v.mode = {}
    BY <1>4, <1>5, FreeOwnedType
  <1> HIDE DEF v
  <1>7. z \in FileBufs /\ SameShell(v, z) /\ z.get = NoGet /\ z.put = NoPut
    BY <1>6, NoAreasType
  <1> HIDE DEF z
  <1>8. OwnsItsBlock(z)
    BY <1>6, <1>7 DEF OwnsItsBlock, SameShell
  <1>9. z.isOpen = FALSE /\ z.mode = {} /\ z.owned = FALSE /\ BufferedIsBinary(z)
    BY <1>6, <1>7 DEF SameShell, BufferedIsBinary
  <1>10. Good(z)
    BY <1>7, <1>8, <1>9, GoodWithoutAreas
  <1>11. Emptied(t, o) = z
    BY <1>2 DEF z, v, Emptied
  <1> QED
    BY <1>9, <1>10, <1>11

LEMMA CloseGood ==
    ASSUME NEW s, Good(s), NEW o, o.wrote \in Nat
    PROVE  Good(Close(s, o)) /\ Close(s, o).isOpen = FALSE
  <1> DEFINE t == Sync(s, o)
             z == Emptied(t, o)
  <1>1. Good(t)
    BY SyncGood
  <1>2. Close(s, o) = IF ~s.isOpen THEN Result(s, FALSE) ELSE z
    BY DEF Close, Emptied
  <1> HIDE DEF t
  <1>3. t \in FileBufs /\ OwnsItsBlock(t)
    BY <1>1 DEF Good, MemorySafe
  <1>4. Good(z) /\ z.isOpen = FALSE
    BY <1>3, ClosedGood
  <1>5. Good(Result(s, FALSE)) /\ Result(s, FALSE).isOpen = s.isOpen /\ s.isOpen \in BOOLEAN
    BY ResultGood DEF SameShell, Good, FileBufs
  <1> HIDE DEF z
  <1> QED
    BY <1>2, <1>4, <1>5

\* set_unbuffered_read.
LEMMA SetUnbufferedReadType ==
    ASSUME NEW s \in FileBufs
    PROVE  LET t == SetUnbufferedRead(s)
           IN /\ t \in FileBufs /\ BufferedIsBinary(t)
              /\ t.isOpen = s.isOpen /\ t.mode = s.mode /\ t.mem = s.mem /\ t.owned = s.owned
              /\ t.allocs = s.allocs /\ t.get = s.get /\ t.put = s.put /\ t.ok = s.ok
  <1> DEFINE b == "binary" \notin s.mode \/ s.size = 0
             t == SetUnbufferedRead(s)
  <1>1. b \in BOOLEAN
    OBVIOUS
  <1>2. t = [s EXCEPT !.unbuffered = b]
    BY DEF SetUnbufferedRead
  <1>3. b = FALSE => "binary" \in s.mode /\ s.size # 0
    OBVIOUS
  <1> HIDE DEF b, t
  <1>4. /\ t \in FileBufs /\ t.unbuffered = b /\ t.size = s.size
        /\ t.isOpen = s.isOpen /\ t.mode = s.mode /\ t.mem = s.mem /\ t.owned = s.owned
        /\ t.allocs = s.allocs /\ t.get = s.get /\ t.put = s.put /\ t.ok = s.ok
    BY <1>1, <1>2 DEF FileBufs
  <1>5. BufferedIsBinary(t)
    <2> SUFFICES ASSUME ~t.unbuffered PROVE "binary" \in t.mode /\ t.size > 0
      BY DEF BufferedIsBinary
    <2>1. b = FALSE
      BY <1>1, <1>4
    <2>2. s.size \in Nat
      BY DEF FileBufs
    <2> QED
      BY <1>3, <1>4, <2>1, <2>2
  <1> QED
    BY <1>4, <1>5 DEF t

\* open once fopen has succeeded, for a closed filebuf.
LEMMA OpenedGood ==
    ASSUME NEW s, Good(s), s.isOpen = FALSE, NEW m \in SUBSET Flags, NEW o
    PROVE  Good(Opened(s, m, o)) /\ OpenAnswers(s, m, Opened(s, m, o))
  <1> DEFINE trunc == GetMode(m) \in {"w", "w+"}
             f == FOpen(s.file, trunc)
             fails == o.fault = "end"
             e == IF "ate" \in m THEN FSeek(f, Len(f.data), fails) ELSE f
             t == [s EXCEPT !.isOpen = TRUE, !.file = e]
  <1>1. s \in FileBufs /\ OwnsItsBlock(s) /\ s.owned = FALSE
    <2>1. s.owned \in BOOLEAN
      BY DEF Good, FileBufs
    <2> QED
      BY <2>1 DEF Good, MemorySafe, ClosedIsClean
  <1>2. s.get = NoGet /\ s.put = NoPut
    <2>1. s.get.at = Null /\ s.put.at = Null
      BY DEF Good, MemorySafe, ClosedIsClean, HasGet, HasPut
    <2> QED
      BY <2>1 DEF Good, MemorySafe, GetInBlock, PutInBlock
  <1>3. trunc \in BOOLEAN /\ fails \in BOOLEAN
    OBVIOUS
  <1>4. f \in CFiles
    <2>1. s.file \in CFiles
      BY <1>1 DEF FileBufs
    <2> HIDE DEF trunc
    <2> QED
      BY <1>3, <2>1, CCallType
  <1> HIDE DEF f
  <1>5. e \in CFiles
    <2>1. Len(f.data) \in Int
      <3>1. f.data \in Seq(Chars)
        BY <1>4 DEF CFiles
      <3> QED
        BY <3>1
    <2> HIDE DEF fails
    <2>2. FSeek(f, Len(f.data), fails) \in CFiles
      BY <1>3, <1>4, <2>1, PositioningType
    <2> QED
      BY <1>4, <2>2
  <1> HIDE DEF e
  <1>6. /\ t \in FileBufs /\ t.isOpen = TRUE /\ t.get = NoGet /\ t.put = NoPut
        /\ t.mem = s.mem /\ t.owned = FALSE /\ t.allocs = s.allocs
    BY <1>1, <1>2, <1>5 DEF FileBufs
  <1>7. CASE "ate" \in m /\ fails
    <2> DEFINE y == Sync(t, o)
               z == Emptied(y, o)
    <2>1. Opened(s, m, o) = Result(Close(t, o), FALSE)
      BY <1>7 DEF Opened, f, e
    <2> HIDE DEF t
    <2>2. y = [t EXCEPT !.get = NoGet, !.ok = TRUE]
      BY <1>6, NullAreas DEF Sync, StopReading, HasPut, HasGet
    <2>3. Close(t, o) = z
      BY <1>6 DEF Close, Emptied
    <2> HIDE DEF y
    <2>4. y \in FileBufs /\ y.mem = t.mem /\ y.owned = t.owned /\ y.allocs = t.allocs
      BY <1>6, <2>2, NullAreas DEF FileBufs
    <2>5. OwnsItsBlock(y)
      BY <1>1, <1>6, <2>4 DEF OwnsItsBlock
    <2>6. Good(z) /\ z.isOpen = FALSE
      BY <2>4, <2>5, ClosedGood
    <2> HIDE DEF z
    <2>7. LET r == Result(z, FALSE) IN Good(r) /\ r.isOpen = FALSE /\ r.ok = FALSE
      BY <2>6, ResultGood DEF SameShell
    <2> QED
      BY <2>1, <2>3, <2>7 DEF OpenAnswers
  <1>8. CASE ~("ate" \in m /\ fails)
    <2> DEFINE u == [t EXCEPT !.mode = m \ {"ate"}, !.ok = TRUE]
               v == SetUnbufferedRead(u)
    <2>1. Opened(s, m, o) = v
      BY <1>8 DEF Opened, f, e
    <2> HIDE DEF t
    <2>2. /\ u \in FileBufs /\ u.isOpen = TRUE /\ u.get = NoGet /\ u.put = NoPut
          /\ u.mem = t.mem /\ u.owned = t.owned /\ u.allocs = t.allocs
          /\ u.mode = m \ {"ate"} /\ u.ok = TRUE
      <3>1. m \ {"ate"} \in SUBSET Flags
        OBVIOUS
      <3> QED
        BY <1>6, <3>1 DEF FileBufs
    <2> HIDE DEF u
    <2>3. /\ v \in FileBufs /\ BufferedIsBinary(v) /\ v.isOpen = TRUE
          /\ v.get = NoGet /\ v.put = NoPut
          /\ v.mem = u.mem /\ v.owned = u.owned /\ v.allocs = u.allocs
          /\ v.mode = m \ {"ate"} /\ v.ok = TRUE
      BY <2>2, SetUnbufferedReadType
    <2> HIDE DEF v
    <2>4. OwnsItsBlock(v)
      BY <1>1, <1>6, <2>2, <2>3 DEF OwnsItsBlock
    <2>5. Good(v)
      BY <2>3, <2>4, GoodWithoutAreas
    <2> QED
      BY <2>1, <2>3, <2>5 DEF OpenAnswers
  <1> QED
    BY <1>7, <1>8

LEMMA OpenGood ==
    ASSUME NEW s, Good(s), NEW m \in SUBSET Flags, NEW o
    PROVE  Good(Open(s, m, o)) /\ OpenAnswers(s, m, Open(s, m, o))
  <1> DEFINE t == [s EXCEPT !.file.errs = @ + 1, !.ok = FALSE]
  <1>1. s.isOpen \in BOOLEAN
    BY DEF Good, FileBufs
  <1>2. Good(Result(s, FALSE)) /\ OpenAnswers(s, m, Result(s, FALSE))
    BY ResultGood DEF OpenAnswers, SameShell
  <1>3. s.isOpen = FALSE => Good(Opened(s, m, o)) /\ OpenAnswers(s, m, Opened(s, m, o))
    BY OpenedGood
  <1>4. Good(t) /\ OpenAnswers(s, m, t)
    <2> DEFINE f == [s.file EXCEPT !.errs = @ + 1]
    <2>1. t = [s EXCEPT !.file = f, !.ok = FALSE]
      BY DEF Good, FileBufs
    <2>2. f \in CFiles
      <3>1. s.file \in CFiles
        BY DEF Good, FileBufs
      <3>2. s.file.errs + 1 \in Nat
        BY <3>1 DEF CFiles
      <3> QED
        BY <3>1, <3>2 DEF CFiles
    <2> HIDE DEF f, t
    <2>3. /\ t \in FileBufs /\ SameShell(s, t) /\ t.get = s.get /\ t.put = s.put
          /\ t.ok = FALSE
      BY <2>1, <2>2 DEF Good, FileBufs, SameShell
    <2>4. Good(t)
      BY <2>3, GoodFrame
    <2> QED
      BY <2>3, <2>4 DEF t, OpenAnswers, SameShell
  <1>5. \/ Open(s, m, o) = Result(s, FALSE)
        \/ Open(s, m, o) = t
        \/ s.isOpen = FALSE /\ Open(s, m, o) = Opened(s, m, o)
    BY <1>1 DEF Open
  <1> HIDE DEF t
  <1> QED
    BY <1>2, <1>3, <1>4, <1>5

\* setbuf: the block goes, and so do the areas in it.
LEMMA SetBufGood ==
    ASSUME NEW s, Good(s), NEW b \in UserBufs \cup {Null}, NEW n \in Nat
    PROVE  Good(SetBuf(s, b, n)) /\ SameUse(s, SetBuf(s, b, n))
  <1> DEFINE r == NoAreas(s)
             t == FreeOwned(r)
             u == [t EXCEPT !.mem = b, !.size = n, !.ok = TRUE]
             v == SetUnbufferedRead(u)
  <1>1. SetBuf(s, b, n) = v
    BY DEF SetBuf
  <1>2. s \in FileBufs
    BY DEF Good
  <1>3. r \in FileBufs /\ SameShell(s, r) /\ r.get = NoGet /\ r.put = NoPut
    BY <1>2, NoAreasType
  <1> HIDE DEF r
  <1>4. OwnsItsBlock(r)
    BY <1>3 DEF Good, MemorySafe, OwnsItsBlock, SameShell
  <1>5. /\ t \in FileBufs /\ t.owned = FALSE /\ t.allocs = 0 /\ t.get = NoGet /\ t.put = NoPut
        /\ t.isOpen = r.isOpen /\ t.mode = r.mode
    BY <1>3, <1>4, FreeOwnedType
  <1> HIDE DEF t
  <1>6. /\ u \in FileBufs /\ u.mem = b /\ u.owned = FALSE /\ u.allocs = 0
        /\ u.get = NoGet /\ u.put = NoPut /\ u.isOpen = s.isOpen /\ u.mode = s.mode
    BY <1>3, <1>5 DEF FileBufs, SameShell
  <1> HIDE DEF u
  <1>7. /\ v \in FileBufs /\ BufferedIsBinary(v) /\ v.mem = b /\ v.owned = FALSE /\ v.allocs = 0
        /\ v.get = NoGet /\ v.put = NoPut /\ v.isOpen = s.isOpen /\ v.mode = s.mode
    BY <1>6, SetUnbufferedReadType
  <1> HIDE DEF v
  <1>8. OwnsItsBlock(v)
    BY <1>7, BlocksAssumption DEF OwnsItsBlock
  <1>9. ~v.isOpen => v.mode = {} /\ ~v.owned
    BY <1>7 DEF Good, MemorySafe, ClosedIsClean
  <1> QED
    BY <1>1, <1>7, <1>8, <1>9, GoodWithoutAreas DEF SameUse

LEMMA OutcomeType ==
    ASSUME NEW F, NEW o \in Outcomes(F)
    PROVE  o.wrote \in Nat
  <1>1. o.wrote \in {0} \/ o.wrote \in 1..MaxPartial
    BY DEF Outcomes
  <1> QED
    BY <1>1, PartialAssumption

\* The result of a call is forgotten before the next one.
LEMMA GotClearedGood ==
    ASSUME NEW s, Good(s)
    PROVE  LET e == [s EXCEPT !.got = <<>>] IN Good(e) /\ e.got = <<>>
  <1> DEFINE e == [s EXCEPT !.got = <<>>]
  <1>1. <<>> \in Seq(Chars)
    OBVIOUS
  <1>2. e \in FileBufs /\ SameShell(s, e) /\ e.get = s.get /\ e.put = s.put /\ e.got = <<>>
    BY <1>1 DEF Good, FileBufs, SameShell
  <1> HIDE DEF e
  <1>3. Good(e)
    BY <1>2, GoodFrame
  <1> QED
    BY <1>2, <1>3 DEF e

LEMMA NewFileBufGood ==
    ASSUME NEW f \in CFiles
    PROVE  Good(NewFileBuf(f))
  <1> DEFINE s == NewFileBuf(f)
  <1>1. s \in FileBufs /\ s.get = NoGet /\ s.put = NoPut /\ s.isOpen = FALSE
        /\ s.mode = {} /\ s.owned = FALSE /\ s.mem = Null /\ s.allocs = 0
    <2>1. <<>> \in Seq(Chars) /\ NoGet \in GetAreas /\ NoPut \in PutAreas
      BY NullAreas
    <2> HIDE DEF GetAreas, PutAreas
    <2> QED
      BY <2>1, SizeAssumption DEF FileBufs, NewFileBuf
  <1> HIDE DEF s
  <1>2. OwnsItsBlock(s) /\ BufferedIsBinary(s)
    BY <1>1, BlocksAssumption DEF OwnsItsBlock, BufferedIsBinary
  <1>3. Good(s)
    BY <1>1, <1>2, GoodWithoutAreas
  <1> QED
    BY <1>3 DEF s

LEMMA NewFileType ==
    ASSUME NEW d \in Seq(Chars)
    PROVE  NewFile(d) \in CFiles
  BY DEF NewFile, CFiles

----------------------------------------------------------------------------
\* What a close leaves in the file.

\* The file f holds d, unless a C call has failed.
Holds(f, d) == f \in CFiles /\ (f.errs = 0 => f.data = d)

LEMMA SubSeqAll ==
    ASSUME NEW w \in Seq(Chars)
    PROVE  SubSeq(w, 1, Len(w)) = w
  OBVIOUS

\* fwrite stores all it is given, or fails.
LEMMA WrittenHolds ==
    ASSUME NEW s, Good(s), Pending(s) > 0, NEW o, o.wrote \in Nat
    PROVE  LET w == s.put.chars
               f == FWrite(s.file, w, Accepted(w, o, "write"), AppendMode(s))
           IN Holds(f, Content(s))
  <1> DEFINE w == s.put.chars
             k == Accepted(w, o, "write")
             at == WritePos(s.file, AppendMode(s))
             f == FWrite(s.file, w, k, AppendMode(s))
  <1>1. w \in Seq(Chars) /\ w # <<>> /\ s.file \in CFiles
    BY DEF Good, FileBufs, Pending
  <1>2. f \in CFiles
    BY <1>1, FileWritten
  <1>3. k \in Nat /\ k <= Len(w)
    BY <1>1, AcceptedType
  <1> HIDE DEF k
  <1>4. /\ f.errs = IF k < Len(w) THEN s.file.errs + 1 ELSE s.file.errs
        /\ f.data = Overwrite(s.file.data, at, SubSeq(w, 1, k))
    BY <1>1 DEF FWrite, CFiles
  <1>5. s.file.errs + 1 # 0
    BY <1>1 DEF CFiles
  <1> HIDE DEF f
  <1>6. k < Len(w) => Holds(f, Content(s))
    BY <1>2, <1>4, <1>5 DEF Holds
  <1>7. ASSUME k = Len(w) PROVE Holds(f, Content(s))
    <2>1. SubSeq(w, 1, k) = w
      BY <1>1, <1>7, SubSeqAll
    <2>2. f.data = Content(s)
      BY <1>4, <2>1 DEF Content
    <2> QED
      BY <1>2, <2>2 DEF Holds
  <1>8. Holds(f, Content(s))
    BY <1>1, <1>3, <1>6, <1>7
  <1> QED
    BY <1>8 DEF f, k

LEMMA NothingPending ==
    ASSUME NEW s, Good(s), Pending(s) = 0
    PROVE  Content(s) = s.file.data /\ Holds(s.file, Content(s))
  <1>1. s.put.chars = <<>> /\ s.file \in CFiles
    BY DEF Good, FileBufs, Pending
  <1>2. Content(s) = s.file.data
    BY <1>1 DEF Content, Overwrite
  <1> QED
    BY <1>1, <1>2 DEF Holds

\* The C calls that do not write keep that.
LEMMA HoldsKept ==
    ASSUME NEW f, NEW d, Holds(f, d), NEW fails \in BOOLEAN
    PROVE  /\ Holds(FFlush(f, fails), d) /\ Holds(FClose(f, fails), d)
           /\ \A p \in Int : Holds(FSeek(f, p, fails), d)
  <1>1. f \in CFiles
    BY DEF Holds
  <1>2. /\ FFlush(f, fails) \in CFiles /\ FClose(f, fails) \in CFiles
        /\ \A p \in Int : FSeek(f, p, fails) \in CFiles
    BY <1>1, PositioningType, CCallType
  <1>3. f.errs + 1 # 0
    BY <1>1 DEF CFiles
  <1>4. FFlush(f, fails).data = f.data /\ FFlush(f, fails).errs \in {f.errs, f.errs + 1}
    BY <1>1 DEF FFlush, CFiles
  <1>5. FClose(f, fails).data = f.data /\ FClose(f, fails).errs \in {f.errs, f.errs + 1}
    BY <1>1 DEF FClose, CFiles
  <1>6. \A p \in Int : /\ FSeek(f, p, fails).data = f.data
                       /\ FSeek(f, p, fails).errs \in {f.errs, f.errs + 1}
    BY <1>1 DEF FSeek, CFiles
  <1> QED
    BY <1>2, <1>3, <1>4, <1>5, <1>6 DEF Holds

\* overflow and the flush within sync.
LEMMA SyncPutHolds ==
    ASSUME NEW s, Good(s), HasPut(s), NEW o, o.wrote \in Nat
    PROVE  Holds(SyncPut(s, o).file, Content(s))
  <1> DEFINE r == StopReading(s, o)
             t == Overflow(s, <<>>, o)
             fails == o.fault = "flush"
  <1>1. CanWrite(s) /\ ~HasGet(s)
    BY DEF Good, MemorySafe, AreasNeedFile, OneArea
  <1>2. r = [s EXCEPT !.get = NoGet, !.ok = TRUE] /\ s \in FileBufs
    BY <1>1 DEF StopReading, Good
  <1>3. /\ r.ok = TRUE /\ r.put = s.put /\ r.file = s.file /\ r.mode = s.mode
    BY <1>2 DEF FileBufs
  <1>4. Good(r)
    BY StopReadingGood
  <1>5. t = StoreOrFlush(r, <<>>, o)
    BY <1>1, <1>3 DEF Overflow
  <1> HIDE DEF r
  <1>6. Content(r) = Content(s) /\ Pending(r) = Pending(s) /\ Pending(s) \in Nat
    BY <1>2, <1>3 DEF Content, Pending, AppendMode, FileBufs
  <1>7. Holds(t.file, Content(s))
    <2>1. CASE Pending(r) > 0
      <3> DEFINE w == r.put.chars
                 k == Accepted(w, o, "write")
                 f == FWrite(r.file, w, k, AppendMode(r))
                 u == [r EXCEPT !.file = f]
      <3>1. Holds(f, Content(s))
        BY <1>4, <1>6, <2>1, WrittenHolds
      <3>2. t = IF k < Len(w) THEN Result(u, FALSE) ELSE Restart(u, <<>>)
        BY <1>5, <2>1 DEF StoreOrFlush, FlushAndStore
      <3> HIDE DEF t, w, k, f
      <3>3. r \in FileBufs
        BY <1>4 DEF Good
      <3>4. Result(u, FALSE).file = f /\ Restart(u, <<>>).file = f
        BY <3>3 DEF Result, Restart, FileBufs
      <3> HIDE DEF u
      <3>5. t.file = f
        BY <3>2, <3>4
      <3> QED
        BY <3>1, <3>5
    <2>2. CASE ~(Pending(r) > 0)
      <3>1. Holds(r.file, Content(s))
        BY <1>4, <1>6, <2>2, NothingPending
      <3>2. t = Result(r, TRUE)
        BY <1>5, <2>2 DEF StoreOrFlush
      <3>3. r \in FileBufs
        BY <1>4 DEF Good
      <3>4. t.file = r.file
        BY <3>2, <3>3 DEF Result, FileBufs
      <3> QED
        BY <3>1, <3>4
    <2> QED
      BY <2>1, <2>2
  <1>8. t \in FileBufs
    <2>1. <<>> \in OneChar
      BY OneCharType
    <2> QED
      BY <2>1, OverflowGood DEF Stored, Good
  <1>9. SyncPut(s, o) = IF HasPrevWrite(s) THEN Flush(t, o) ELSE t
    BY DEF SyncPut
  <1> HIDE DEF t
  <1>10. Flush(t, o).file = FFlush(t.file, fails)
    BY <1>8 DEF Flush, FileBufs
  <1>11. fails \in BOOLEAN
    OBVIOUS
  <1> HIDE DEF fails
  <1>12. Holds(FFlush(t.file, fails), Content(s))
    BY <1>7, <1>11, HoldsKept
  <1> QED
    BY <1>7, <1>9, <1>10, <1>12

\* What close leaves in the file is what the caller has seen there, unless a C call fails.
LEMMA CloseHolds ==
    ASSUME NEW s, Good(s), s.isOpen, NEW o, o.wrote \in Nat
    PROVE  Holds(Close(s, o).file, Content(s))
  <1> DEFINE t == Sync(s, o)
             fails == o.fault = "close"
             u == [t EXCEPT !.file = FClose(@, o.fault = "close"),
                            !.ok = @ /\ o.fault # "close",
                            !.isOpen = FALSE, !.mode = {}]
             v == FreeOwned(u)
  <1>1. Holds(t.file, Content(s))
    <2>1. CASE HasPut(s)
      BY <2>1, SyncPutHolds DEF Sync
    <2>2. CASE ~HasPut(s)
      <3> DEFINE back == s.file.pos - Unread(s)
                 stuck == o.fault = "seek"
      <3>1. t = StopReading(s, o) /\ s \in FileBufs
        BY <2>2 DEF Sync, Good
      <3>2. Pending(s) = 0
        BY <2>2, NullAreas DEF Good, MemorySafe, PutInBlock, HasPut, Pending
      <3>3. Holds(s.file, Content(s)) /\ stuck \in BOOLEAN /\ back \in Int
        <4>1. s.file.pos \in Nat
          BY <3>1 DEF FileBufs, CFiles
        <4> QED
          BY <3>2, <4>1, NothingPending, UnreadType
      <3> HIDE DEF t
      <3>4. t.file = s.file \/ t.file = FSeek(s.file, back, stuck)
        BY <3>1 DEF StopReading, FileBufs
      <3> HIDE DEF back, stuck
      <3>5. Holds(FSeek(s.file, back, stuck), Content(s))
        BY <3>3, HoldsKept
      <3> QED
        BY <3>3, <3>4, <3>5
    <2> QED
      BY <2>1, <2>2
  <1>2. t \in FileBufs
    BY SyncGood DEF Good
  <1>3. Close(s, o) = NoAreas(v)
    BY DEF Close
  <1> HIDE DEF t
  <1>4. u.file = FClose(t.file, fails) /\ "file" \in DOMAIN u
    BY <1>2 DEF FileBufs
  <1> HIDE DEF u
  <1>5. v.file = u.file /\ "file" \in DOMAIN v
    BY <1>4 DEF FreeOwned
  <1> HIDE DEF v
  <1>6. Close(s, o).file = FClose(t.file, fails)
    BY <1>3, <1>4, <1>5 DEF NoAreas
  <1>7. fails \in BOOLEAN
    OBVIOUS
  <1> HIDE DEF fails
  <1>8. Holds(FClose(t.file, fails), Content(s))
    BY <1>1, <1>7, HoldsKept
  <1> QED
    BY <1>6, <1>8

----------------------------------------------------------------------------
\* Failures are told.

\* A function that turned s into t either reports failure, or none of its C calls has failed.
Honest(s, t) == t.ok = FALSE \/ t.file.errs = s.file.errs

LEMMA HonestChain ==
    ASSUME NEW s, NEW t, NEW u, t.file.errs = s.file.errs, Honest(t, u)
    PROVE  Honest(s, u)
  BY DEF Honest

\* The C calls that work.
LEMMA FSeekWorks ==
    ASSUME NEW f \in CFiles, NEW p, NEW fails, SeekWorks(p, fails)
    PROVE  FSeek(f, p, fails).errs = f.errs
  BY DEF CFiles, FSeek

LEMMA FWriteWorks ==
    ASSUME NEW f \in CFiles, NEW w, NEW k, NEW append, ~(k < Len(w))
    PROVE  FWrite(f, w, k, append).errs = f.errs
  BY DEF CFiles, FWrite

LEMMA WorkingCalls ==
    ASSUME NEW f \in CFiles
    PROVE  /\ FTell(f, FALSE).errs = f.errs /\ FFlush(f, FALSE).errs = f.errs
           /\ FClose(f, FALSE).errs = f.errs
  BY DEF CFiles, FTell, FFlush, FClose

LEMMA GoodFields ==
    ASSUME NEW s, Good(s)
    PROVE  s \in FileBufs /\ s.file \in CFiles /\ s.ok \in BOOLEAN /\ s.put.chars \in Seq(Chars)
  BY DEF Good, FileBufs

LEMMA StopReadingHonest ==
    ASSUME NEW s, Good(s), NEW o
    PROVE  Honest(s, StopReading(s, o))
  <1> DEFINE back == s.file.pos - Unread(s)
             fails == o.fault = "seek"
             f == FSeek(s.file, back, fails)
             t == StopReading(s, o)
  <1>1. s \in FileBufs /\ s.file \in CFiles
    BY GoodFields
  <1>2. SeekWorks(back, fails) => f.errs = s.file.errs
    BY <1>1, FSeekWorks
  <1> DEFINE b == SeekWorks(back, fails)
  <1> DEFINE t1 == [s EXCEPT !.get = NoGet, !.ok = TRUE]
             t2 == [s EXCEPT !.get = NoGet, !.file = f, !.ok = b]
  <1>3. t = t1 \/ t = t2
    BY <1>1 DEF StopReading, FileBufs
  <1> HIDE DEF back, fails, f, b, t, GetAreas, PutAreas
  <1>4. t1.file = s.file /\ t2.file = f /\ t2.ok = b
    BY <1>1 DEF FileBufs
  <1> HIDE DEF t1, t2
  <1>5. t.ok \in BOOLEAN
    BY StopReadingGood, GoodFields DEF t
  <1>6. Honest(s, t)
    BY <1>2, <1>3, <1>4, <1>5 DEF Honest, b
  <1> QED
    BY <1>6 DEF t

\* fwrite of all of w, or failure.
LEMMA AcceptedAll ==
    ASSUME NEW s, Good(s), NEW w \in Seq(Chars), NEW o, NEW fault,
           Accepted(w, o, fault) = Len(w)
    PROVE  FWrite(s.file, w, Accepted(w, o, fault), AppendMode(s)).errs = s.file.errs
  <1>1. ~(Accepted(w, o, fault) < Len(w)) /\ s.file \in CFiles
    BY GoodFields
  <1> QED
    BY <1>1, FWriteWorks

LEMMA StopWritingHonest ==
    ASSUME NEW s, Good(s), NEW o, o.wrote \in Nat
    PROVE  Honest(s, StopWriting(s, o))
  <1> DEFINE w == s.put.chars
             k == Accepted(w, o, "write")
             f == FWrite(s.file, w, k, AppendMode(s))
             t == StopWriting(s, o)
  <1>1. s \in FileBufs /\ w \in Seq(Chars)
    BY GoodFields
  <1> DEFINE b == (k = Len(w))
  <1>2. b => f.errs = s.file.errs
    BY <1>1, AcceptedAll
  <1> DEFINE t1 == [s EXCEPT !.put = NoPut, !.ok = TRUE]
             t2 == [s EXCEPT !.put = NoPut, !.file = f, !.ok = b]
  <1>3. t = t1 \/ t = t2
    BY <1>1 DEF StopWriting, FileBufs
  <1> HIDE DEF f, b, t, GetAreas, PutAreas
  <1>4. t1.file = s.file /\ t2.file = f /\ t2.ok = b
    BY <1>1 DEF FileBufs
  <1> HIDE DEF t1, t2
  <1>5. t.ok \in BOOLEAN
    BY StopWritingGood, GoodFields DEF t
  <1>6. Honest(s, t)
    BY <1>2, <1>3, <1>4, <1>5 DEF Honest
  <1> QED
    BY <1>6 DEF t

LEMMA FlushAndStoreHonest ==
    ASSUME NEW s, Good(s), Pending(s) > 0, NEW c, NEW o, o.wrote \in Nat
    PROVE  Honest(s, FlushAndStore(s, c, o))
  <1> DEFINE w == s.put.chars
             k == Accepted(w, o, "write")
             f == FWrite(s.file, w, k, AppendMode(s))
             t == [s EXCEPT !.file = f]
             u == FlushAndStore(s, c, o)
  <1>1. s \in FileBufs /\ w \in Seq(Chars) /\ w # <<>>
    BY GoodFields DEF Pending
  <1>2. k = Len(w) => f.errs = s.file.errs
    BY <1>1, AcceptedAll
  <1>3. ~(k < Len(w)) => k = Len(w)
    <2>1. k \in 0..Len(w) /\ Len(w) \in Nat
      BY <1>1, AcceptedType
    <2> HIDE DEF k
    <2> QED
      BY <2>1
  <1>4. u = IF k < Len(w) THEN Result(t, FALSE) ELSE Restart(t, c)
    BY DEF FlushAndStore
  <1> HIDE DEF w, k, f, u
  <1>5. Result(t, FALSE).ok = FALSE /\ Restart(t, c).file = f
    BY <1>1 DEF Result, Restart, FileBufs
  <1> HIDE DEF t
  <1>6. Honest(s, u)
    BY <1>2, <1>3, <1>4, <1>5 DEF Honest
  <1> QED
    BY <1>6 DEF u

LEMMA PutUnbufferedHonest ==
    ASSUME NEW s, Good(s), NEW c \in OneChar, NEW o, o.wrote \in Nat
    PROVE  Honest(s, PutUnbuffered(s, c, o))
  <1> DEFINE k == Accepted(c, o, "direct")
             f == FWrite(s.file, c, k, AppendMode(s))
             b == (k = Len(c))
             p == IF b /\ ~HasPut(s) THEN Marker ELSE s.put
             t == PutUnbuffered(s, c, o)
  <1>1. s \in FileBufs /\ c \in Seq(Chars)
    BY GoodFields DEF OneChar
  <1>2. b => f.errs = s.file.errs
    BY <1>1, AcceptedAll
  <1>3. t = [s EXCEPT !.file = f, !.put = p, !.ok = b]
    BY <1>1 DEF PutUnbuffered, FileBufs
  <1>4. b \in BOOLEAN
    OBVIOUS
  <1> HIDE DEF f, b, p, t
  <1>5. t.file = f /\ t.ok = b
    BY <1>1, <1>3 DEF FileBufs
  <1>6. Honest(s, t)
    BY <1>2, <1>4, <1>5 DEF Honest
  <1> QED
    BY <1>6 DEF t

LEMMA ResultHonest ==
    ASSUME NEW s, Good(s), NEW b \in BOOLEAN
    PROVE  Honest(s, Result(s, b))
  BY ResultGood DEF Honest

LEMMA StoreOrFlushHonest ==
    ASSUME NEW s, Good(s), s.isOpen, NEW c \in OneChar, NEW o, o.wrote \in Nat
    PROVE  Honest(s, StoreOrFlush(s, c, o))
  <1> DEFINE m == MakeBuffer(s)
  <1>1. Good(m) /\ m.file = s.file
    BY MakeBufferGood
  <1>2. m \in FileBufs
    BY <1>1, GoodFields
  <1> HIDE DEF m
  <1>3. Restart(m, c).file = s.file
    BY <1>1, <1>2 DEF Restart, FileBufs
  <1>4. \/ Pending(s) > 0 /\ StoreOrFlush(s, c, o) = FlushAndStore(s, c, o)
        \/ StoreOrFlush(s, c, o) = Result(s, TRUE)
        \/ StoreOrFlush(s, c, o) = Restart(m, c)
        \/ StoreOrFlush(s, c, o) = PutUnbuffered(s, c, o)
    BY DEF StoreOrFlush, m
  <1>5. Pending(s) > 0 => Honest(s, FlushAndStore(s, c, o))
    BY FlushAndStoreHonest
  <1>6. Honest(s, Result(s, TRUE)) /\ Honest(s, PutUnbuffered(s, c, o))
    BY ResultHonest, PutUnbufferedHonest
  <1>7. Honest(s, Restart(m, c))
    BY <1>3 DEF Honest
  <1> QED
    BY <1>4, <1>5, <1>6, <1>7

LEMMA OverflowHonest ==
    ASSUME NEW s, Good(s), NEW c \in OneChar, NEW o, o.wrote \in Nat
    PROVE  Honest(s, Overflow(s, c, o))
  <1> DEFINE t == StopReading(s, o)
  <1>1. Good(t) /\ t.isOpen = s.isOpen /\ Honest(s, t)
    BY StopReadingGood, StopReadingHonest DEF SameShell
  <1>2. t.ok \in BOOLEAN
    BY <1>1, GoodFields
  <1>3. Overflow(s, c, o) = IF ~CanWrite(s) THEN Result(s, FALSE)
                            ELSE IF ~t.ok THEN t ELSE StoreOrFlush(t, c, o)
    BY DEF Overflow
  <1> HIDE DEF t
  <1>4. CanWrite(s) => s.isOpen
    BY DEF Good, MemorySafe, ClosedIsClean, CanWrite
  <1>5. t.isOpen => Honest(t, StoreOrFlush(t, c, o))
    BY <1>1, StoreOrFlushHonest
  <1>6. CASE ~CanWrite(s)
    BY <1>3, <1>6, ResultHonest
  <1>7. CASE CanWrite(s) /\ t.ok = FALSE
    BY <1>1, <1>3, <1>7
  <1>8. CASE CanWrite(s) /\ t.ok = TRUE
    BY <1>1, <1>3, <1>4, <1>5, <1>8 DEF Honest
  <1> QED
    BY <1>2, <1>6, <1>7, <1>8

\* Output.
LEMMA StoreFile ==
    ASSUME NEW s, Good(s), NEW w
    PROVE  Store(s, w).file = s.file
  BY GoodFields DEF Store, FileBufs

LEMMA PutCharHonest ==
    ASSUME NEW s, Good(s), NEW c \in Chars, NEW o, o.wrote \in Nat
    PROVE  Honest(s, PutChar(s, c, o))
  <1>1. <<c>> \in OneChar
    BY OneCharType
  <1>2. Honest(s, Store(s, <<c>>))
    BY StoreFile DEF Honest
  <1>3. Honest(s, Overflow(s, <<c>>, o))
    BY <1>1, OverflowHonest
  <1> QED
    BY <1>2, <1>3 DEF PutChar

LEMMA PutSmallHonest ==
    ASSUME NEW s, Good(s), NEW w \in Seq(Chars), Len(w) <= s.size, NEW o, o.wrote \in Nat
    PROVE  Honest(s, PutSmall(s, w, o))
  <1> DEFINE r == Least(s.put.room, Len(w))
             t == Store(s, SubSeq(w, 1, r))
             c == <<w[r + 1]>>
             u == Overflow(t, c, o)
             v == Store(u, SubSeq(w, r + 2, Len(w)))
  <1>1. r \in Nat /\ r <= Len(w) /\ r <= s.put.room
    BY DEF Least, Good, FileBufs
  <1>2. SubSeq(w, 1, r) \in Seq(Chars) /\ Len(SubSeq(w, 1, r)) = r
    BY <1>1
  <1>3. PutSmall(s, w, o) = IF r = Len(w) THEN t ELSE IF ~u.ok THEN u ELSE v
    BY DEF PutSmall
  <1> HIDE DEF r
  <1>4. Good(t) /\ t.file = s.file
    BY <1>1, <1>2, StoreGood, StoreFile
  <1> HIDE DEF t
  <1>5. CASE r = Len(w)
    BY <1>3, <1>4, <1>5 DEF Honest
  <1>6. CASE r # Len(w)
    <2>1. c \in OneChar
      <3>1. r + 1 \in 1..Len(w)
        BY <1>1, <1>6
      <3>2. w[r + 1] \in Chars
        BY <3>1
      <3> QED
        BY <3>2, OneCharType
    <2> HIDE DEF c
    <2>2. Good(u) /\ Honest(t, u) /\ u.ok \in BOOLEAN
      BY <1>4, <2>1, OverflowGood, OverflowHonest, GoodFields DEF Stored
    <2> HIDE DEF u
    <2>3. v.file = u.file
      BY <2>2, StoreFile
    <2> HIDE DEF v
    <2>4. CASE u.ok = FALSE
      BY <1>3, <1>6, <2>4 DEF Honest
    <2>5. CASE u.ok = TRUE
      <3>1. v.file.errs = s.file.errs
        BY <1>4, <2>2, <2>3, <2>5 DEF Honest
      <3> QED
        BY <1>3, <1>6, <2>5, <3>1 DEF Honest
    <2> QED
      BY <2>2, <2>4, <2>5
  <1> QED
    BY <1>5, <1>6

LEMMA DrainPutHonest ==
    ASSUME NEW s, Good(s), NEW o, o.wrote \in Nat
    PROVE  Honest(s, DrainPut(s, o))
  <1> DEFINE w == s.put.chars
             k == Accepted(w, o, "write")
             f == FWrite(s.file, w, k, AppendMode(s))
             b == (k = Len(w))
             q == [s.put EXCEPT !.off = @ + k, !.chars = <<>>, !.room = @ + Len(w) - k]
             u == [s EXCEPT !.file = f, !.put = q, !.ok = b]
             t == DrainPut(s, o)
  <1>1. s \in FileBufs /\ w \in Seq(Chars)
    BY GoodFields
  <1>2. b => f.errs = s.file.errs
    BY <1>1, AcceptedAll
  <1>3. t = Result(s, TRUE) \/ t = u
    BY <1>1 DEF DrainPut, FileBufs
  <1>4. b \in BOOLEAN
    OBVIOUS
  <1> HIDE DEF f, b, q, t, GetAreas, PutAreas
  <1>5. u.file = f /\ u.ok = b
    BY <1>1 DEF FileBufs
  <1> HIDE DEF u
  <1>6. Honest(s, u)
    BY <1>2, <1>4, <1>5 DEF Honest
  <1>7. Honest(s, t)
    BY <1>3, <1>6, ResultHonest
  <1> QED
    BY <1>7 DEF t

LEMMA WriteThroughHonest ==
    ASSUME NEW s, Good(s), NEW w \in Seq(Chars), NEW o, o.wrote \in Nat
    PROVE  Honest(s, WriteThrough(s, w, o))
  <1> DEFINE k == Accepted(w, o, "direct")
             f == FWrite(s.file, w, k, AppendMode(s))
             b == (k = Len(w))
             q == IF k > 0 /\ s.put.at # Last THEN Marker ELSE s.put
             t == WriteThrough(s, w, o)
  <1>1. s \in FileBufs
    BY GoodFields
  <1>2. b => f.errs = s.file.errs
    BY AcceptedAll
  <1>3. t = [s EXCEPT !.file = f, !.put = q, !.ok = b]
    BY DEF WriteThrough
  <1>4. b \in BOOLEAN
    OBVIOUS
  <1> HIDE DEF f, b, q, t, GetAreas, PutAreas
  <1>5. t.file = f /\ t.ok = b
    BY <1>1, <1>3 DEF FileBufs
  <1>6. Honest(s, t)
    BY <1>2, <1>4, <1>5 DEF Honest
  <1> QED
    BY <1>6 DEF t

LEMMA PutDirectHonest ==
    ASSUME NEW s, Good(s), NEW w \in Seq(Chars), NEW o, o.wrote \in Nat
    PROVE  Honest(s, PutDirect(s, w, o))
  <1> DEFINE t == StopReading(s, o)
             u == DrainPut(t, o)
             v == WriteThrough(u, w, o)
  <1>1. Good(t) /\ Honest(s, t) /\ t.ok \in BOOLEAN
    BY StopReadingGood, StopReadingHonest, GoodFields
  <1>2. PutDirect(s, w, o) \in {Result(s, FALSE)} \cup
            {IF ~t.ok THEN t ELSE IF ~u.ok THEN u ELSE v}
    BY DEF PutDirect
  <1> HIDE DEF t
  <1>3. Good(u) /\ Honest(t, u) /\ u.ok \in BOOLEAN
    BY <1>1, DrainPutGood, DrainPutHonest, GoodFields
  <1> HIDE DEF u
  <1>4. Honest(u, v)
    BY <1>3, WriteThroughHonest
  <1> HIDE DEF v
  <1>5. t.ok = TRUE => Honest(s, u)
    BY <1>1, <1>3 DEF Honest
  <1>6. t.ok = TRUE /\ u.ok = TRUE => Honest(s, v)
    BY <1>4, <1>5 DEF Honest
  <1>7. Honest(s, IF ~t.ok THEN t ELSE IF ~u.ok THEN u ELSE v)
    BY <1>1, <1>3, <1>5, <1>6
  <1>8. Honest(s, Result(s, FALSE))
    BY ResultHonest
  <1> QED
    BY <1>2, <1>7, <1>8

LEMMA XsputnHonest ==
    ASSUME NEW s, Good(s), NEW w \in Seq(Chars), NEW o, o.wrote \in Nat
    PROVE  Honest(s, Xsputn(s, w, o))
  BY PutSmallHonest, PutDirectHonest DEF Xsputn

\* Input: reading never fails, it is short.
LEMMA ReadWorks ==
    ASSUME NEW f \in CFiles, NEW n
    PROVE  FRead(f, n).errs = f.errs
  BY DEF CFiles, FRead

LEMMA UnderflowHonest ==
    ASSUME NEW s, Good(s), NEW o, o.wrote \in Nat
    PROVE  Honest(s, Underflow(s, o))
  <1> DEFINE t == StopWriting(s, o)
             m == MakeBuffer(t)
  <1>1. Good(t) /\ Honest(s, t) /\ t.ok \in BOOLEAN /\ t.isOpen = s.isOpen
    BY StopWritingGood, StopWritingHonest, GoodFields DEF SameShell
  <1>2. Underflow(s, o) = IF ~CanRead(s) THEN Result(s, FALSE) ELSE IF ~t.ok THEN t
                          ELSE IF s.unbuffered THEN FillLast(t) ELSE FillBuffer(m)
    BY DEF Underflow
  <1> HIDE DEF t
  <1>3. CanRead(s) => s.isOpen
    BY DEF Good, MemorySafe, ClosedIsClean, CanRead
  <1>4. FillLast(t).file.errs = t.file.errs
    <2>1. t \in FileBufs /\ t.file \in CFiles
      BY <1>1, GoodFields
    <2>2. FRead(t.file, 1).errs = t.file.errs
      BY <2>1, ReadWorks
    <2>3. FillLast(t).file = FRead(t.file, 1)
      BY <2>1 DEF FillLast, FileBufs
    <2> QED
      BY <2>2, <2>3
  <1>5. s.isOpen => FillBuffer(m).file.errs = t.file.errs
    <2> SUFFICES ASSUME s.isOpen PROVE FillBuffer(m).file.errs = t.file.errs
      OBVIOUS
    <2>1. Good(m) /\ m.file = t.file
      BY <1>1, MakeBufferGood
    <2> HIDE DEF m
    <2>2. m \in FileBufs /\ m.file \in CFiles
      BY <2>1, GoodFields
    <2>3. FRead(m.file, m.size).errs = t.file.errs
      BY <2>1, <2>2, ReadWorks
    <2>4. FillBuffer(m).file = FRead(m.file, m.size)
      BY <2>2 DEF FillBuffer, FileBufs
    <2> QED
      BY <2>3, <2>4
  <1>6. CASE ~CanRead(s)
    BY <1>2, <1>6, ResultHonest
  <1>7. CASE CanRead(s) /\ t.ok = FALSE
    BY <1>1, <1>2, <1>7
  <1>8. CASE CanRead(s) /\ t.ok = TRUE
    BY <1>1, <1>2, <1>3, <1>4, <1>5, <1>8 DEF Honest
  <1> QED
    BY <1>1, <1>6, <1>7, <1>8

LEMMA RefillHonest ==
    ASSUME NEW s, Good(s), NEW o, o.wrote \in Nat
    PROVE  Honest(s, Refill(s, o))
  BY ResultHonest, UnderflowHonest DEF Refill

LEMMA PeekCharHonest ==
    ASSUME NEW s, Good(s), NEW o, o.wrote \in Nat
    PROVE  Honest(s, PeekChar(s, o))
  <1> DEFINE t == Refill(s, o)
             u == [t EXCEPT !.got = <<t.get.chars[t.get.idx + 1]>>]
  <1>1. Honest(s, t) /\ t \in FileBufs
    BY RefillHonest, RefillGood, GoodFields
  <1>2. PeekChar(s, o) = IF t.ok THEN u ELSE t
    BY DEF PeekChar
  <1> HIDE DEF t
  <1>3. u.file = t.file /\ u.ok = t.ok
    BY <1>1 DEF FileBufs
  <1> QED
    BY <1>1, <1>2, <1>3 DEF Honest

LEMMA TakeFile ==
    ASSUME NEW s, Good(s), NEW n
    PROVE  Take(s, n).file = s.file /\ TakeUpTo(s, n).file = s.file
  BY GoodFields DEF Take, TakeUpTo, FileBufs

LEMMA BumpCharHonest ==
    ASSUME NEW s, Good(s), NEW o, o.wrote \in Nat
    PROVE  Honest(s, BumpChar(s, o))
  <1> DEFINE t == Refill(s, o)
  <1>1. Honest(s, t) /\ Good(t) /\ t.ok \in BOOLEAN
    BY RefillHonest, RefillGood, GoodFields
  <1>2. BumpChar(s, o) = IF t.ok THEN Take(t, 1) ELSE t
    BY DEF BumpChar
  <1> HIDE DEF t
  <1>3. Take(t, 1).file = t.file
    BY <1>1, TakeFile
  <1> QED
    BY <1>1, <1>2, <1>3 DEF Honest

LEMMA GetSmallHonest ==
    ASSUME NEW s, Good(s), s.got = <<>>, NEW n \in Nat, NEW o, o.wrote \in Nat
    PROVE  Honest(s, GetSmall(s, n, o))
  <1> DEFINE t == TakeUpTo(s, n)
             u == Underflow(t, o)
             j == n - Len(t.got)
             v == TakeUpTo(u, j)
             x == Underflow(v, o)
  <1>0. Len(s.got) = 0
    OBVIOUS
  <1>1. Good(t) /\ t.file = s.file /\ Len(t.got) \in Nat /\ Len(t.got) <= n
    <2>1. Good(t) /\ t.file = s.file /\ Len(t.got) \in Nat /\ Len(t.got) <= Len(s.got) + n
      BY TakeUpToGood
    <2> QED
      BY <1>0, <2>1
  <1>2. GetSmall(s, n, o) = IF Len(t.got) = n THEN t ELSE IF ~u.ok THEN u
                            ELSE IF Len(v.got) = n THEN v ELSE x
    BY DEF GetSmall
  <1> HIDE DEF t
  <1>3. j \in Nat
    BY <1>1
  <1> HIDE DEF j
  <1>4. Good(u) /\ Honest(t, u) /\ u.ok \in BOOLEAN
    BY <1>1, UnderflowGood, UnderflowHonest, GoodFields
  <1> HIDE DEF u
  <1>5. Good(v) /\ v.file = u.file
    BY <1>3, <1>4, TakeUpToGood
  <1> HIDE DEF v
  <1>6. Honest(v, x)
    BY <1>5, UnderflowHonest
  <1> HIDE DEF x
  <1>7. Honest(s, t) /\ Honest(s, u)
    BY <1>1, <1>4 DEF Honest
  <1>8. u.ok = TRUE => Honest(s, v) /\ Honest(s, x)
    BY <1>5, <1>6, <1>7 DEF Honest
  <1> QED
    BY <1>2, <1>4, <1>7, <1>8

LEMMA GetDirectHonest ==
    ASSUME NEW s, Good(s), s.got = <<>>, NEW n \in Nat, NEW o, o.wrote \in Nat
    PROVE  Honest(s, GetDirect(s, n, o))
  <1> DEFINE t == StopWriting(s, o)
             u == TakeUpTo(t, n)
             v == [u EXCEPT !.ok = t.ok]
             j == n - Len(u.got)
             x == ReadThrough(u, j)
  <1>1. Good(t) /\ Honest(s, t) /\ t.ok \in BOOLEAN
    BY StopWritingGood, StopWritingHonest, GoodFields
  <1>2. GetDirect(s, n, o) = IF ~CanRead(s) THEN Result(s, FALSE)
                             ELSE IF ~t.ok \/ Len(u.got) = n THEN v ELSE x
    BY DEF GetDirect
  <1> HIDE DEF t
  <1>3. Good(u) /\ u.file = t.file
    BY <1>1, TakeUpToGood
  <1> HIDE DEF u, j
  <1>4. u \in FileBufs /\ u.file \in CFiles
    BY <1>3, GoodFields
  <1>5. v.file = t.file /\ v.ok = t.ok
    BY <1>3, <1>4 DEF FileBufs
  <1>6. x.file = FRead(u.file, j)
    BY <1>4 DEF ReadThrough, FileBufs
  <1>7. FRead(u.file, j).errs = t.file.errs
    BY <1>3, <1>4, ReadWorks
  <1> HIDE DEF v, x
  <1>8. Honest(s, v) /\ (t.ok = TRUE => Honest(s, x))
    BY <1>1, <1>5, <1>6, <1>7 DEF Honest
  <1> QED
    BY <1>1, <1>2, <1>8, ResultHonest

LEMMA XsgetnHonest ==
    ASSUME NEW s, Good(s), s.got = <<>>, NEW n \in Nat, NEW o, o.wrote \in Nat
    PROVE  Honest(s, Xsgetn(s, n, o))
  BY GetSmallHonest, GetDirectHonest DEF Xsgetn

LEMMA PbackFailHonest ==
    ASSUME NEW s, Good(s), NEW c
    PROVE  Honest(s, PbackFail(s, c))
  <1>1. s \in FileBufs
    BY GoodFields
  <1>2. PbackFail(s, c).file = s.file
    BY <1>1 DEF PbackFail, Result, FileBufs
  <1> QED
    BY <1>2 DEF Honest

\* sync, seekoff, open, close, setbuf.
LEMMA SyncHonest ==
    ASSUME NEW s, Good(s), NEW o, o.wrote \in Nat
    PROVE  Honest(s, Sync(s, o))
  <1> DEFINE t == Overflow(s, <<>>, o)
             fails == o.fault = "flush"
             b == t.ok /\ ~fails
             u == [t EXCEPT !.file = FFlush(@, fails), !.ok = b]
  <1>1. <<>> \in OneChar
    BY OneCharType
  <1>2. Good(t) /\ Honest(s, t)
    BY <1>1, OverflowGood, OverflowHonest DEF Stored
  <1>3. SyncPut(s, o) = IF HasPrevWrite(s) THEN Flush(t, o) ELSE t
    BY DEF SyncPut
  <1> HIDE DEF t
  <1>4. t \in FileBufs /\ t.file \in CFiles
    BY <1>2, GoodFields
  <1>5. Flush(t, o) = u
    BY <1>4 DEF Flush, FileBufs
  <1>6. b \in BOOLEAN /\ fails \in BOOLEAN
    OBVIOUS
  <1>7. b => t.ok = TRUE /\ fails = FALSE
    BY <1>2, GoodFields
  <1> HIDE DEF b, fails
  <1>8. u.ok = b /\ u.file = FFlush(t.file, fails)
    BY <1>4 DEF FileBufs
  <1> HIDE DEF u
  <1>9. fails = FALSE => u.file.errs = t.file.errs
    BY <1>4, <1>8, WorkingCalls
  <1>10. Honest(s, u)
    BY <1>2, <1>6, <1>7, <1>8, <1>9 DEF Honest
  <1>11. Honest(s, SyncPut(s, o))
    BY <1>2, <1>3, <1>5, <1>10
  <1> QED
    BY <1>11, ResultHonest, StopReadingHonest DEF Sync

LEMMA RepositionHonest ==
    ASSUME NEW s, Good(s), NEW p, NEW o
    PROVE  Honest(s, Reposition(s, p, o))
  <1> DEFINE f == FSeek(s.file, p, FALSE)
             fails == o.fault = "tell"
             b == ~fails
             h == FTell(f, fails)
             u == [s EXCEPT !.file = h, !.ok = b]
             v == [s EXCEPT !.file = FSeek(@, p, o.fault = "position"), !.ok = FALSE]
  <1>1. s \in FileBufs /\ s.file \in CFiles
    BY GoodFields
  <1>2. \/ Reposition(s, p, o) = u /\ SeekWorks(p, FALSE)
        \/ Reposition(s, p, o) = v
    BY <1>1 DEF Reposition, SeekWorks, FileBufs
  <1>3. v.ok = FALSE
    BY <1>1 DEF FileBufs
  <1>4. SeekWorks(p, FALSE) /\ fails = FALSE => h.errs = s.file.errs
    BY <1>1 DEF FSeek, FTell, CFiles
  <1>5. b \in BOOLEAN /\ (b => fails = FALSE)
    OBVIOUS
  <1> HIDE DEF b, h, fails
  <1>6. u.ok = b /\ u.file = h
    BY <1>1 DEF FileBufs
  <1> HIDE DEF u, v
  <1>7. Honest(s, v) /\ (SeekWorks(p, FALSE) => Honest(s, u))
    BY <1>3, <1>4, <1>5, <1>6 DEF Honest
  <1> QED
    BY <1>2, <1>7

LEMMA SeekOffHonest ==
    ASSUME NEW s, Good(s), NEW off, NEW dir, NEW o, o.wrote \in Nat
    PROVE  Honest(s, SeekOff(s, off, dir, o))
  <1> DEFINE t == Sync(s, o)
             u == Reposition(t, Base(t, dir) + off, o)
  <1>1. Good(t) /\ Honest(s, t) /\ t.ok \in BOOLEAN
    BY SyncGood, SyncHonest, GoodFields
  <1>2. SeekOff(s, off, dir, o) = IF ~s.isOpen THEN Result(s, FALSE) ELSE IF ~t.ok THEN t ELSE u
    BY DEF SeekOff
  <1> HIDE DEF t
  <1>3. Honest(t, u)
    BY <1>1, RepositionHonest
  <1> HIDE DEF u
  <1>4. t.ok = TRUE => Honest(s, u)
    BY <1>1, <1>3 DEF Honest
  <1> QED
    BY <1>1, <1>2, <1>4, ResultHonest

\* What FreeOwned and NoAreas leave alone.
LEMMA ReleaseKeeps ==
    ASSUME NEW s \in FileBufs
    PROVE  LET t == NoAreas(FreeOwned(s)) IN t.file = s.file /\ t.ok = s.ok
  <1> DEFINE t == FreeOwned(s)
  <1>1. t.file = s.file /\ t.ok = s.ok /\ {"file", "ok"} \subseteq DOMAIN t
    BY DEF FreeOwned, FileBufs
  <1> HIDE DEF t
  <1> QED
    BY <1>1 DEF NoAreas, t

LEMMA CloseHonest ==
    ASSUME NEW s, Good(s), NEW o, o.wrote \in Nat
    PROVE  Honest(s, Close(s, o))
  <1> DEFINE t == Sync(s, o)
             fails == o.fault = "close"
             f == FClose(t.file, fails)
             b == t.ok /\ ~fails
             u == [t EXCEPT !.file = f, !.ok = b, !.isOpen = FALSE, !.mode = {}]
             z == NoAreas(FreeOwned(u))
  <1>1. Good(t) /\ Honest(s, t)
    BY SyncGood, SyncHonest
  <1>2. t \in FileBufs /\ t.file \in CFiles /\ t.ok \in BOOLEAN
    BY <1>1, GoodFields
  <1>3. Close(s, o) = Result(s, FALSE) \/ Close(s, o) = z
    BY <1>2 DEF Close, FileBufs
  <1> HIDE DEF t
  <1>4. b \in BOOLEAN /\ (b => t.ok = TRUE /\ fails = FALSE)
    BY <1>2
  <1>5. fails \in BOOLEAN
    OBVIOUS
  <1> HIDE DEF b, fails
  <1>6. f \in CFiles /\ (fails = FALSE => f.errs = t.file.errs)
    BY <1>2, <1>5, CCallType, WorkingCalls
  <1> HIDE DEF f
  <1>7. u \in FileBufs /\ u.file = f /\ u.ok = b
    BY <1>2, <1>4, <1>6 DEF FileBufs
  <1> HIDE DEF u
  <1>8. z.file = f /\ z.ok = b
    BY <1>7, ReleaseKeeps
  <1> HIDE DEF z
  <1>9. Honest(s, z)
    BY <1>1, <1>4, <1>6, <1>8 DEF Honest
  <1> QED
    BY <1>3, <1>9, ResultHonest

LEMMA OpenHonest ==
    ASSUME NEW s, Good(s), NEW m \in SUBSET Flags, NEW o
    PROVE  Honest(s, Open(s, m, o))
  <1> DEFINE x == [s EXCEPT !.file.errs = @ + 1, !.ok = FALSE]
             fails == o.fault = "end"
             f == FOpen(s.file, GetMode(m) \in {"w", "w+"})
             e == IF "ate" \in m THEN FSeek(f, Len(f.data), fails) ELSE f
             t == [s EXCEPT !.isOpen = TRUE, !.file = e]
             u == [t EXCEPT !.mode = m \ {"ate"}, !.ok = TRUE]
             v == SetUnbufferedRead(u)
  <1>1. s \in FileBufs /\ s.file \in CFiles
    BY GoodFields
  <1>2. x.ok = FALSE
    BY <1>1 DEF FileBufs
  <1>3. \/ Open(s, m, o) \in {Result(s, FALSE), x}
        \/ s.isOpen = FALSE /\ Open(s, m, o) = Opened(s, m, o)
    BY <1>1 DEF Open, FileBufs
  <1> HIDE DEF x
  <1>4. ASSUME s.isOpen = FALSE, "ate" \in m, fails
        PROVE  Opened(s, m, o).ok = FALSE
    <2>1. Opened(s, m, o) = Result(Close(t, o), FALSE)
      BY <1>4 DEF Opened
    <2>2. t.isOpen = TRUE /\ t.put = s.put /\ "ok" \in DOMAIN t
      BY <1>1 DEF FileBufs
    <2> HIDE DEF t
    <2>3. ~HasPut(t)
      BY <1>4, <2>2 DEF Good, MemorySafe, ClosedIsClean, HasPut
    <2>4. Sync(t, o) = StopReading(t, o)
      BY <2>2, <2>3 DEF Sync
    <2>5. "ok" \in DOMAIN Sync(t, o)
      BY <2>2, <2>4 DEF StopReading
    <2>6. Close(t, o) = Emptied(Sync(t, o), o)
      BY <2>2 DEF Close, Emptied
    <2>7. "ok" \in DOMAIN Emptied(Sync(t, o), o)
      BY <2>5 DEF Emptied, NoAreas, FreeOwned
    <2> QED
      BY <2>1, <2>6, <2>7 DEF Result
  <1>5. ASSUME ~("ate" \in m /\ fails)
        PROVE  Honest(s, Opened(s, m, o))
    <2>1. Opened(s, m, o) = v
      BY <1>5 DEF Opened
    <2>2. f \in CFiles /\ f.errs = s.file.errs
      <3> DEFINE trunc == GetMode(m) \in {"w", "w+"}
      <3>0. trunc \in BOOLEAN
        OBVIOUS
      <3>1. FOpen(s.file, trunc) \in CFiles
        <4> HIDE DEF trunc
        <4> QED
          BY <1>1, <3>0, CCallType
      <3>2. f.errs = s.file.errs
        BY <1>1 DEF FOpen, CFiles
      <3> QED
        BY <3>1, <3>2
    <2> HIDE DEF f
    <2>3. Len(f.data) \in Nat
      <3>1. f.data \in Seq(Chars)
        BY <2>2 DEF CFiles
      <3> QED
        BY <3>1
    <2>4. "ate" \in m => SeekWorks(Len(f.data), fails)
      BY <1>5, <2>3 DEF SeekWorks
    <2>5. e.errs = s.file.errs
      BY <2>2, <2>4, FSeekWorks
    <2> HIDE DEF e
    <2>6. t.file = e /\ {"file", "mode"} \subseteq DOMAIN t
      BY <1>1 DEF FileBufs
    <2> HIDE DEF t
    <2>7. u.file = e
      BY <2>6
    <2> HIDE DEF u
    <2>8. v.file = e
      BY <2>7 DEF SetUnbufferedRead
    <2> QED
      BY <2>1, <2>5, <2>8 DEF Honest
  <1> HIDE DEF fails
  <1>6. s.isOpen = FALSE => Honest(s, Opened(s, m, o))
    BY <1>4, <1>5 DEF Honest
  <1>7. Honest(s, Result(s, FALSE)) /\ Honest(s, x)
    BY <1>2, ResultHonest DEF Honest
  <1> QED
    BY <1>3, <1>6, <1>7

LEMMA SetBufHonest ==
    ASSUME NEW s, Good(s), NEW b, NEW n
    PROVE  Honest(s, SetBuf(s, b, n)) /\ SetBuf(s, b, n).file = s.file
  <1> DEFINE r == NoAreas(s)
             t == FreeOwned(r)
             u == [t EXCEPT !.mem = b, !.size = n, !.ok = TRUE]
  <1>1. r.file = s.file /\ "file" \in DOMAIN r
    BY GoodFields DEF NoAreas, FileBufs
  <1>2. SetBuf(s, b, n) = SetUnbufferedRead(u)
    BY DEF SetBuf
  <1> HIDE DEF r
  <1>3. t.file = s.file /\ "file" \in DOMAIN t
    BY <1>1 DEF FreeOwned
  <1> HIDE DEF t
  <1>4. u.file = s.file /\ "file" \in DOMAIN u
    BY <1>3
  <1> HIDE DEF u
  <1>5. SetUnbufferedRead(u).file = s.file
    BY <1>4 DEF SetUnbufferedRead
  <1> QED
    BY <1>2, <1>5 DEF Honest

HIDE DEF GetAreas, PutAreas
----------------------------------------------------------------------------
\* Sequences as the lemmas about members name them: the provers are to see no more of them
\* than a lemma says.
Join(v, w) == v \o w
Part(w, i, j) == SubSeq(w, i, j)

\* The bytes a read delivers: those that follow the position, as many as asked for or to the
\* end of the file.
LEMMA BytesReadIs ==
    ASSUME NEW f \in CFiles, NEW n \in Nat
    PROVE  LET w == BytesRead(f, n)
           IN /\ w \in Seq(Chars)
              /\ Len(w) = IF f.pos + n <= Len(f.data) THEN n
                          ELSE IF f.pos < Len(f.data) THEN Len(f.data) - f.pos ELSE 0
              /\ \A i \in 1..Len(w) : w[i] = f.data[f.pos + i]
  <1> DEFINE d == f.data
             p == f.pos
             e == Least(p + n, Len(d))
  <1>1. d \in Seq(Chars) /\ p \in Nat
    BY DEF CFiles
  <1>2. BytesRead(f, n) = SubSeq(d, p + 1, e)
    BY DEF BytesRead
  <1> HIDE DEF d, p
  <1>3. e \in Int /\ e <= p + n /\ e <= Len(d) /\ (e = p + n \/ e = Len(d))
    BY <1>1 DEF Least
  <1> HIDE DEF e
  <1>4. SubSeq(d, p + 1, e) \in Seq(Chars)
    BY <1>1, <1>3
  <1>5. Len(SubSeq(d, p + 1, e)) = IF p + 1 <= e THEN e - p ELSE 0
    BY <1>1, <1>3
  <1>6. \A i \in 1..(e - p) : SubSeq(d, p + 1, e)[i] = d[p + i]
    BY <1>1, <1>3
  <1> DEFINE w == BytesRead(f, n)
  <1>7. w \in Seq(Chars) /\ Len(w) = IF p + 1 <= e THEN e - p ELSE 0
    BY <1>2, <1>4, <1>5
  <1>8. \A i \in 1..(e - p) : w[i] = d[p + i]
    BY <1>2, <1>6
  <1> HIDE DEF w
  <1>9. Len(w) = IF p + n <= Len(d) THEN n ELSE IF p < Len(d) THEN Len(d) - p ELSE 0
    <2>1. e = IF p + n <= Len(d) THEN p + n ELSE Len(d)
      BY <1>1, <1>3
    <2>2. Len(d) \in Nat
      BY <1>1
    <2> QED
      BY <1>1, <1>7, <2>1, <2>2
  <1>10. \A i \in 1..Len(w) : w[i] = d[p + i]
    <2>1. Len(w) = e - p \/ Len(w) = 0
      BY <1>7
    <2> QED
      BY <1>1, <1>3, <1>8, <2>1
  <1> QED
    BY <1>7, <1>9, <1>10 DEF d, p, w

\* The C stream after a read.
LEMMA FReadIs ==
    ASSUME NEW f \in CFiles, NEW n
    PROVE  /\ FRead(f, n).data = f.data /\ FRead(f, n).pos = f.pos + Len(BytesRead(f, n))
           /\ FRead(f, n).flushed = f.flushed /\ FRead(f, n).errs = f.errs
  BY DEF FRead, CFiles

----------------------------------------------------------------------------
\* The C calls, member by member.

LEMMA FWriteIs ==
    ASSUME NEW f \in CFiles, NEW w, NEW k, NEW append
    PROVE  LET g == FWrite(f, w, k, append)
           IN /\ g.op = "write" /\ ~g.flushed /\ (g.misused <=> f.misused \/ f.op = "read")
              /\ k < Len(w) => g.errs = f.errs + 1
              /\ ~(k < Len(w)) => g.errs = f.errs
              /\ g.data = Overwrite(f.data, WritePos(f, append), Part(w, 1, k))
              /\ g.pos = WritePos(f, append) + k
  BY DEF FWrite, CFiles, Part

LEMMA FReadStates ==
    ASSUME NEW f \in CFiles, NEW n
    PROVE  LET g == FRead(f, n)
               short == Len(BytesRead(f, n)) < n
           IN /\ (g.misused <=> f.misused \/ f.op = "write") /\ g.flushed = f.flushed
              /\ g.errs = f.errs
              /\ g.op = IF short THEN "none" ELSE "read"
  BY DEF FRead, CFiles

LEMMA FSeekIs ==
    ASSUME NEW f \in CFiles, NEW p, NEW fails
    PROVE  LET g == FSeek(f, p, fails)
           IN /\ g.data = f.data /\ g.misused = f.misused
              /\ SeekWorks(p, fails) => g.pos = p /\ g.op = "none" /\ g.flushed /\ g.errs = f.errs
              /\ ~SeekWorks(p, fails) => g.pos = f.pos /\ g.op = f.op /\ g.flushed = f.flushed
              /\ ~SeekWorks(p, fails) /\ fails => g.errs = f.errs + 1
              /\ ~fails => g.errs = f.errs
  <1>1. CASE SeekWorks(p, fails)
    <2>1. ~fails
      BY <1>1 DEF SeekWorks
    <2> QED
      BY <1>1, <2>1 DEF FSeek, CFiles
  <1>2. CASE ~SeekWorks(p, fails)
    BY <1>2 DEF FSeek, CFiles
  <1> QED
    BY <1>1, <1>2

LEMMA FFlushIs ==
    ASSUME NEW f \in CFiles, NEW fails
    PROVE  LET g == FFlush(f, fails)
           IN /\ g.data = f.data /\ g.pos = f.pos /\ (g.misused <=> f.misused \/ f.op = "read")
              /\ ~fails => g.op = "none" /\ g.flushed /\ g.errs = f.errs
              /\ fails => g.errs = f.errs + 1
  BY DEF FFlush, CFiles

LEMMA FTellIs ==
    ASSUME NEW f \in CFiles, NEW fails
    PROVE  LET g == FTell(f, fails)
           IN /\ g.data = f.data /\ g.pos = f.pos /\ g.misused = f.misused /\ g.op = f.op
              /\ g.flushed = f.flushed
              /\ ~fails => g.errs = f.errs
              /\ fails => g.errs = f.errs + 1
  BY DEF FTell, CFiles

LEMMA FCloseIs ==
    ASSUME NEW f \in CFiles, NEW fails
    PROVE  LET g == FClose(f, fails)
           IN /\ g.data = f.data /\ g.pos = 0 /\ g.misused = f.misused /\ g.op = "none"
              /\ g.flushed
              /\ ~fails => g.errs = f.errs
              /\ fails => g.errs = f.errs + 1
  BY DEF FClose, CFiles

LEMMA FOpenIs ==
    ASSUME NEW f \in CFiles, NEW trunc
    PROVE  LET g == FOpen(f, trunc)
           IN /\ g.pos = 0 /\ g.misused = f.misused /\ g.op = "none"
              /\ g.flushed /\ g.errs = f.errs
              /\ trunc => g.data = <<>>
              /\ ~trunc => g.data = f.data
  BY DEF FOpen, CFiles

\* A failure is never forgotten.
LEMMA ErrsStay ==
    ASSUME NEW f \in CFiles
    PROVE  f.errs + 1 # 0
  BY DEF CFiles

----------------------------------------------------------------------------
\* The member functions, member by member.

LEMMA StopReadingIs ==
    ASSUME NEW s, Good(s), NEW o
    PROVE  LET t == StopReading(s, o)
               back == s.file.pos - Unread(s)
           IN /\ t.get = NoGet /\ t.put = s.put /\ t.got = s.got /\ SameShell(s, t)
              /\ ~HasGet(s) \/ Unread(s) = 0 => t.file = s.file /\ t.ok
              /\ HasGet(s) /\ Unread(s) # 0 =>
                     /\ t.file = FSeek(s.file, back, o.fault = "seek")
                     /\ (t.ok <=> SeekWorks(back, o.fault = "seek"))
  <1> DEFINE t == StopReading(s, o)
             back == s.file.pos - Unread(s)
  <1>1. CASE ~HasGet(s) \/ Unread(s) = 0
    BY <1>1 DEF StopReading, Good, FileBufs, SameShell
  <1>2. CASE HasGet(s) /\ Unread(s) # 0
    BY <1>2 DEF StopReading, Good, FileBufs, SameShell
  <1> QED
    BY <1>1, <1>2

LEMMA StopWritingIs ==
    ASSUME NEW s, Good(s), NEW o
    PROVE  LET t == StopWriting(s, o)
               w == s.put.chars
               k == Accepted(w, o, "write")
           IN /\ t.get = s.get /\ t.put = NoPut /\ t.got = s.got /\ SameShell(s, t)
              /\ w = <<>> => t.file = s.file /\ t.ok
              /\ w # <<>> => t.file = FWrite(s.file, w, k, AppendMode(s)) /\ (t.ok <=> k = Len(w))
  <1>1. CASE s.put.chars = <<>>
    BY <1>1 DEF StopWriting, Good, FileBufs, SameShell
  <1>2. CASE s.put.chars # <<>>
    BY <1>2 DEF StopWriting, Good, FileBufs, SameShell
  <1> QED
    BY <1>1, <1>2

LEMMA RestartIs ==
    ASSUME NEW s, Good(s), NEW c
    PROVE  LET t == Restart(s, c)
           IN /\ t.get = s.get /\ t.got = s.got /\ SameShell(s, t) /\ t.file = s.file
              /\ t.put = [at |-> s.mem, off |-> 0, chars |-> c, room |-> s.size - Len(c)]
              /\ t.ok
  BY DEF Restart, Good, FileBufs, SameShell

LEMMA MakeBufferIs ==
    ASSUME NEW s, Good(s)
    PROVE  LET t == MakeBuffer(s)
           IN /\ t.get = s.get /\ t.put = s.put /\ t.got = s.got /\ t.file = s.file /\ t.ok = s.ok
              /\ SameUse(s, t) /\ t.size = s.size /\ t.unbuffered = s.unbuffered
              /\ t \in FileBufs
  <1>1. CASE s.mem # Null \/ s.size = 0
    BY <1>1 DEF MakeBuffer, Good, SameUse
  <1>2. CASE ~(s.mem # Null \/ s.size = 0)
    <2>1. MakeBuffer(s) = [s EXCEPT !.mem = Heap, !.owned = TRUE, !.allocs = s.allocs + 1]
      BY <1>2 DEF MakeBuffer
    <2>2. s \in FileBufs /\ s.allocs + 1 \in Nat
      BY DEF Good, FileBufs
    <2> QED
      BY <2>1, <2>2 DEF FileBufs, SameUse
  <1> QED
    BY <1>1, <1>2

LEMMA StoreIs ==
    ASSUME NEW s, Good(s), NEW w
    PROVE  LET t == Store(s, w)
           IN /\ t.get = s.get /\ t.got = s.got /\ SameShell(s, t) /\ t.file = s.file /\ t.ok
              /\ t.put.chars = Join(s.put.chars, w) /\ t.put.room = s.put.room - Len(w)
              /\ t.put.at = s.put.at /\ t.put.off = s.put.off
  <1>1. s.put \in PutAreas
    BY DEF Good, FileBufs
  <1> QED
    BY <1>1 DEF Store, Good, FileBufs, SameShell, PutAreas, Join

LEMMA ResultIs ==
    ASSUME NEW s, Good(s), NEW b
    PROVE  LET t == Result(s, b)
           IN /\ t.get = s.get /\ t.put = s.put /\ t.got = s.got /\ t.file = s.file
              /\ SameShell(s, t) /\ (t.ok <=> b)
  BY DEF Result, Good, FileBufs, SameShell

LEMMA PutUnbufferedIs ==
    ASSUME NEW s, Good(s), NEW c, NEW o
    PROVE  LET t == PutUnbuffered(s, c, o)
               k == Accepted(c, o, "direct")
           IN /\ t.get = s.get /\ t.got = s.got /\ SameShell(s, t)
              /\ t.put = IF k = Len(c) /\ ~HasPut(s) THEN Marker ELSE s.put
              /\ t.file = FWrite(s.file, c, k, AppendMode(s)) /\ (t.ok <=> k = Len(c))
  BY DEF PutUnbuffered, Good, FileBufs, SameShell

LEMMA DrainPutIs ==
    ASSUME NEW s, Good(s), NEW o
    PROVE  LET t == DrainPut(s, o)
               w == s.put.chars
               k == Accepted(w, o, "write")
           IN /\ t.get = s.get /\ t.got = s.got /\ SameShell(s, t)
              /\ w = <<>> => t = Result(s, TRUE)
              /\ w # <<>> => /\ t.file = FWrite(s.file, w, k, AppendMode(s)) /\ (t.ok <=> k = Len(w))
                             /\ t.put.chars = <<>> /\ t.put.off = s.put.off + k
                             /\ t.put.room = s.put.room + Len(w) - k
                             /\ t.put.at = s.put.at
  <1>1. s.put \in PutAreas
    BY DEF Good, FileBufs
  <1>2. CASE s.put.chars = <<>>
    BY <1>2, ResultIs DEF DrainPut
  <1>3. CASE s.put.chars # <<>>
    BY <1>1, <1>3 DEF DrainPut, Good, FileBufs, SameShell, PutAreas
  <1> QED
    BY <1>2, <1>3

LEMMA WriteThroughIs ==
    ASSUME NEW s, Good(s), NEW w, NEW o
    PROVE  LET t == WriteThrough(s, w, o)
               k == Accepted(w, o, "direct")
           IN /\ t.get = s.get /\ t.got = s.got /\ SameShell(s, t)
              /\ t.put = IF k > 0 /\ s.put.at # Last THEN Marker ELSE s.put
              /\ t.file = FWrite(s.file, w, k, AppendMode(s)) /\ (t.ok <=> k = Len(w))
  BY DEF WriteThrough, Good, FileBufs, SameShell

LEMMA FillLastIs ==
    ASSUME NEW s, Good(s)
    PROVE  LET t == FillLast(s)
               w == BytesRead(s.file, 1)
           IN /\ t.put = s.put /\ t.got = s.got /\ SameShell(s, t)
              /\ t.get = IF w = <<>> THEN s.get ELSE GetArea(Last, w)
              /\ t.file = FRead(s.file, 1) /\ (t.ok <=> w # <<>>)
  BY DEF FillLast, Good, FileBufs, SameShell

LEMMA FillBufferIs ==
    ASSUME NEW s, Good(s)
    PROVE  LET t == FillBuffer(s)
               w == BytesRead(s.file, s.size)
           IN /\ t.put = s.put /\ t.got = s.got /\ SameShell(s, t)
              /\ t.get = GetArea(s.mem, w)
              /\ t.file = FRead(s.file, s.size) /\ (t.ok <=> w # <<>>)
  BY DEF FillBuffer, Good, FileBufs, SameShell

LEMMA TakeIs ==
    ASSUME NEW s, Good(s), NEW n
    PROVE  LET t == Take(s, n)
           IN /\ t.put = s.put /\ SameShell(s, t) /\ t.file = s.file /\ t.ok
              /\ t.got = Join(s.got, Part(s.get.chars, s.get.idx + 1, s.get.idx + n))
              /\ t.get.at = s.get.at /\ t.get.chars = s.get.chars /\ t.get.mod = s.get.mod
              /\ t.get.stale = s.get.stale /\ t.get.idx = s.get.idx + n
  <1>1. s.get \in GetAreas
    BY DEF Good, FileBufs
  <1> QED
    BY <1>1 DEF Take, Good, FileBufs, SameShell, GetAreas, Join, Part

LEMMA ReadThroughIs ==
    ASSUME NEW s, Good(s), NEW n
    PROVE  LET t == ReadThrough(s, n)
               w == BytesRead(s.file, n)
           IN /\ t.put = s.put /\ SameShell(s, t) /\ t.file = FRead(s.file, n)
              /\ (t.ok <=> Len(w) = n) /\ t.got = Join(s.got, w)
              /\ t.get.at = s.get.at /\ t.get.chars = s.get.chars /\ t.get.mod = s.get.mod
              /\ HasGet(s) /\ w # <<>> => t.get.stale
              /\ ~HasGet(s) \/ w = <<>> => t.get.stale = s.get.stale
              /\ t.get.idx = s.get.idx
  <1>1. s.get \in GetAreas
    BY DEF Good, FileBufs
  <1>2. s.get.stale \in BOOLEAN
    BY <1>1 DEF GetAreas
  <1>3. CASE HasGet(s) /\ BytesRead(s.file, n) # <<>>
    BY <1>1, <1>3 DEF ReadThrough, Good, FileBufs, SameShell, GetAreas, Join
  <1>4. CASE ~HasGet(s) \/ BytesRead(s.file, n) = <<>>
    BY <1>1, <1>2, <1>4 DEF ReadThrough, Good, FileBufs, SameShell, GetAreas, Join
  <1> QED
    BY <1>3, <1>4

\* Whether c puts back the character that is there.
PutsBackSame(s, c) == c = <<>> \/ c = <<s.get.chars[s.get.idx]>>

LEMMA PbackFailIs ==
    ASSUME NEW s, Good(s), NEW c, s.get.idx # 0
    PROVE  LET t == PbackFail(s, c)
               i == s.get.idx
           IN /\ t.put = s.put /\ SameShell(s, t) /\ t.file = s.file /\ t.ok
              /\ t.get.at = s.get.at /\ t.get.stale = s.get.stale /\ t.get.idx = i - 1
              /\ PutsBackSame(s, c) => /\ t.got = <<s.get.chars[i]>> /\ t.get.chars = s.get.chars
                                       /\ t.get.mod = s.get.mod
              /\ ~PutsBackSame(s, c) => /\ t.got = c /\ t.get.mod = s.get.mod \cup {i}
                                        /\ t.get.chars = [s.get.chars EXCEPT ![i] = c[1]]
  <1>1. s.get \in GetAreas
    BY DEF Good, FileBufs
  <1>2. CASE PutsBackSame(s, c)
    BY <1>1, <1>2 DEF PbackFail, PutsBackSame, Good, FileBufs, SameShell, GetAreas
  <1>3. CASE ~PutsBackSame(s, c)
    BY <1>1, <1>3 DEF PbackFail, PutsBackSame, Good, FileBufs, SameShell, GetAreas
  <1> QED
    BY <1>2, <1>3

LEMMA FlushIs ==
    ASSUME NEW s, Good(s), NEW o
    PROVE  LET t == Flush(s, o)
           IN /\ t.get = s.get /\ t.put = s.put /\ t.got = s.got /\ SameShell(s, t)
              /\ t.file = FFlush(s.file, o.fault = "flush") /\ (t.ok <=> s.ok /\ o.fault # "flush")
  BY DEF Flush, Good, FileBufs, SameShell

LEMMA RepositionIs ==
    ASSUME NEW s, Good(s), NEW p, NEW o
    PROVE  LET t == Reposition(s, p, o)
               fails == o.fault = "position"
           IN /\ t.get = s.get /\ t.put = s.put /\ t.got = s.got /\ SameShell(s, t)
              /\ SeekWorks(p, fails) => /\ t.file = FTell(FSeek(s.file, p, FALSE), o.fault = "tell")
                                        /\ (t.ok <=> o.fault # "tell")
              /\ ~SeekWorks(p, fails) => t.file = FSeek(s.file, p, fails) /\ ~t.ok
  <1>1. CASE SeekWorks(p, o.fault = "position")
    BY <1>1 DEF Reposition, Good, FileBufs, SameShell
  <1>2. CASE ~SeekWorks(p, o.fault = "position")
    BY <1>2 DEF Reposition, Good, FileBufs, SameShell
  <1> QED
    BY <1>1, <1>2

LEMMA FreeOwnedIs ==
    ASSUME NEW s \in FileBufs
    PROVE  LET t == FreeOwned(s)
           IN /\ t.get = s.get /\ t.put = s.put /\ t.got = s.got /\ SameUse(s, t) /\ t.ok = s.ok
              /\ t.file = s.file /\ t.size = s.size
  BY DEF FreeOwned, FileBufs, SameUse

LEMMA NoAreasIs ==
    ASSUME NEW s \in FileBufs
    PROVE  LET t == NoAreas(s)
           IN /\ t.get = NoGet /\ t.put = NoPut /\ t.got = s.got /\ SameShell(s, t) /\ t.ok = s.ok
              /\ t.file = s.file
  BY DEF NoAreas, FileBufs, SameShell

LEMMA SetUnbufferedReadIs ==
    ASSUME NEW s \in FileBufs
    PROVE  LET t == SetUnbufferedRead(s)
           IN /\ t.get = s.get /\ t.put = s.put /\ t.got = s.got /\ SameUse(s, t) /\ t.ok = s.ok
              /\ t.file = s.file /\ t \in FileBufs
  <1>1. ("binary" \notin s.mode \/ s.size = 0) \in BOOLEAN
    OBVIOUS
  <1> QED
    BY <1>1 DEF SetUnbufferedRead, FileBufs, SameUse

\* close of an open file.
LEMMA CloseIs ==
    ASSUME NEW s, Good(s), s.isOpen, NEW o, o.wrote \in Nat
    PROVE  LET t == Sync(s, o)
               z == Close(s, o)
           IN /\ z.get = NoGet /\ z.put = NoPut /\ z.got = t.got /\ ~z.isOpen /\ z.mode = {}
              /\ z.file = FClose(t.file, o.fault = "close")
              /\ (z.ok <=> t.ok /\ o.fault # "close")
  <1> DEFINE t == Sync(s, o)
             f == FClose(t.file, o.fault = "close")
             b == t.ok /\ o.fault # "close"
             u == [t EXCEPT !.file = f, !.ok = b, !.isOpen = FALSE, !.mode = {}]
             z == Close(s, o)
  <1>1. t \in FileBufs /\ f \in CFiles
    BY SyncGood, CCallType, GoodFields
  <1>2. z = NoAreas(FreeOwned(u))
    <2>1. z = NoAreas(FreeOwned([t EXCEPT !.file = FClose(@, o.fault = "close"),
                                          !.ok = @ /\ o.fault # "close",
                                          !.isOpen = FALSE, !.mode = {}]))
      BY DEF Close
    <2> HIDE DEF t
    <2> QED
      BY <1>1, <2>1 DEF FileBufs
  <1>3. b \in BOOLEAN
    OBVIOUS
  <1> HIDE DEF t, f, b
  <1>0. OwnsItsBlock(t)
    BY SyncGood DEF Good, MemorySafe, t
  <1>4. /\ u \in FileBufs /\ u.file = f /\ (u.ok <=> b) /\ u.got = t.got
        /\ ~u.isOpen /\ u.mode = {}
        /\ u.owned = t.owned /\ u.mem = t.mem /\ u.allocs = t.allocs
    BY <1>1, <1>3 DEF FileBufs
  <1> HIDE DEF u
  <1> DEFINE v == FreeOwned(u)
  <1>5. v \in FileBufs /\ v.file = f /\ v.ok = u.ok /\ v.got = t.got /\ ~v.isOpen /\ v.mode = {}
    <2>0. OwnsItsBlock(u)
      BY <1>0, <1>4 DEF OwnsItsBlock
    <2>1. v \in FileBufs
      BY <1>4, <2>0, FreeOwnedType
    <2> QED
      BY <1>4, <2>1, FreeOwnedIs DEF SameUse
  <1> HIDE DEF v
  <1>6. /\ NoAreas(v).get = NoGet /\ NoAreas(v).put = NoPut /\ NoAreas(v).got = t.got
        /\ NoAreas(v).file = f /\ NoAreas(v).ok = u.ok
        /\ ~NoAreas(v).isOpen /\ NoAreas(v).mode = {}
    BY <1>5, NoAreasIs DEF SameShell
  <1>7. z = NoAreas(v)
    BY <1>2 DEF v
  <1> HIDE DEF z
  <1> QED
    BY <1>4, <1>6, <1>7 DEF z, t, f, b

LEMMA SetBufIs ==
    ASSUME NEW s, Good(s), NEW b \in UserBufs \cup {Null}, NEW n \in Nat
    PROVE  LET t == SetBuf(s, b, n)
           IN /\ t.get = NoGet /\ t.put = NoPut /\ t.got = s.got /\ SameUse(s, t) /\ t.ok
              /\ t.file = s.file
  <1> DEFINE r == NoAreas(s)
             t == FreeOwned(r)
             u == [t EXCEPT !.mem = b, !.size = n, !.ok = TRUE]
             v == SetUnbufferedRead(u)
  <1>1. SetBuf(s, b, n) = v
    BY DEF SetBuf
  <1>2. s \in FileBufs
    BY DEF Good
  <1>3. /\ r \in FileBufs /\ SameUse(s, r) /\ r.get = NoGet /\ r.put = NoPut /\ r.got = s.got
        /\ r.file = s.file
    BY <1>2, NoAreasType, NoAreasIs DEF SameShell, SameUse
  <1>0. OwnsItsBlock(r)
    <2>1. SameShell(s, r)
      BY <1>2, NoAreasIs
    <2> HIDE DEF r
    <2> QED
      BY <2>1 DEF Good, MemorySafe, OwnsItsBlock, SameShell
  <1> HIDE DEF r
  <1>4. /\ t \in FileBufs /\ SameUse(s, t) /\ t.get = NoGet /\ t.put = NoPut /\ t.got = s.got
        /\ t.file = s.file
    <2>1. t \in FileBufs
      BY <1>0, <1>3, FreeOwnedType
    <2> QED
      BY <1>3, <2>1, FreeOwnedIs DEF SameUse
  <1> HIDE DEF t
  <1>5. /\ u \in FileBufs /\ SameUse(s, u) /\ u.get = NoGet /\ u.put = NoPut /\ u.got = s.got
        /\ u.file = s.file /\ u.ok
    BY <1>4 DEF FileBufs, SameUse
  <1> HIDE DEF u
  <1>6. /\ SameUse(s, v) /\ v.get = NoGet /\ v.put = NoPut /\ v.got = s.got
        /\ v.file = s.file /\ v.ok
    BY <1>5, SetUnbufferedReadIs DEF SameUse
  <1> HIDE DEF v
  <1> QED
    BY <1>1, <1>6

\* The C stream open has just made: at the start, or for ate at the end.
OpenedFile(s, m) ==
    LET f == FOpen(s.file, GetMode(m) \in {"w", "w+"})
    IN IF "ate" \in m THEN FSeek(f, Len(f.data), FALSE) ELSE f

\* What open makes of a closed filebuf once fopen has worked.
OpenedWell(s, m, ends, t) ==
    /\ t.get = NoGet /\ t.put = NoPut /\ t.got = s.got
    /\ ~ends => t.isOpen /\ t.mode = m \ {"ate"} /\ t.ok /\ t.file = OpenedFile(s, m)
    /\ ends => ~t.isOpen /\ ~t.ok /\ t.file.errs # 0

LEMMA OpenedIs ==
    ASSUME NEW s, Good(s), ~s.isOpen, NEW m \in SUBSET Flags, NEW o
    PROVE  OpenedWell(s, m, "ate" \in m /\ o.fault = "end", Opened(s, m, o))
  <1> DEFINE trunc == GetMode(m) \in {"w", "w+"}
             f == FOpen(s.file, trunc)
             fails == o.fault = "end"
             e == IF "ate" \in m THEN FSeek(f, Len(f.data), fails) ELSE f
             t == [s EXCEPT !.isOpen = TRUE, !.file = e]
  <1>1. s \in FileBufs /\ s.file \in CFiles
    BY GoodFields
  <1>2. s.get = NoGet /\ s.put = NoPut
    <2>1. s.get.at = Null /\ s.put.at = Null
      BY DEF Good, MemorySafe, ClosedIsClean, HasGet, HasPut
    <2> QED
      BY <2>1 DEF Good, MemorySafe, GetInBlock, PutInBlock
  <1>3. trunc \in BOOLEAN /\ fails \in BOOLEAN
    OBVIOUS
  <1>4. f \in CFiles
    <2> HIDE DEF trunc
    <2> QED
      BY <1>1, <1>3, CCallType
  <1>5. ~fails => e = OpenedFile(s, m)
    BY <1>3 DEF OpenedFile
  <1>6. Opened(s, m, o) = IF "ate" \in m /\ fails THEN Result(Close(t, o), FALSE)
                          ELSE SetUnbufferedRead([t EXCEPT !.mode = m \ {"ate"}, !.ok = TRUE])
    BY DEF Opened
  <1>7. "ate" \notin m => e = OpenedFile(s, m)
    BY DEF OpenedFile
  <1> HIDE DEF f
  <1>8. e \in CFiles /\ ("ate" \in m /\ fails => e.errs # 0)
    <2>1. Len(f.data) \in Int
      <3>1. f.data \in Seq(Chars)
        BY <1>4 DEF CFiles
      <3> QED
        BY <3>1
    <2> HIDE DEF fails
    <2>2. FSeek(f, Len(f.data), fails) \in CFiles
      BY <1>3, <1>4, <2>1, PositioningType
    <2>3. fails => FSeek(f, Len(f.data), fails).errs = f.errs + 1
      <3> HIDE DEF fails
      <3>1. fails => ~SeekWorks(Len(f.data), fails)
        BY DEF SeekWorks
      <3> QED
        BY <1>4, <3>1, FSeekIs
    <2>4. f.errs + 1 # 0
      BY <1>4, ErrsStay
    <2> QED
      BY <1>4, <2>2, <2>3, <2>4
  <1> HIDE DEF e
  <1>9. t \in FileBufs /\ t.isOpen /\ t.get = NoGet /\ t.put = NoPut /\ t.file = e /\ t.got = s.got
    BY <1>1, <1>2, <1>8 DEF FileBufs
  <1>12. OwnsItsBlock(t)
    BY <1>1 DEF Good, MemorySafe, OwnsItsBlock, FileBufs
  <1> HIDE DEF t
  <1>10. CASE "ate" \in m /\ fails
    <2> DEFINE y == Sync(t, o)
               u == [y EXCEPT !.file = FClose(@, o.fault = "close"),
                              !.ok = @ /\ o.fault # "close",
                              !.isOpen = FALSE, !.mode = {}]
               z == NoAreas(FreeOwned(u))
    <2>1. y = [t EXCEPT !.get = NoGet, !.ok = TRUE]
      BY <1>9, NullAreas DEF Sync, StopReading, HasPut, HasGet
    <2>2. Close(t, o) = z
      BY <1>9 DEF Close
    <2>3. /\ y \in FileBufs /\ y.got = s.got
          /\ y.owned = t.owned /\ y.mem = t.mem /\ y.allocs = t.allocs /\ y.file = e
      BY <1>9, <2>1, NullAreas DEF FileBufs
    <2>0. OwnsItsBlock(y)
      BY <1>12, <2>3 DEF OwnsItsBlock
    <2> HIDE DEF y
    <2>4. /\ u \in FileBufs /\ u.got = s.got
          /\ u.owned = y.owned /\ u.mem = y.mem /\ u.allocs = y.allocs
          /\ u.file.errs # 0 /\ ~u.isOpen
      <3> DEFINE g == FClose(y.file, o.fault = "close")
                 b == y.ok /\ o.fault # "close"
      <3>1. g \in CFiles /\ b \in BOOLEAN
        BY <2>3, CCallType DEF FileBufs
      <3>2. u = [y EXCEPT !.file = g, !.ok = b, !.isOpen = FALSE, !.mode = {}]
        BY <2>3 DEF FileBufs
      <3>3. g.errs # 0
        <4>1. g.errs = e.errs \/ g.errs = e.errs + 1
          BY <1>8, <2>3, FCloseIs
        <4>2. e.errs + 1 # 0
          BY <1>8, ErrsStay
        <4> QED
          BY <1>8, <1>10, <4>1, <4>2
      <3> HIDE DEF g, b, u
      <3> QED
        BY <2>3, <3>1, <3>2, <3>3 DEF FileBufs
    <2> HIDE DEF u
    <2>5. /\ FreeOwned(u) \in FileBufs /\ FreeOwned(u).got = s.got
          /\ FreeOwned(u).file = u.file /\ ~FreeOwned(u).isOpen
      <3>1. OwnsItsBlock(u)
        BY <2>0, <2>4 DEF OwnsItsBlock
      <3> QED
        BY <2>4, <3>1, FreeOwnedIs, FreeOwnedType
    <2>6. /\ z \in FileBufs /\ z.get = NoGet /\ z.put = NoPut /\ z.got = s.got
          /\ z.file = u.file /\ ~z.isOpen
      <3>1. /\ z \in FileBufs /\ z.get = NoGet /\ z.put = NoPut /\ z.got = s.got
            /\ z.file = u.file /\ SameShell(FreeOwned(u), z)
        BY <2>5, NoAreasIs, NoAreasType
      <3> HIDE DEF z
      <3> QED
        BY <2>5, <3>1 DEF SameShell
    <2> HIDE DEF z
    <2>7. LET r == Result(z, FALSE)
          IN /\ r.get = NoGet /\ r.put = NoPut /\ r.got = s.got
             /\ r.file = z.file /\ ~r.isOpen /\ ~r.ok
      BY <2>6 DEF Result, FileBufs
    <2>8. Opened(s, m, o) = Result(z, FALSE)
      BY <1>6, <1>10, <2>2
    <2>9. z.file.errs # 0
      BY <2>4, <2>6
    <2> QED
      BY <1>10, <2>7, <2>8, <2>9 DEF OpenedWell
  <1>11. CASE ~("ate" \in m /\ fails)
    <2> DEFINE u == [t EXCEPT !.mode = m \ {"ate"}, !.ok = TRUE]
               v == SetUnbufferedRead(u)
    <2>1. Opened(s, m, o) = v
      BY <1>6, <1>11
    <2>2. /\ u \in FileBufs /\ u.isOpen /\ u.get = NoGet /\ u.put = NoPut /\ u.got = s.got
          /\ u.mode = m \ {"ate"} /\ u.ok /\ u.file = e
      BY <1>9 DEF FileBufs
    <2> HIDE DEF u
    <2>3. /\ v.isOpen /\ v.get = NoGet /\ v.put = NoPut /\ v.got = s.got
          /\ v.mode = m \ {"ate"} /\ v.ok /\ v.file = e
      BY <2>2, SetUnbufferedReadIs DEF SameUse
    <2> HIDE DEF v
    <2>4. e = OpenedFile(s, m)
      BY <1>5, <1>7, <1>11
    <2> QED
      BY <1>11, <2>1, <2>3, <2>4 DEF OpenedWell
  <1> QED
    BY <1>10, <1>11

----------------------------------------------------------------------------
\* What the get area shows.

\* The get area of s shows the bytes of the file that end at the position of the C stream,
\* but for those a putback has changed.
ShowsFile(s) ==
    /\ s.file.pos - Len(s.get.chars) >= 0
    /\ s.get.chars # <<>> => s.file.pos <= Len(s.file.data)
    /\ \A i \in DOMAIN s.get.chars \ s.get.mod :
           s.get.chars[i] = s.file.data[s.file.pos - Len(s.get.chars) + i]

\* It does so unless the stream was read past it since.
Mirrors(s) ==
    /\ s.get.mod \subseteq DOMAIN s.get.chars
    /\ HasGet(s) /\ ~s.get.stale => ShowsFile(s)

\* The same file at the same position, with the same part of it in the get area.
SameShow(s, t) ==
    /\ t.file.data = s.file.data /\ t.file.pos = s.file.pos
    /\ t.get.at = s.get.at /\ t.get.chars = s.get.chars /\ t.get.mod = s.get.mod
    /\ t.get.stale = s.get.stale

LEMMA NoGetMirrors ==
    ASSUME NEW t, t.get = NoGet
    PROVE  Mirrors(t)
  <1>1. t.get.at = Null /\ t.get.mod = {}
    BY DEF NoGet
  <1> QED
    BY <1>1 DEF Mirrors, HasGet

LEMMA SameMirrors ==
    ASSUME NEW s, NEW t, Mirrors(s), SameShow(s, t)
    PROVE  Mirrors(t)
  BY DEF Mirrors, ShowsFile, SameShow, HasGet

LEMMA ResultMirrors ==
    ASSUME NEW s, Good(s), Mirrors(s), NEW b
    PROVE  Mirrors(Result(s, b))
  <1>1. SameShow(s, Result(s, b))
    BY ResultIs DEF SameShow
  <1> QED
    BY <1>1, SameMirrors

\* A filebuf without a get area has the null one; so does one with a put area.
LEMMA NoGetArea ==
    ASSUME NEW s, Good(s), ~HasGet(s) \/ HasPut(s) \/ ~s.isOpen \/ ~CanRead(s) \/ s.put.chars # <<>>
    PROVE  s.get = NoGet
  <1>1. s.put.chars # <<>> => HasPut(s)
    BY DEF Good, MemorySafe, PutInBlock, HasPut, NoPut
  <1>2. ~HasGet(s)
    BY <1>1 DEF Good, MemorySafe, OneArea, AreasNeedFile
  <1> QED
    BY <1>2 DEF Good, MemorySafe, GetInBlock, HasGet

\* stop_writing moves the C stream only when there is no get area.
LEMMA StopWritingMirrors ==
    ASSUME NEW s, Good(s), Mirrors(s), NEW o
    PROVE  Mirrors(StopWriting(s, o))
  <1>1. CASE s.put.chars = <<>>
    <2>1. SameShow(s, StopWriting(s, o))
      BY <1>1, StopWritingIs DEF SameShow
    <2> QED
      BY <2>1, SameMirrors
  <1>2. CASE s.put.chars # <<>>
    <2>1. StopWriting(s, o).get = s.get
      BY StopWritingIs
    <2>2. s.get = NoGet
      BY <1>2, NoGetArea
    <2> QED
      BY <2>1, <2>2, NoGetMirrors
  <1> QED
    BY <1>1, <1>2

\* overflow leaves no get area, unless it refuses.
LEMMA OverflowMirrors ==
    ASSUME NEW s, Good(s), Mirrors(s), NEW c \in OneChar, NEW o, o.wrote \in Nat
    PROVE  /\ Mirrors(Overflow(s, c, o))
           /\ CanWrite(s) => Overflow(s, c, o).get = NoGet
  <1> DEFINE t == StopReading(s, o)
             u == [t EXCEPT !.file = FWrite(t.file, t.put.chars,
                                            Accepted(t.put.chars, o, "write"), AppendMode(t))]
             v == Overflow(s, c, o)
  <1>1. Good(t) /\ t.get = NoGet
    BY StopReadingGood
  <1> HIDE DEF t
  <1>2. StoreOrFlush(t, c, o).get = NoGet
    <2>1. CASE Pending(t) > 0
      <3>1. u.get = NoGet /\ u \in FileBufs
        <4>1. t.put.chars \in Seq(Chars) /\ t.put.chars # <<>>
          BY <1>1, <2>1, GoodFields DEF Pending
        <4> QED
          BY <1>1, <4>1, FileWritten DEF Good, FileBufs
      <3>2. Result(u, FALSE).get = NoGet /\ Restart(u, c).get = NoGet
        BY <3>1 DEF Result, Restart, FileBufs
      <3>3. StoreOrFlush(t, c, o) \in {Result(u, FALSE), Restart(u, c)}
        BY <2>1 DEF StoreOrFlush, FlushAndStore
      <3> QED
        BY <3>2, <3>3
    <2>2. CASE ~(Pending(t) > 0) /\ c = <<>>
      BY <1>1, <2>2, ResultIs DEF StoreOrFlush
    <2>3. CASE ~(Pending(t) > 0) /\ c # <<>> /\ t.size > 0
      <3>1. MakeBuffer(t).get = NoGet /\ MakeBuffer(t) \in FileBufs
        BY <1>1, MakeBufferIs
      <3>2. Restart(MakeBuffer(t), c).get = NoGet
        BY <3>1 DEF Restart, FileBufs
      <3> QED
        BY <2>3, <3>2 DEF StoreOrFlush
    <2>4. CASE ~(Pending(t) > 0) /\ c # <<>> /\ ~(t.size > 0)
      BY <1>1, <2>4, PutUnbufferedIs DEF StoreOrFlush
    <2> QED
      BY <2>1, <2>2, <2>3, <2>4
  <1>3. CASE CanWrite(s)
    <2>1. v = IF ~t.ok THEN t ELSE StoreOrFlush(t, c, o)
      BY <1>3 DEF Overflow, t
    <2> HIDE DEF v
    <2>2. v.get = NoGet
      BY <1>1, <1>2, <2>1
    <2> QED
      BY <2>2, NoGetMirrors DEF v
  <1>4. CASE ~CanWrite(s)
    <2>1. v = Result(s, FALSE)
      BY <1>4 DEF Overflow
    <2> QED
      BY <1>4, <2>1, ResultMirrors
  <1> QED
    BY <1>3, <1>4

LEMMA StoreMirrors ==
    ASSUME NEW s, Good(s), Mirrors(s), NEW w
    PROVE  Mirrors(Store(s, w))
  <1>1. SameShow(s, Store(s, w))
    BY StoreIs DEF SameShow
  <1> QED
    BY <1>1, SameMirrors

LEMMA PutCharMirrors ==
    ASSUME NEW s, Good(s), Mirrors(s), NEW c \in Chars, NEW o, o.wrote \in Nat
    PROVE  Mirrors(PutChar(s, c, o))
  <1>1. <<c>> \in OneChar
    BY OneCharType
  <1>2. Mirrors(Store(s, <<c>>)) /\ Mirrors(Overflow(s, <<c>>, o))
    BY <1>1, StoreMirrors, OverflowMirrors
  <1> QED
    BY <1>2 DEF PutChar

LEMMA PutSmallMirrors ==
    ASSUME NEW s, Good(s), Mirrors(s), NEW w \in Seq(Chars), Len(w) <= s.size,
           NEW o, o.wrote \in Nat
    PROVE  Mirrors(PutSmall(s, w, o))
  <1> DEFINE r == Least(s.put.room, Len(w))
             t == Store(s, SubSeq(w, 1, r))
             u == Overflow(t, <<w[r + 1]>>, o)
  <1>0. s.put.room \in Nat
    BY DEF Good, FileBufs, PutAreas
  <1>1. r \in Nat /\ r <= Len(w) /\ r <= s.put.room
    BY <1>0 DEF Least
  <1>2. Good(t) /\ Mirrors(t)
    <2>1. SubSeq(w, 1, r) \in Seq(Chars) /\ Len(SubSeq(w, 1, r)) = r
      BY <1>1
    <2> QED
      BY <1>1, <2>1, StoreGood, StoreMirrors
  <1>3. ASSUME r # Len(w)
        PROVE  Good(u) /\ Mirrors(u)
    <2>1. w[r + 1] \in Chars
      BY <1>1, <1>3
    <2> HIDE DEF r, t
    <2> QED
      BY <1>2, <2>1, OneCharType, OverflowGood, OverflowMirrors DEF Stored
  <1> HIDE DEF t, u, r
  <1>4. r # Len(w) => Mirrors(Store(u, SubSeq(w, r + 2, Len(w))))
    BY <1>3, StoreMirrors
  <1>5. PutSmall(s, w, o) = IF r = Len(w) THEN t ELSE IF ~u.ok THEN u
                            ELSE Store(u, SubSeq(w, r + 2, Len(w)))
    BY DEF PutSmall, t, u, r
  <1> QED
    BY <1>2, <1>3, <1>4, <1>5

LEMMA PutDirectMirrors ==
    ASSUME NEW s, Good(s), Mirrors(s), NEW w \in Seq(Chars), NEW o, o.wrote \in Nat
    PROVE  Mirrors(PutDirect(s, w, o))
  <1> DEFINE t == StopReading(s, o)
             u == DrainPut(t, o)
             v == WriteThrough(u, w, o)
  <1>1. Good(t) /\ t.get = NoGet
    BY StopReadingGood
  <1> HIDE DEF t
  <1>2. Good(u) /\ u.get = NoGet
    BY <1>1, DrainPutGood
  <1> HIDE DEF u
  <1>3. v.get = NoGet
    BY <1>2, WriteThroughIs
  <1>4. CASE ~CanWrite(s)
    BY <1>4, ResultMirrors DEF PutDirect
  <1>5. CASE CanWrite(s)
    BY <1>1, <1>2, <1>3, <1>5, NoGetMirrors DEF PutDirect, t, u
  <1> QED
    BY <1>4, <1>5

LEMMA XsputnMirrors ==
    ASSUME NEW s, Good(s), Mirrors(s), NEW w \in Seq(Chars), NEW o, o.wrote \in Nat
    PROVE  Mirrors(Xsputn(s, w, o))
  BY PutSmallMirrors, PutDirectMirrors DEF Xsputn

\* A read leaves in the get area what the C stream has just passed.
LEMMA FilledMirrors ==
    ASSUME NEW s, Good(s), NEW t, NEW n \in Nat, NEW b,
           t.get = GetArea(b, BytesRead(s.file, n)), t.file = FRead(s.file, n)
    PROVE  Mirrors(t)
  <1> DEFINE f == s.file
             w == BytesRead(f, n)
  <1>0. f \in CFiles
    BY GoodFields
  <1>1. f.data \in Seq(Chars) /\ f.pos \in Nat
    BY <1>0 DEF CFiles
  <1>2. t.file.data = f.data /\ t.file.pos = f.pos + Len(w)
    BY <1>0, FReadIs
  <1>3. t.get.mod = {} /\ t.get.chars = w
    BY DEF GetArea
  <1>4. /\ w \in Seq(Chars)
        /\ Len(w) = IF f.pos + n <= Len(f.data) THEN n
                    ELSE IF f.pos < Len(f.data) THEN Len(f.data) - f.pos ELSE 0
        /\ \A i \in 1..Len(w) : w[i] = f.data[f.pos + i]
    BY <1>0, BytesReadIs
  <1> HIDE DEF w, f
  <1>5. Len(w) \in Nat /\ (w # <<>> => f.pos + Len(w) <= Len(f.data))
    <2>1. Len(w) \in Nat /\ (w # <<>> => Len(w) # 0) /\ Len(f.data) \in Nat
      BY <1>1, <1>4
    <2> QED
      BY <1>1, <1>4, <2>1
  <1>6. t.file.pos - Len(t.get.chars) = f.pos
    BY <1>1, <1>2, <1>3, <1>5
  <1>7. \A i \in DOMAIN w : w[i] = f.data[f.pos + i]
    BY <1>4
  <1>8. ShowsFile(t)
    BY <1>1, <1>2, <1>3, <1>5, <1>6, <1>7 DEF ShowsFile
  <1> QED
    BY <1>3, <1>8 DEF Mirrors

LEMMA UnderflowMirrors ==
    ASSUME NEW s, Good(s), Mirrors(s), NEW o, o.wrote \in Nat
    PROVE  Mirrors(Underflow(s, o))
  <1> DEFINE t == StopWriting(s, o)
             u == MakeBuffer(t)
  <1>1. Good(t) /\ Mirrors(t) /\ t.isOpen = s.isOpen
    BY StopWritingGood, StopWritingMirrors DEF SameShell
  <1>2. Mirrors(Result(s, FALSE))
    BY ResultMirrors
  <1> HIDE DEF t
  <1>3. Mirrors(FillLast(t))
    <2>1. CASE BytesRead(t.file, 1) = <<>>
      <3>1. FillLast(t).get = t.get /\ FillLast(t).file = FRead(t.file, 1)
        BY <1>1, <2>1, FillLastIs
      <3>2. FRead(t.file, 1).data = t.file.data /\ FRead(t.file, 1).pos = t.file.pos
        BY <1>1, <2>1 DEF FRead, Good, FileBufs, CFiles
      <3>3. SameShow(t, FillLast(t))
        BY <3>1, <3>2 DEF SameShow
      <3> QED
        BY <1>1, <3>3, SameMirrors
    <2>2. CASE BytesRead(t.file, 1) # <<>>
      <3>1. FillLast(t).get = GetArea(Last, BytesRead(t.file, 1))
            /\ FillLast(t).file = FRead(t.file, 1)
        BY <1>1, <2>2, FillLastIs
      <3> QED
        BY <1>1, <3>1, FilledMirrors
    <2> QED
      BY <2>1, <2>2
  <1>4. ASSUME s.isOpen
        PROVE  Mirrors(FillBuffer(u))
    <2>1. Good(u) /\ u.size \in Nat
      BY <1>1, <1>4, MakeBufferGood DEF Good, FileBufs
    <2> HIDE DEF u
    <2>2. FillBuffer(u).get = GetArea(u.mem, BytesRead(u.file, u.size))
          /\ FillBuffer(u).file = FRead(u.file, u.size)
      BY <2>1, FillBufferIs
    <2> QED
      BY <2>1, <2>2, FilledMirrors
  <1>5. CanRead(s) => s.isOpen
    BY DEF Good, MemorySafe, ClosedIsClean, CanRead
  <1>6. Underflow(s, o) = IF ~CanRead(s) THEN Result(s, FALSE) ELSE IF ~t.ok THEN t
                          ELSE IF s.unbuffered THEN FillLast(t) ELSE FillBuffer(u)
    BY DEF Underflow, t
  <1> HIDE DEF u
  <1> QED
    BY <1>1, <1>2, <1>3, <1>4, <1>5, <1>6

LEMMA TakeMirrors ==
    ASSUME NEW s, Good(s), Mirrors(s), NEW n
    PROVE  Mirrors(Take(s, n))
  <1>1. /\ Take(s, n).file = s.file /\ Take(s, n).get.at = s.get.at
        /\ Take(s, n).get.chars = s.get.chars /\ Take(s, n).get.mod = s.get.mod
        /\ Take(s, n).get.stale = s.get.stale
    BY TakeIs
  <1>2. SameShow(s, Take(s, n))
    BY <1>1 DEF SameShow
  <1> QED
    BY <1>2, SameMirrors

LEMMA RefillMirrors ==
    ASSUME NEW s, Good(s), Mirrors(s), NEW o, o.wrote \in Nat
    PROVE  Mirrors(Refill(s, o))
  <1>1. Mirrors(Result(s, TRUE)) /\ Mirrors(Underflow(s, o))
    BY ResultMirrors, UnderflowMirrors
  <1> QED
    BY <1>1 DEF Refill

LEMMA PeekCharMirrors ==
    ASSUME NEW s, Good(s), Mirrors(s), NEW o, o.wrote \in Nat
    PROVE  Mirrors(PeekChar(s, o))
  <1> DEFINE t == Refill(s, o)
             u == [t EXCEPT !.got = <<t.get.chars[t.get.idx + 1]>>]
  <1>1. Good(t) /\ Mirrors(t)
    BY RefillGood, RefillMirrors
  <1>2. PeekChar(s, o) = IF t.ok THEN u ELSE t
    BY DEF PeekChar
  <1> HIDE DEF t
  <1>3. u.get = t.get /\ u.file = t.file
    BY <1>1 DEF Good, FileBufs
  <1>4. Mirrors(u)
    <2> HIDE DEF u
    <2>1. SameShow(t, u)
      BY <1>3 DEF SameShow
    <2> QED
      BY <1>1, <2>1, SameMirrors
  <1> QED
    BY <1>1, <1>2, <1>4

LEMMA BumpCharMirrors ==
    ASSUME NEW s, Good(s), Mirrors(s), NEW o, o.wrote \in Nat
    PROVE  Mirrors(BumpChar(s, o))
  <1> DEFINE t == Refill(s, o)
  <1>1. Good(t) /\ Mirrors(t)
    BY RefillGood, RefillMirrors
  <1>2. BumpChar(s, o) = IF t.ok THEN Take(t, 1) ELSE t
    BY DEF BumpChar
  <1> HIDE DEF t
  <1> QED
    BY <1>1, <1>2, TakeMirrors

LEMMA GetSmallMirrors ==
    ASSUME NEW s, Good(s), Mirrors(s), s.got = <<>>, NEW n \in Nat, NEW o, o.wrote \in Nat
    PROVE  Mirrors(GetSmall(s, n, o))
  <1> DEFINE t == TakeUpTo(s, n)
             u == Underflow(t, o)
             v == TakeUpTo(u, n - Len(t.got))
  <1>1. Good(t) /\ Mirrors(t) /\ Len(t.got) \in Nat /\ Len(t.got) <= n
    <2>1. Good(t) /\ Len(t.got) \in Nat /\ Len(t.got) <= Len(s.got) + n
      BY TakeUpToGood
    <2>2. Mirrors(t)
      BY TakeMirrors DEF TakeUpTo
    <2> QED
      BY <2>1, <2>2
  <1> HIDE DEF t
  <1>2. Good(u) /\ Mirrors(u)
    BY <1>1, UnderflowGood, UnderflowMirrors
  <1> HIDE DEF u
  <1>3. Good(v) /\ Mirrors(v)
    <2>1. n - Len(t.got) \in Nat
      BY <1>1
    <2>2. Good(v)
      BY <1>2, <2>1, TakeUpToGood
    <2>3. Mirrors(v)
      BY <1>2, TakeMirrors DEF TakeUpTo
    <2> QED
      BY <2>2, <2>3
  <1>4. GetSmall(s, n, o) = IF Len(t.got) = n THEN t ELSE IF ~u.ok THEN u
                            ELSE IF Len(v.got) = n THEN v ELSE Underflow(v, o)
    BY DEF GetSmall, t, u
  <1> HIDE DEF v
  <1>5. Mirrors(Underflow(v, o))
    BY <1>3, UnderflowMirrors
  <1> QED
    BY <1>1, <1>2, <1>3, <1>4, <1>5

\* A read past the get area leaves an area that shows an earlier part of the file.
LEMMA ReadThroughMirrors ==
    ASSUME NEW s, Good(s), Mirrors(s), NEW n \in Nat
    PROVE  Mirrors(ReadThrough(s, n))
  <1> DEFINE t == ReadThrough(s, n)
             w == BytesRead(s.file, n)
  <1>1. /\ t.get.at = s.get.at /\ t.get.chars = s.get.chars /\ t.get.mod = s.get.mod
        /\ t.file = FRead(s.file, n)
        /\ HasGet(s) /\ w # <<>> => t.get.stale
        /\ ~HasGet(s) \/ w = <<>> => t.get.stale = s.get.stale
    BY ReadThroughIs
  <1>2. s.file \in CFiles
    BY GoodFields
  <1> HIDE DEF t
  <1>3. CASE w = <<>>
    <2>1. t.file.data = s.file.data /\ t.file.pos = s.file.pos
      BY <1>1, <1>2, <1>3, FReadIs DEF CFiles
    <2>2. t.get.stale = s.get.stale
      BY <1>1, <1>3
    <2>3. SameShow(s, t)
      BY <1>1, <2>1, <2>2 DEF SameShow
    <2> QED
      BY <2>3, SameMirrors DEF t
  <1>4. CASE w # <<>>
    <2>1. HasGet(t) => t.get.stale
      BY <1>1, <1>4 DEF HasGet
    <2>2. t.get.mod \subseteq DOMAIN t.get.chars
      BY <1>1 DEF Mirrors
    <2> HIDE DEF w
    <2> QED
      BY <2>1, <2>2 DEF Mirrors, t
  <1> QED
    BY <1>3, <1>4

LEMMA GetDirectMirrors ==
    ASSUME NEW s, Good(s), Mirrors(s), s.got = <<>>, NEW n \in Nat, NEW o, o.wrote \in Nat
    PROVE  Mirrors(GetDirect(s, n, o))
  <1> DEFINE t == StopWriting(s, o)
             u == TakeUpTo(t, n)
             v == [u EXCEPT !.ok = t.ok]
  <1>1. Good(t) /\ Mirrors(t) /\ t.got = <<>> /\ t.ok \in BOOLEAN
    BY StopWritingGood, StopWritingMirrors, GoodFields
  <1> HIDE DEF t
  <1>2. Good(u) /\ Mirrors(u) /\ Len(u.got) \in Nat /\ Len(u.got) <= n
    <2>1. Good(u) /\ Len(u.got) \in Nat /\ Len(u.got) <= Len(t.got) + n
      BY <1>1, TakeUpToGood
    <2>2. Mirrors(u)
      BY <1>1, TakeMirrors DEF TakeUpTo
    <2> QED
      BY <1>1, <2>1, <2>2
  <1> HIDE DEF u
  <1>3. Mirrors(v)
    <2>1. v = Result(u, t.ok)
      BY DEF Result
    <2> QED
      BY <1>2, <2>1, ResultMirrors
  <1>4. Mirrors(ReadThrough(u, n - Len(u.got)))
    BY <1>2, ReadThroughMirrors
  <1>5. Mirrors(Result(s, FALSE))
    BY ResultMirrors
  <1>6. GetDirect(s, n, o) = IF ~CanRead(s) THEN Result(s, FALSE)
                             ELSE IF ~t.ok \/ Len(u.got) = n THEN v
                             ELSE ReadThrough(u, n - Len(u.got))
    BY DEF GetDirect, t, u
  <1> HIDE DEF v
  <1> QED
    BY <1>3, <1>4, <1>5, <1>6

LEMMA XsgetnMirrors ==
    ASSUME NEW s, Good(s), Mirrors(s), s.got = <<>>, NEW n \in Nat, NEW o, o.wrote \in Nat
    PROVE  Mirrors(Xsgetn(s, n, o))
  BY GetSmallMirrors, GetDirectMirrors DEF Xsgetn

\* A putback marks the character it changes.
LEMMA PbackFailMirrors ==
    ASSUME NEW s, Good(s), Mirrors(s), NEW c
    PROVE  Mirrors(PbackFail(s, c))
  <1> DEFINE t == PbackFail(s, c)
             i == s.get.idx
  <1>1. CASE i = 0
    <2>1. t = Result(s, FALSE)
      BY <1>1 DEF PbackFail
    <2> QED
      BY <2>1, ResultMirrors
  <1>2. CASE i # 0
    <2>1. t.file = s.file /\ t.get.at = s.get.at /\ t.get.stale = s.get.stale
      BY <1>2, PbackFailIs
    <2>2. i \in 1..Len(s.get.chars) /\ s.get.chars \in Seq(Chars)
      BY <1>2 DEF Good, MemorySafe, GetInBlock, FileBufs, GetAreas
    <2>3. CASE PutsBackSame(s, c)
      <3>1. t.get.chars = s.get.chars /\ t.get.mod = s.get.mod
        BY <1>2, <2>3, PbackFailIs
      <3> HIDE DEF t
      <3>2. SameShow(s, t)
        BY <2>1, <3>1 DEF SameShow
      <3> QED
        BY <3>2, SameMirrors DEF t
    <2>4. CASE ~PutsBackSame(s, c)
      <3>1. t.get.chars = [s.get.chars EXCEPT ![i] = c[1]] /\ t.get.mod = s.get.mod \cup {i}
        BY <1>2, <2>4, PbackFailIs
      <3> HIDE DEF t, i
      <3>2. DOMAIN t.get.chars = DOMAIN s.get.chars /\ Len(t.get.chars) = Len(s.get.chars)
        BY <2>2, <3>1
      <3>3. \A j \in DOMAIN t.get.chars \ t.get.mod : t.get.chars[j] = s.get.chars[j]
        BY <2>2, <3>1
      <3>4. s.get.chars # <<>> /\ i \in DOMAIN s.get.chars
        BY <2>2
      <3>5. t.get.mod \subseteq DOMAIN t.get.chars
        BY <3>1, <3>2, <3>4 DEF Mirrors
      <3>6. ASSUME HasGet(t), ~t.get.stale
            PROVE  ShowsFile(t)
        <4>1. HasGet(s) /\ ~s.get.stale
          BY <2>1, <3>6 DEF HasGet
        <4>2. ShowsFile(s)
          BY <4>1 DEF Mirrors
        <4>3. t.file.pos - Len(t.get.chars) = s.file.pos - Len(s.get.chars)
          BY <2>1, <3>2
        <4>4. \A j \in DOMAIN t.get.chars \ t.get.mod : j \in DOMAIN s.get.chars \ s.get.mod
          BY <3>1, <3>2
        <4> QED
          BY <2>1, <3>3, <3>4, <4>2, <4>3, <4>4 DEF ShowsFile
      <3> QED
        BY <3>5, <3>6 DEF Mirrors, t
    <2> QED
      BY <2>3, <2>4
  <1> QED
    BY <1>1, <1>2

\* sync of an open file leaves no get area; of a closed one there is none.
LEMMA SyncMirrors ==
    ASSUME NEW s, Good(s), Mirrors(s), NEW o, o.wrote \in Nat
    PROVE  Sync(s, o).get = NoGet
  <1> DEFINE t == Overflow(s, <<>>, o)
  <1>1. CASE ~s.isOpen
    <2>1. s.get = NoGet
      BY <1>1, NoGetArea
    <2> QED
      BY <1>1, <2>1, ResultIs DEF Sync
  <1>2. CASE s.isOpen /\ HasPut(s)
    <2>1. CanWrite(s)
      BY <1>2 DEF Good, MemorySafe, AreasNeedFile
    <2>2. Good(t) /\ t.get = NoGet
      BY <2>1, OneCharType, OverflowGood, OverflowMirrors DEF Stored
    <2> HIDE DEF t
    <2>3. Flush(t, o).get = NoGet
      BY <2>2, FlushIs
    <2>4. Sync(s, o) = IF HasPrevWrite(s) THEN Flush(t, o) ELSE t
      BY <1>2 DEF Sync, SyncPut, t
    <2> QED
      BY <2>2, <2>3, <2>4
  <1>3. CASE s.isOpen /\ ~HasPut(s)
    BY <1>3, StopReadingIs DEF Sync
  <1> QED
    BY <1>1, <1>2, <1>3

LEMMA SeekOffMirrors ==
    ASSUME NEW s, Good(s), Mirrors(s), NEW off, NEW dir, NEW o, o.wrote \in Nat
    PROVE  Mirrors(SeekOff(s, off, dir, o))
  <1> DEFINE t == Sync(s, o)
             u == Reposition(t, Base(t, dir) + off, o)
  <1>1. Good(t) /\ t.get = NoGet
    BY SyncGood, SyncMirrors
  <1>2. u.get = NoGet
    <2> HIDE DEF t
    <2> QED
      BY <1>1, RepositionIs
  <1>3. SeekOff(s, off, dir, o) = IF ~s.isOpen THEN Result(s, FALSE) ELSE IF ~t.ok THEN t ELSE u
    BY DEF SeekOff
  <1>4. Mirrors(Result(s, FALSE)) /\ Mirrors(t) /\ Mirrors(u)
    BY <1>1, <1>2, ResultMirrors, NoGetMirrors
  <1> HIDE DEF t, u
  <1> QED
    BY <1>3, <1>4

\* close, open and setbuf leave no get area.
LEMMA CloseMirrors ==
    ASSUME NEW s, Good(s), NEW o, o.wrote \in Nat
    PROVE  Mirrors(Close(s, o))
  <1>1. CASE ~s.isOpen
    <2>1. s.get = NoGet
      BY <1>1, NoGetArea
    <2>2. Close(s, o) = Result(s, FALSE)
      BY <1>1 DEF Close
    <2>3. Result(s, FALSE).get = NoGet
      BY <2>1, ResultIs
    <2> QED
      BY <2>2, <2>3, NoGetMirrors
  <1>2. CASE s.isOpen
    BY <1>2, CloseIs, NoGetMirrors
  <1> QED
    BY <1>1, <1>2

LEMMA OpenMirrors ==
    ASSUME NEW s, Good(s), Mirrors(s), NEW m \in SUBSET Flags, NEW o
    PROVE  Mirrors(Open(s, m, o))
  <1> DEFINE t == [s EXCEPT !.file.errs = @ + 1, !.ok = FALSE]
  <1>1. Mirrors(Result(s, FALSE))
    BY ResultMirrors
  <1>2. ~s.isOpen => Mirrors(Opened(s, m, o))
    <2> SUFFICES ASSUME ~s.isOpen PROVE Mirrors(Opened(s, m, o))
      OBVIOUS
    <2>1. OpenedWell(s, m, "ate" \in m /\ o.fault = "end", Opened(s, m, o))
      BY OpenedIs
    <2>2. Opened(s, m, o).get = NoGet
      BY <2>1 DEF OpenedWell
    <2> QED
      BY <2>2, NoGetMirrors
  <1>3. ~s.isOpen => Mirrors(t)
    <2>1. s.get = t.get
      BY DEF Good, FileBufs
    <2> HIDE DEF t
    <2> QED
      BY <2>1, NoGetArea, NoGetMirrors
  <1>4. \/ Open(s, m, o) = Result(s, FALSE)
        \/ ~s.isOpen /\ (Open(s, m, o) = t \/ Open(s, m, o) = Opened(s, m, o))
    BY DEF Open
  <1> HIDE DEF t
  <1> QED
    BY <1>1, <1>2, <1>3, <1>4

LEMMA SetBufMirrors ==
    ASSUME NEW s, Good(s), NEW b \in UserBufs \cup {Null}, NEW n \in Nat
    PROVE  Mirrors(SetBuf(s, b, n))
  BY SetBufIs, NoGetMirrors
=============================================================================
