--------------------------- MODULE FileBufProofs ---------------------------
(***************************************************************************)
(* Proofs about FileBuf, for every value of its constants.                 *)
(***************************************************************************)
EXTENDS FileBuf, FileBufObjectProofs

----------------------------------------------------------------------------
\* The steps of the caller.

\* The members of the filebuf are in order at the start of a call.
LEMMA EntryGood ==
    ASSUME Good(fb)
    PROVE  Good(Entry) /\ Entry.got = <<>>
  BY GotClearedGood DEF Entry

Phases == {"free", "reading", "writing"}
Calls == {"none", "open", "close", "pubsetbuf", "pubsync", "pubseekoff", "sgetc",
          "sbumpc", "sgetn", "sungetc", "sputbackc", "sputc", "sputn"}

\* The inductive invariant: the types and the state of the memory together.
Inv == Good(fb) /\ phase \in Phases /\ call \in Calls

LEMMA InitInv == Init => Inv
  <1> SUFFICES ASSUME Init PROVE Inv
    OBVIOUS
  <1>1. PICK d \in Contents : fb = NewFileBuf(NewFile(d))
    BY DEF Init
  <1>2. d \in Seq(Chars)
    BY DataAssumption
  <1>3. Good(fb)
    BY <1>1, <1>2, NewFileType, NewFileBufGood
  <1> QED
    BY <1>3 DEF Init, Inv, Phases, Calls

\* A step keeps the invariant if the member function it applies yields a filebuf in order.
LEMMA StepInv ==
    ASSUME NEW s, Good(s), fb' = s, phase' \in Phases, call' \in Calls
    PROVE  Inv'
  <1>1. Good(fb)'
    BY DEF Good, MemorySafe, OwnsItsBlock, OneArea, GetInBlock, PutInBlock, AreasNeedFile,
           ClosedIsClean, BufferedIsBinary, FileBufs
  <1> QED
    BY <1>1 DEF Inv

LEMMA ReadsInv ==
    ASSUME Inv, NEW name \in Calls, NEW s, Good(s), Reads(name, s)
    PROVE  Inv'
  <1>1. fb' = s /\ call' \in Calls /\ phase' \in Phases
    BY DEF Reads, Inv, Phases
  <1> QED
    BY <1>1, StepInv

LEMMA WritesInv ==
    ASSUME Inv, NEW name \in Calls, NEW s, Good(s), Writes(name, s)
    PROVE  Inv'
  <1>1. fb' = s /\ call' \in Calls /\ phase' \in Phases
    BY DEF Writes, Inv, Phases
  <1> QED
    BY <1>1, StepInv

LEMMA NextInv == Inv /\ [Next]_vars => Inv'
  <1> SUFFICES ASSUME Inv, [Next]_vars PROVE Inv'
    OBVIOUS
  <1>0. Good(Entry) /\ Entry.got = <<>>
    BY EntryGood DEF Inv
  <1>1. CASE OpenFile
    <2>1. PICK m \in Modes, o \in Outcomes({"open", "end"}) :
              /\ fb' = Open(Entry, m, o)
              /\ phase' = IF fb'.ok THEN "free" ELSE phase
              /\ call' = "open"
      BY <1>1 DEF OpenFile
    <2>2. m \in SUBSET Flags
      BY ModesAssumption
    <2>3. Good(Open(Entry, m, o))
      BY <1>0, <2>2, OpenGood
    <2>4. phase' \in Phases /\ call' \in Calls
      BY <2>1 DEF Inv, Phases, Calls
    <2> QED
      BY <2>1, <2>3, <2>4, StepInv
  <1>2. CASE CloseFile
    <2>1. PICK o \in Outcomes(SyncCalls \cup {"close"}) :
              fb' = Close(Entry, o) /\ phase' = "free" /\ call' = "close"
      BY <1>2 DEF CloseFile
    <2>2. Good(Close(Entry, o))
      BY <1>0, OutcomeType, CloseGood
    <2>3. phase' \in Phases /\ call' \in Calls
      BY <2>1 DEF Phases, Calls
    <2> QED
      BY <2>1, <2>2, <2>3, StepInv
  <1>3. CASE Pubsetbuf
    <2>1. PICK b \in UserBufs \cup {Null}, n \in Sizes :
              fb' = SetBuf(Entry, b, n) /\ call' = "pubsetbuf" /\ phase' = phase
      BY <1>3 DEF Pubsetbuf
    <2>2. n \in Nat
      BY SizesAssumption
    <2>3. Good(SetBuf(Entry, b, n))
      BY <1>0, <2>2, SetBufGood
    <2>4. phase' \in Phases /\ call' \in Calls
      BY <2>1 DEF Inv, Phases, Calls
    <2> QED
      BY <2>1, <2>3, <2>4, StepInv
  <1>4. CASE Pubsync
    <2>1. PICK o \in Outcomes(SyncCalls) :
              /\ fb' = Sync(Entry, o)
              /\ phase' = IF phase = "writing" /\ fb'.ok THEN "free" ELSE phase
              /\ call' = "pubsync"
      BY <1>4 DEF Pubsync
    <2>2. Good(Sync(Entry, o))
      BY <1>0, OutcomeType, SyncGood
    <2>3. phase' \in Phases /\ call' \in Calls
      BY <2>1 DEF Inv, Phases, Calls
    <2> QED
      BY <2>1, <2>2, <2>3, StepInv
  <1>5. CASE Pubseekoff
    <2>1. PICK off \in Offsets, dir \in {"beg", "cur", "end"},
               o \in Outcomes(SyncCalls \cup {"position", "tell"}) :
              /\ fb' = SeekOff(Entry, off, dir, o)
              /\ phase' = IF fb'.ok THEN "free" ELSE phase
              /\ call' = "pubseekoff"
      BY <1>5 DEF Pubseekoff
    <2>2. off \in Int /\ o.wrote \in Nat
      BY DataAssumption, OutcomeType
    <2>3. Good(SeekOff(Entry, off, dir, o))
      BY <1>0, <2>2, SeekOffGood
    <2>4. phase' \in Phases /\ call' \in Calls
      BY <2>1 DEF Inv, Phases, Calls
    <2> QED
      BY <2>1, <2>3, <2>4, StepInv
  <1>6. CASE Sgetc
    <2>1. PICK o \in Outcomes({"write"}) : Reads("sgetc", PeekChar(Entry, o))
      BY <1>6 DEF Sgetc
    <2>2. Good(PeekChar(Entry, o)) /\ "sgetc" \in Calls
      BY <1>0, OutcomeType, PeekCharGood DEF Calls
    <2> QED
      BY <2>1, <2>2, ReadsInv
  <1>7. CASE Sbumpc
    <2>1. PICK o \in Outcomes({"write"}) : Reads("sbumpc", BumpChar(Entry, o))
      BY <1>7 DEF Sbumpc
    <2>2. Good(BumpChar(Entry, o)) /\ "sbumpc" \in Calls
      BY <1>0, OutcomeType, BumpCharGood DEF Calls
    <2> QED
      BY <2>1, <2>2, ReadsInv
  <1>8. CASE Sgetn
    <2>1. PICK n \in Counts, o \in Outcomes({"write"}) : Reads("sgetn", Xsgetn(Entry, n, o))
      BY <1>8 DEF Sgetn
    <2>2. n \in Nat
      BY DataAssumption
    <2>3. Good(Xsgetn(Entry, n, o)) /\ "sgetn" \in Calls
      BY <1>0, <2>2, OutcomeType, XsgetnGood DEF Calls
    <2> QED
      BY <2>1, <2>3, ReadsInv
  <1>9. CASE Sungetc
    <2>1. fb' = PbackFail(Entry, <<>>) /\ call' = "sungetc" /\ phase' = phase
      BY <1>9 DEF Sungetc
    <2>2. Good(PbackFail(Entry, <<>>))
      BY <1>0, OneCharType, PbackFailGood
    <2>3. phase' \in Phases /\ call' \in Calls
      BY <2>1 DEF Inv, Phases, Calls
    <2> QED
      BY <2>1, <2>2, <2>3, StepInv
  <1>10. CASE Sputbackc
    <2>1. PICK c \in Chars : fb' = PbackFail(Entry, <<c>>) /\ call' = "sputbackc" /\ phase' = phase
      BY <1>10 DEF Sputbackc
    <2>2. Good(PbackFail(Entry, <<c>>))
      BY <1>0, OneCharType, PbackFailGood
    <2>3. phase' \in Phases /\ call' \in Calls
      BY <2>1 DEF Inv, Phases, Calls
    <2> QED
      BY <2>1, <2>2, <2>3, StepInv
  <1>11. CASE Sputc
    <2>1. PICK c \in Chars, o \in Outcomes(OutputCalls) : Writes("sputc", PutChar(Entry, c, o))
      BY <1>11 DEF Sputc
    <2>2. Good(PutChar(Entry, c, o)) /\ "sputc" \in Calls
      BY <1>0, OutcomeType, PutCharGood DEF Calls
    <2> QED
      BY <2>1, <2>2, WritesInv
  <1>12. CASE Sputn
    <2>1. PICK w \in Strings, o \in Outcomes(OutputCalls) : Writes("sputn", Xsputn(Entry, w, o))
      BY <1>12 DEF Sputn
    <2>2. w \in Seq(Chars)
      BY DataAssumption
    <2>3. Good(Xsputn(Entry, w, o)) /\ "sputn" \in Calls
      BY <1>0, <2>2, OutcomeType, XsputnGood DEF Calls
    <2> QED
      BY <2>1, <2>3, WritesInv
  <1>13. CASE UNCHANGED vars
    <2>1. fb' = fb /\ phase' = phase /\ call' = call
      BY <1>13 DEF vars
    <2> QED
      BY <2>1, StepInv DEF Inv
  <1> QED
    BY <1>1, <1>2, <1>3, <1>4, <1>5, <1>6, <1>7, <1>8, <1>9, <1>10, <1>11, <1>12, <1>13 DEF Next

LEMMA InvAlways == Spec => []Inv
  BY InitInv, NextInv, PTL DEF Spec

\* Every member of the filebuf keeps the type its declaration gives it, whatever the file
\* holds, the sizes of the buffers, the lengths of the transfers and the C calls that fail.
THEOREM TypeCorrect == Spec => []TypeOK
  <1>1. Inv => TypeOK
    BY DEF Inv, Good, TypeOK, Phases, Calls
  <1> QED
    BY <1>1, InvAlways, PTL

\* No sequence of calls, of any length and with any C calls failing, makes a filebuf of any
\* buffer size access memory outside its block: the get and put areas stay inside the live
\* block, never coexist, and go when the block goes; the block from new[] is freed once.
THEOREM MemoryIsSafe == Spec => []MemorySafety
  <1>1. Inv => MemorySafety
    BY DEF Inv, Good, MemorySafety
  <1> QED
    BY <1>1, InvAlways, PTL

----------------------------------------------------------------------------
\* Failures are told to the caller.

\* What a call has made of Entry it has made of fb.
LEMMA EntryHonest ==
    ASSUME Good(fb), NEW s, Honest(Entry, s), fb' = s
    PROVE  Honest(fb, fb')
  <1>1. Entry.file = fb.file
    BY DEF Good, FileBufs, Entry
  <1> QED
    BY <1>1 DEF Honest

LEMMA NextHonest == Inv /\ Next => Honest(fb, fb')
  <1> SUFFICES ASSUME Inv, Next PROVE Honest(fb, fb')
    OBVIOUS
  <1>0. Good(Entry) /\ Entry.got = <<>>
    BY EntryGood DEF Inv
  <1>1. CASE OpenFile
    <2>1. PICK m \in Modes, o \in Outcomes({"open", "end"}) : fb' = Open(Entry, m, o)
      BY <1>1 DEF OpenFile
    <2>2. m \in SUBSET Flags
      BY ModesAssumption
    <2>3. Honest(Entry, Open(Entry, m, o))
      BY <1>0, <2>2, OpenHonest
    <2> QED
      BY <2>1, <2>3, EntryHonest DEF Inv
  <1>2. CASE CloseFile
    <2>1. PICK o \in Outcomes(SyncCalls \cup {"close"}) : fb' = Close(Entry, o)
      BY <1>2 DEF CloseFile
    <2>2. Honest(Entry, Close(Entry, o))
      BY <1>0, OutcomeType, CloseHonest
    <2> QED
      BY <2>1, <2>2, EntryHonest DEF Inv
  <1>3. CASE Pubsetbuf
    <2>1. PICK b \in UserBufs \cup {Null}, n \in Sizes : fb' = SetBuf(Entry, b, n)
      BY <1>3 DEF Pubsetbuf
    <2>2. Honest(Entry, SetBuf(Entry, b, n))
      BY <1>0, SetBufHonest
    <2> QED
      BY <2>1, <2>2, EntryHonest DEF Inv
  <1>4. CASE Pubsync
    <2>1. PICK o \in Outcomes(SyncCalls) : fb' = Sync(Entry, o)
      BY <1>4 DEF Pubsync
    <2>2. Honest(Entry, Sync(Entry, o))
      BY <1>0, OutcomeType, SyncHonest
    <2> QED
      BY <2>1, <2>2, EntryHonest DEF Inv
  <1>5. CASE Pubseekoff
    <2>1. PICK off \in Offsets, dir \in {"beg", "cur", "end"},
               o \in Outcomes(SyncCalls \cup {"position", "tell"}) :
              fb' = SeekOff(Entry, off, dir, o)
      BY <1>5 DEF Pubseekoff
    <2>2. Honest(Entry, SeekOff(Entry, off, dir, o))
      BY <1>0, OutcomeType, SeekOffHonest
    <2> QED
      BY <2>1, <2>2, EntryHonest DEF Inv
  <1>6. CASE Sgetc
    <2>1. PICK o \in Outcomes({"write"}) : fb' = PeekChar(Entry, o)
      BY <1>6 DEF Sgetc, Reads
    <2>2. Honest(Entry, PeekChar(Entry, o))
      BY <1>0, OutcomeType, PeekCharHonest
    <2> QED
      BY <2>1, <2>2, EntryHonest DEF Inv
  <1>7. CASE Sbumpc
    <2>1. PICK o \in Outcomes({"write"}) : fb' = BumpChar(Entry, o)
      BY <1>7 DEF Sbumpc, Reads
    <2>2. Honest(Entry, BumpChar(Entry, o))
      BY <1>0, OutcomeType, BumpCharHonest
    <2> QED
      BY <2>1, <2>2, EntryHonest DEF Inv
  <1>8. CASE Sgetn
    <2>1. PICK n \in Counts, o \in Outcomes({"write"}) : fb' = Xsgetn(Entry, n, o)
      BY <1>8 DEF Sgetn, Reads
    <2>2. n \in Nat
      BY DataAssumption
    <2>3. Honest(Entry, Xsgetn(Entry, n, o))
      BY <1>0, <2>2, OutcomeType, XsgetnHonest
    <2> QED
      BY <2>1, <2>3, EntryHonest DEF Inv
  <1>9. CASE Sungetc \/ Sputbackc
    <2>1. PICK c : fb' = PbackFail(Entry, c)
      BY <1>9 DEF Sungetc, Sputbackc
    <2>2. Honest(Entry, PbackFail(Entry, c))
      BY <1>0, PbackFailHonest
    <2> QED
      BY <2>1, <2>2, EntryHonest DEF Inv
  <1>10. CASE Sputc
    <2>1. PICK c \in Chars, o \in Outcomes(OutputCalls) : fb' = PutChar(Entry, c, o)
      BY <1>10 DEF Sputc, Writes
    <2>2. Honest(Entry, PutChar(Entry, c, o))
      BY <1>0, OutcomeType, PutCharHonest
    <2> QED
      BY <2>1, <2>2, EntryHonest DEF Inv
  <1>11. CASE Sputn
    <2>1. PICK w \in Strings, o \in Outcomes(OutputCalls) : fb' = Xsputn(Entry, w, o)
      BY <1>11 DEF Sputn, Writes
    <2>2. w \in Seq(Chars)
      BY DataAssumption
    <2>3. Honest(Entry, Xsputn(Entry, w, o))
      BY <1>0, <2>2, OutcomeType, XsputnHonest
    <2> QED
      BY <2>1, <2>3, EntryHonest DEF Inv
  <1> QED
    BY <1>1, <1>2, <1>3, <1>4, <1>5, <1>6, <1>7, <1>8, <1>9, <1>10, <1>11 DEF Next

\* Whatever fails underneath - fwrite, fputc, fseek, ftell, fflush, fclose, fopen - in whatever
\* function and state of the buffer, the call that met the failure does not claim success.
THEOREM ErrorsAreReported == Spec => ErrorsReported
  <1>1. Inv /\ [Next]_vars => [fb'.file.errs > fb.file.errs => ~fb'.ok]_vars
    <2> SUFFICES ASSUME Inv, Next, fb'.file.errs > fb.file.errs PROVE ~fb'.ok
      OBVIOUS
    <2>1. Honest(fb, fb')
      BY NextHonest
    <2>2. fb.file.errs \in Nat
      BY DEF Inv, Good, FileBufs, CFiles
    <2>3. fb'.file.errs # fb.file.errs
      BY <2>2
    <2> QED
      BY <2>1, <2>3 DEF Honest
  <1> QED
    BY <1>1, InvAlways, PTL DEF Spec, ErrorsReported

----------------------------------------------------------------------------
\* The get area mirrors the file.

\* What reads ahead shows is where it belongs: none of it is left once the stream was read
\* past it.
InPlace(s) == Mirrors(s) /\ (s.get.stale => Unread(s) = 0)

LEMMA NoGetIsEmpty ==
    ASSUME NEW s, Good(s)
    PROVE  /\ ~HasGet(s) => s.get = NoGet
           /\ s.get = NoGet => Unread(s) = 0 /\ ~HasGet(s)
           /\ HasPut(s) => ~HasGet(s) /\ s.isOpen /\ CanWrite(s)
           /\ HasGet(s) => ~HasPut(s) /\ s.isOpen /\ CanRead(s)
           /\ ~HasPut(s) => s.put = NoPut /\ Pending(s) = 0 /\ s.put.room = 0
  BY DEF Good, MemorySafe, GetInBlock, PutInBlock, OneArea, AreasNeedFile, HasGet, HasPut,
         Unread, Pending, NoGet, NoPut

LEMMA NoGetInPlace ==
    ASSUME NEW s, Good(s), ~HasGet(s)
    PROVE  InPlace(s)
  <1>1. s.get = NoGet
    BY NoGetIsEmpty
  <1>2. s.get.stale = FALSE /\ s.get.mod = {}
    BY <1>1 DEF NoGet
  <1> QED
    BY <1>2 DEF InPlace, Mirrors

LEMMA SameInPlace ==
    ASSUME NEW s, InPlace(s), NEW t, t.get = s.get, t.file.data = s.file.data,
           t.file.pos = s.file.pos
    PROVE  InPlace(t)
  BY DEF InPlace, Mirrors, ShowsFile, HasGet, Unread

\* Output leaves the get area as it is, or drops it.
KeepsGet(s, t) == t.get = s.get \/ t.get = NoGet

LEMMA KeepsInPlace ==
    ASSUME NEW s, InPlace(s), NEW t, Mirrors(t), KeepsGet(s, t)
    PROVE  InPlace(t)
  <1>1. t.get = NoGet => Unread(t) = 0
    BY DEF NoGet, Unread
  <1>2. t.get = s.get => Unread(t) = Unread(s)
    BY DEF Unread
  <1> QED
    BY <1>1, <1>2 DEF InPlace, KeepsGet

LEMMA OverflowKeepsGet ==
    ASSUME NEW s, Good(s), Mirrors(s), NEW c \in OneChar, NEW o, o.wrote \in Nat
    PROVE  KeepsGet(s, Overflow(s, c, o))
  <1>1. CASE CanWrite(s)
    BY <1>1, OverflowMirrors DEF KeepsGet
  <1>2. CASE ~CanWrite(s)
    <2>1. Overflow(s, c, o) = Result(s, FALSE)
      BY <1>2 DEF Overflow
    <2>2. Result(s, FALSE).get = s.get
      BY ResultIs
    <2> QED
      BY <2>1, <2>2 DEF KeepsGet
  <1> QED
    BY <1>1, <1>2

LEMMA PutCharInPlace ==
    ASSUME NEW s, Good(s), InPlace(s), NEW c \in Chars, NEW o, o.wrote \in Nat
    PROVE  InPlace(PutChar(s, c, o))
  <1>1. Mirrors(s) /\ <<c>> \in OneChar
    BY OneCharType DEF InPlace
  <1>2. KeepsGet(s, Store(s, <<c>>)) /\ KeepsGet(s, Overflow(s, <<c>>, o))
    BY <1>1, StoreIs, OverflowKeepsGet DEF KeepsGet
  <1>3. KeepsGet(s, PutChar(s, c, o))
    BY <1>2 DEF PutChar
  <1>4. Good(PutChar(s, c, o)) /\ Mirrors(PutChar(s, c, o))
    BY <1>1, PutCharGood, PutCharMirrors
  <1> QED
    BY <1>3, <1>4, KeepsInPlace

LEMMA PutSmallKeepsGet ==
    ASSUME NEW s, Good(s), Mirrors(s), NEW w \in Seq(Chars), Len(w) <= s.size,
           NEW o, o.wrote \in Nat
    PROVE  KeepsGet(s, PutSmall(s, w, o))
  <1> DEFINE r == Least(s.put.room, Len(w))
             x == SubSeq(w, 1, r)
             t == Store(s, x)
             c == <<w[r + 1]>>
             u == Overflow(t, c, o)
             y == SubSeq(w, r + 2, Len(w))
  <1>1. PutSmall(s, w, o) = IF r = Len(w) THEN t ELSE IF ~u.ok THEN u ELSE Store(u, y)
    BY DEF PutSmall
  <1>2. s.put.room \in Nat /\ Len(w) \in Nat
    BY DEF Good, FileBufs, PutAreas
  <1>3. r \in Nat /\ r <= Len(w) /\ r <= s.put.room
    BY <1>2 DEF Least
  <1> HIDE DEF r
  <1>4. x \in Seq(Chars) /\ Len(x) <= s.put.room
    BY <1>2, <1>3
  <1> HIDE DEF x
  <1>5. Good(t) /\ Mirrors(t) /\ t.get = s.get
    BY <1>4, StoreGood, StoreMirrors, StoreIs
  <1> HIDE DEF t
  <1>6. ASSUME r # Len(w)
        PROVE  Good(u) /\ KeepsGet(s, u) /\ KeepsGet(s, Store(u, y))
    <2>1. w[r + 1] \in Chars
      BY <1>2, <1>3, <1>6
    <2>2. c \in OneChar
      BY <2>1, OneCharType
    <2> HIDE DEF c
    <2>3. Good(u) /\ KeepsGet(t, u)
      BY <1>5, <2>2, OverflowGood, OverflowKeepsGet DEF Stored
    <2> HIDE DEF u, y
    <2>4. Store(u, y).get = u.get
      BY <2>3, StoreIs
    <2> QED
      BY <1>5, <2>3, <2>4 DEF KeepsGet
  <1>7. KeepsGet(s, t)
    BY <1>5 DEF KeepsGet
  <1> HIDE DEF u, y
  <1> QED
    BY <1>1, <1>6, <1>7

LEMMA PutDirectKeepsGet ==
    ASSUME NEW s, Good(s), NEW w \in Seq(Chars), NEW o, o.wrote \in Nat
    PROVE  KeepsGet(s, PutDirect(s, w, o))
  <1> DEFINE t == StopReading(s, o)
             u == DrainPut(t, o)
             v == WriteThrough(u, w, o)
  <1>1. Good(t) /\ t.get = NoGet
    BY StopReadingGood
  <1>2. Result(s, FALSE).get = s.get
    BY ResultIs
  <1>3. PutDirect(s, w, o) = IF ~CanWrite(s) THEN Result(s, FALSE) ELSE IF ~t.ok THEN t
                             ELSE IF ~u.ok THEN u ELSE v
    BY DEF PutDirect
  <1> HIDE DEF t
  <1>4. Good(u) /\ u.get = NoGet
    BY <1>1, DrainPutGood
  <1> HIDE DEF u
  <1>5. v.get = NoGet
    BY <1>4, WriteThroughIs
  <1> HIDE DEF v
  <1> QED
    BY <1>1, <1>2, <1>3, <1>4, <1>5 DEF KeepsGet

LEMMA XsputnInPlace ==
    ASSUME NEW s, Good(s), InPlace(s), NEW w \in Seq(Chars), NEW o, o.wrote \in Nat
    PROVE  InPlace(Xsputn(s, w, o))
  <1>1. Mirrors(s)
    BY DEF InPlace
  <1>2. KeepsGet(s, Xsputn(s, w, o))
    BY <1>1, PutSmallKeepsGet, PutDirectKeepsGet DEF Xsputn
  <1>3. Good(Xsputn(s, w, o)) /\ Mirrors(Xsputn(s, w, o))
    BY <1>1, XsputnGood, XsputnMirrors
  <1> QED
    BY <1>2, <1>3, KeepsInPlace

\* Positioning, opening, closing and setbuf drop the get area, unless they refuse.
LEMMA SeekOffKeepsGet ==
    ASSUME NEW s, Good(s), Mirrors(s), NEW off, NEW dir, NEW o, o.wrote \in Nat
    PROVE  KeepsGet(s, SeekOff(s, off, dir, o))
  <1> DEFINE t == Sync(s, o)
             u == Reposition(t, Base(t, dir) + off, o)
  <1>1. Good(t) /\ t.get = NoGet
    BY SyncGood, SyncMirrors
  <1>2. u.get = NoGet
    <2> HIDE DEF t
    <2> QED
      BY <1>1, RepositionIs
  <1>3. Result(s, FALSE).get = s.get
    BY ResultIs
  <1>4. SeekOff(s, off, dir, o) = IF ~s.isOpen THEN Result(s, FALSE) ELSE IF ~t.ok THEN t ELSE u
    BY DEF SeekOff
  <1> HIDE DEF t, u
  <1> QED
    BY <1>1, <1>2, <1>3, <1>4 DEF KeepsGet

LEMMA CloseKeepsGet ==
    ASSUME NEW s, Good(s), NEW o, o.wrote \in Nat
    PROVE  KeepsGet(s, Close(s, o))
  <1>1. CASE ~s.isOpen
    <2>1. Close(s, o) = Result(s, FALSE)
      BY <1>1 DEF Close
    <2>2. Result(s, FALSE).get = s.get
      BY ResultIs
    <2> QED
      BY <2>1, <2>2 DEF KeepsGet
  <1>2. CASE s.isOpen
    BY <1>2, CloseIs DEF KeepsGet
  <1> QED
    BY <1>1, <1>2

LEMMA OpenKeepsGet ==
    ASSUME NEW s, Good(s), NEW m \in SUBSET Flags, NEW o
    PROVE  KeepsGet(s, Open(s, m, o))
  <1> DEFINE t == [s EXCEPT !.file.errs = @ + 1, !.ok = FALSE]
  <1>1. Result(s, FALSE).get = s.get
    BY ResultIs
  <1>2. ~s.isOpen => Opened(s, m, o).get = NoGet
    <2> SUFFICES ASSUME ~s.isOpen PROVE Opened(s, m, o).get = NoGet
      OBVIOUS
    <2>1. OpenedWell(s, m, "ate" \in m /\ o.fault = "end", Opened(s, m, o))
      BY OpenedIs
    <2> QED
      BY <2>1 DEF OpenedWell
  <1>3. t.get = s.get
    BY DEF Good, FileBufs
  <1>4. \/ Open(s, m, o) = Result(s, FALSE)
        \/ ~s.isOpen /\ (Open(s, m, o) = t \/ Open(s, m, o) = Opened(s, m, o))
    BY DEF Open
  <1> HIDE DEF t
  <1> QED
    BY <1>1, <1>2, <1>3, <1>4 DEF KeepsGet

\* Taking what is unread leaves a get area that was read past with nothing unread.
LEMMA TakeUpToInPlace ==
    ASSUME NEW s, Good(s), InPlace(s), NEW n \in Nat
    PROVE  LET t == TakeUpTo(s, n)
           IN /\ Good(t) /\ InPlace(t)
              /\ Len(t.got) = Len(s.got) + Least(n, Unread(s))
              /\ Unread(t) = Unread(s) - Least(n, Unread(s))
  <1> DEFINE k == Least(n, Unread(s))
             t == Take(s, k)
  <1>1. Unread(s) \in Nat
    BY UnreadType
  <1>2. k \in Nat /\ k <= Unread(s)
    BY <1>1 DEF Least
  <1>3. TakeUpTo(s, n) = t
    BY DEF TakeUpTo
  <1> HIDE DEF k
  <1>4. Good(t) /\ Len(t.got) = Len(s.got) + k
    BY <1>2, TakeGood
  <1>5. Mirrors(t)
    BY TakeMirrors DEF InPlace
  <1>6. t.get.chars = s.get.chars /\ t.get.stale = s.get.stale /\ t.get.idx = s.get.idx + k
    BY TakeIs
  <1>7. s.get.idx \in Nat /\ s.get.chars \in Seq(Chars)
    BY DEF Good, FileBufs, GetAreas
  <1> HIDE DEF t
  <1>8. Unread(t) = Unread(s) - k
    BY <1>2, <1>6, <1>7 DEF Unread
  <1>9. t.get.stale => Unread(t) = 0
    BY <1>1, <1>2, <1>6, <1>8 DEF InPlace
  <1> QED
    BY <1>3, <1>4, <1>5, <1>8, <1>9 DEF InPlace, k

\* A refill replaces the get area, or meets the end of the file and leaves it as it is.
LEMMA UnderflowInPlace ==
    ASSUME NEW s, Good(s), InPlace(s), NEW o, o.wrote \in Nat
    PROVE  InPlace(Underflow(s, o))
  <1> DEFINE t == StopWriting(s, o)
             u == MakeBuffer(t)
             z == Underflow(s, o)
  <1>1. Good(t) /\ t.get = s.get
    BY StopWritingGood, StopWritingIs
  <1>2. Mirrors(z)
    BY UnderflowMirrors DEF InPlace
  <1>3. CanRead(s) => s.isOpen
    BY DEF Good, MemorySafe, ClosedIsClean, CanRead
  <1>4. z = IF ~CanRead(s) THEN Result(s, FALSE) ELSE IF ~t.ok THEN t
            ELSE IF s.unbuffered THEN FillLast(t) ELSE FillBuffer(u)
    BY DEF Underflow
  <1>5. Result(s, FALSE).get = s.get
    BY ResultIs
  <1>6. t.isOpen = s.isOpen
    BY StopWritingIs DEF SameShell
  <1> HIDE DEF t, z
  <1>7. FillLast(t).get = s.get \/ FillLast(t).get.stale = FALSE
    <2>1. FillLast(t).get = IF BytesRead(t.file, 1) = <<>> THEN t.get
                            ELSE GetArea(Last, BytesRead(t.file, 1))
      BY <1>1, FillLastIs
    <2>2. GetArea(Last, BytesRead(t.file, 1)).stale = FALSE
      BY DEF GetArea
    <2> QED
      BY <1>1, <2>1, <2>2
  <1>8. s.isOpen => FillBuffer(u).get.stale = FALSE
    <2> SUFFICES ASSUME s.isOpen PROVE FillBuffer(u).get.stale = FALSE
      OBVIOUS
    <2>1. Good(u)
      BY <1>1, <1>6, MakeBufferGood
    <2> HIDE DEF u
    <2>2. FillBuffer(u).get = GetArea(u.mem, BytesRead(u.file, u.size))
      BY <2>1, FillBufferIs
    <2>3. GetArea(u.mem, BytesRead(u.file, u.size)).stale = FALSE
      BY DEF GetArea
    <2> QED
      BY <2>2, <2>3
  <1> HIDE DEF u
  <1>9. z.get = s.get \/ z.get.stale = FALSE
    BY <1>1, <1>3, <1>4, <1>5, <1>7, <1>8
  <1>10. z.get.stale => Unread(z) = 0
    BY <1>9 DEF InPlace, Unread
  <1> QED
    BY <1>2, <1>10 DEF InPlace, z

LEMMA RefillInPlace ==
    ASSUME NEW s, Good(s), InPlace(s), NEW o, o.wrote \in Nat
    PROVE  InPlace(Refill(s, o))
  <1>1. Result(s, TRUE).get = s.get /\ Result(s, TRUE).file = s.file
    BY ResultIs
  <1>2. InPlace(Result(s, TRUE))
    BY <1>1, SameInPlace
  <1>3. InPlace(Underflow(s, o))
    BY UnderflowInPlace
  <1> QED
    BY <1>2, <1>3 DEF Refill

LEMMA PeekCharInPlace ==
    ASSUME NEW s, Good(s), InPlace(s), NEW o, o.wrote \in Nat
    PROVE  InPlace(PeekChar(s, o))
  <1> DEFINE t == Refill(s, o)
             u == [t EXCEPT !.got = <<t.get.chars[t.get.idx + 1]>>]
  <1>1. Good(t) /\ InPlace(t)
    BY RefillGood, RefillInPlace
  <1>2. PeekChar(s, o) = IF t.ok THEN u ELSE t
    BY DEF PeekChar
  <1> HIDE DEF t
  <1>3. u.get = t.get /\ u.file = t.file
    BY <1>1 DEF Good, FileBufs
  <1> HIDE DEF u
  <1>4. InPlace(u)
    BY <1>1, <1>3, SameInPlace
  <1> QED
    BY <1>1, <1>2, <1>4

LEMMA BumpCharInPlace ==
    ASSUME NEW s, Good(s), InPlace(s), NEW o, o.wrote \in Nat
    PROVE  InPlace(BumpChar(s, o))
  <1> DEFINE t == Refill(s, o)
  <1>1. Good(t) /\ InPlace(t) /\ (t.ok = TRUE => Unread(t) > 0)
    BY RefillGood, RefillInPlace
  <1>2. BumpChar(s, o) = IF t.ok THEN Take(t, 1) ELSE t
    BY DEF BumpChar
  <1> HIDE DEF t
  <1>3. Unread(t) \in Nat /\ t.ok \in BOOLEAN
    BY <1>1, UnreadType
  <1>4. t.ok => TakeUpTo(t, 1) = Take(t, 1)
    <2>1. t.ok => Least(1, Unread(t)) = 1
      BY <1>1, <1>3 DEF Least
    <2> QED
      BY <2>1 DEF TakeUpTo
  <1>5. InPlace(TakeUpTo(t, 1))
    BY <1>1, TakeUpToInPlace
  <1> QED
    BY <1>1, <1>2, <1>4, <1>5

LEMMA GetSmallInPlace ==
    ASSUME NEW s, Good(s), InPlace(s), s.got = <<>>, NEW n \in Nat, NEW o, o.wrote \in Nat
    PROVE  InPlace(GetSmall(s, n, o))
  <1> DEFINE t == TakeUpTo(s, n)
             u == Underflow(t, o)
             v == TakeUpTo(u, n - Len(t.got))
  <1>1. Good(t) /\ InPlace(t) /\ n - Len(t.got) \in Nat
    <2>1. Good(t) /\ Len(t.got) \in Nat /\ Len(t.got) <= Len(s.got) + n
      BY TakeUpToGood
    <2>2. InPlace(t)
      BY TakeUpToInPlace
    <2> QED
      BY <2>1, <2>2
  <1> HIDE DEF t
  <1>2. Good(u) /\ InPlace(u)
    BY <1>1, UnderflowGood, UnderflowInPlace
  <1> HIDE DEF u
  <1>3. Good(v) /\ InPlace(v)
    BY <1>1, <1>2, TakeUpToInPlace
  <1>4. GetSmall(s, n, o) = IF Len(t.got) = n THEN t ELSE IF ~u.ok THEN u
                            ELSE IF Len(v.got) = n THEN v ELSE Underflow(v, o)
    BY DEF GetSmall, t, u
  <1> HIDE DEF v
  <1>5. InPlace(Underflow(v, o))
    BY <1>3, UnderflowInPlace
  <1> QED
    BY <1>1, <1>2, <1>3, <1>4, <1>5

\* The stream is read past the get area only once nothing is left in it.
LEMMA GetDirectInPlace ==
    ASSUME NEW s, Good(s), InPlace(s), s.got = <<>>, NEW n \in Nat, NEW o, o.wrote \in Nat
    PROVE  InPlace(GetDirect(s, n, o))
  <1> DEFINE t == StopWriting(s, o)
             u == TakeUpTo(t, n)
             v == [u EXCEPT !.ok = t.ok]
             z == ReadThrough(u, n - Len(u.got))
  <1>1. Good(t) /\ t.get = s.get /\ t.got = <<>> /\ InPlace(t) /\ t.ok \in BOOLEAN
    <2>1. Good(t) /\ t.get = s.get /\ t.got = <<>>
      BY StopWritingGood, StopWritingIs
    <2>2. Mirrors(t)
      BY StopWritingMirrors DEF InPlace
    <2> HIDE DEF t
    <2>3. InPlace(t)
      BY <2>1, <2>2, KeepsInPlace DEF KeepsGet
    <2> QED
      BY <2>1, <2>3, UnreadType
  <1> HIDE DEF t
  <1>2. /\ Good(u) /\ InPlace(u)
        /\ Len(u.got) = Least(n, Unread(t)) /\ Unread(u) = Unread(t) - Least(n, Unread(t))
    <2>1. Len(t.got) = 0
      BY <1>1
    <2>2. Unread(t) \in Nat
      BY <1>1, UnreadType
    <2>3. Least(n, Unread(t)) \in Nat
      BY <2>2 DEF Least
    <2> HIDE DEF u
    <2>4. /\ Good(u) /\ InPlace(u) /\ Len(u.got) = Len(t.got) + Least(n, Unread(t))
          /\ Unread(u) = Unread(t) - Least(n, Unread(t))
      BY <1>1, TakeUpToInPlace DEF u
    <2> QED
      BY <2>1, <2>3, <2>4
  <1>3. n - Len(u.got) \in Nat /\ (Len(u.got) # n => Unread(u) = 0)
    <2>1. Unread(t) \in Nat
      BY <1>1, UnreadType
    <2> HIDE DEF u
    <2> QED
      BY <1>2, <2>1 DEF Least
  <1> HIDE DEF u
  <1>4. InPlace(v)
    <2>1. v = Result(u, t.ok)
      BY DEF Result
    <2>2. v.get = u.get /\ v.file = u.file
      BY <1>2, <2>1, ResultIs
    <2> HIDE DEF v
    <2> QED
      BY <1>2, <2>2, SameInPlace
  <1>5. Len(u.got) # n => InPlace(z)
    <2>1. z.get.chars = u.get.chars /\ z.get.idx = u.get.idx
      BY <1>2, ReadThroughIs
    <2>2. Mirrors(z)
      BY <1>2, <1>3, ReadThroughMirrors DEF InPlace
    <2> HIDE DEF z
    <2>3. Unread(z) = Unread(u)
      BY <2>1 DEF Unread
    <2> QED
      BY <1>3, <2>2, <2>3 DEF InPlace
  <1>6. InPlace(Result(s, FALSE))
    <2>1. Result(s, FALSE).get = s.get /\ Result(s, FALSE).file = s.file
      BY ResultIs
    <2> QED
      BY <2>1, SameInPlace
  <1>7. GetDirect(s, n, o) = IF ~CanRead(s) THEN Result(s, FALSE)
                             ELSE IF ~t.ok \/ Len(u.got) = n THEN v ELSE z
    BY DEF GetDirect, t, u
  <1> HIDE DEF v, z
  <1> QED
    BY <1>4, <1>5, <1>6, <1>7

LEMMA XsgetnInPlace ==
    ASSUME NEW s, Good(s), InPlace(s), s.got = <<>>, NEW n \in Nat, NEW o, o.wrote \in Nat
    PROVE  InPlace(Xsgetn(s, n, o))
  BY GetSmallInPlace, GetDirectInPlace DEF Xsgetn

\* A putback gives a character back only to an area the stream was not read past.
LEMMA PbackFailInPlace ==
    ASSUME NEW s, Good(s), InPlace(s), ~s.get.stale, NEW c
    PROVE  InPlace(PbackFail(s, c))
  <1> DEFINE t == PbackFail(s, c)
  <1>1. Mirrors(t)
    BY PbackFailMirrors DEF InPlace
  <1>2. ~t.get.stale
    <2>1. s.get.idx = 0 => t = Result(s, FALSE)
      BY DEF PbackFail
    <2>2. Result(s, FALSE).get = s.get
      BY ResultIs
    <2>3. s.get.idx # 0 => t.get.stale = s.get.stale
      BY PbackFailIs
    <2> HIDE DEF t
    <2> QED
      BY <2>1, <2>2, <2>3
  <1> QED
    BY <1>1, <1>2 DEF InPlace

LEMMA StepInPlace ==
    ASSUME NEW s, fb' = s, InPlace(s)
    PROVE  InPlace(fb)'
  BY DEF InPlace, Mirrors, ShowsFile, HasGet, Unread

LEMMA EntryInPlace ==
    ASSUME Good(fb), InPlace(fb)
    PROVE  InPlace(Entry) /\ Entry.get = fb.get
  <1>1. Entry.get = fb.get /\ Entry.file = fb.file
    BY DEF Entry, Good, FileBufs
  <1> QED
    BY <1>1, SameInPlace

LEMMA NextInPlace ==
    ASSUME ~UngetDirect, Inv, InPlace(fb), [Next]_vars
    PROVE  InPlace(fb)'
  <1>0. Good(Entry) /\ Entry.got = <<>> /\ InPlace(Entry) /\ Mirrors(Entry) /\ Entry.get = fb.get
    BY EntryGood, EntryInPlace DEF Inv, InPlace
  <1>1. CASE OpenFile
    <2>1. PICK m \in Modes, o \in Outcomes({"open", "end"}) : fb' = Open(Entry, m, o)
      BY <1>1 DEF OpenFile
    <2>2. m \in SUBSET Flags
      BY ModesAssumption
    <2>3. InPlace(Open(Entry, m, o))
      BY <1>0, <2>2, OpenKeepsGet, OpenMirrors, KeepsInPlace
    <2> QED
      BY <2>1, <2>3, StepInPlace
  <1>2. CASE CloseFile
    <2>1. PICK o \in Outcomes(SyncCalls \cup {"close"}) : fb' = Close(Entry, o)
      BY <1>2 DEF CloseFile
    <2>2. InPlace(Close(Entry, o))
      BY <1>0, OutcomeType, CloseKeepsGet, CloseMirrors, KeepsInPlace
    <2> QED
      BY <2>1, <2>2, StepInPlace
  <1>3. CASE Pubsetbuf
    <2>1. PICK b \in UserBufs \cup {Null}, n \in Sizes : fb' = SetBuf(Entry, b, n)
      BY <1>3 DEF Pubsetbuf
    <2>2. n \in Nat
      BY SizesAssumption
    <2>3. SetBuf(Entry, b, n).get = NoGet
      BY <1>0, <2>2, SetBufIs
    <2>4. InPlace(SetBuf(Entry, b, n))
      BY <1>0, <2>2, <2>3, SetBufMirrors, KeepsInPlace DEF KeepsGet
    <2> QED
      BY <2>1, <2>4, StepInPlace
  <1>4. CASE Pubsync
    <2>1. PICK o \in Outcomes(SyncCalls) : fb' = Sync(Entry, o)
      BY <1>4 DEF Pubsync
    <2>2. Sync(Entry, o).get = NoGet
      BY <1>0, OutcomeType, SyncMirrors
    <2>3. InPlace(Sync(Entry, o))
      BY <1>0, <2>2, NoGetMirrors, KeepsInPlace DEF KeepsGet
    <2> QED
      BY <2>1, <2>3, StepInPlace
  <1>5. CASE Pubseekoff
    <2>1. PICK off \in Offsets, dir \in {"beg", "cur", "end"},
               o \in Outcomes(SyncCalls \cup {"position", "tell"}) :
              fb' = SeekOff(Entry, off, dir, o)
      BY <1>5 DEF Pubseekoff
    <2>2. InPlace(SeekOff(Entry, off, dir, o))
      BY <1>0, OutcomeType, SeekOffKeepsGet, SeekOffMirrors, KeepsInPlace
    <2> QED
      BY <2>1, <2>2, StepInPlace
  <1>6. CASE Sgetc
    <2>1. PICK o \in Outcomes({"write"}) : fb' = PeekChar(Entry, o)
      BY <1>6 DEF Sgetc, Reads
    <2>2. InPlace(PeekChar(Entry, o))
      BY <1>0, OutcomeType, PeekCharInPlace
    <2> QED
      BY <2>1, <2>2, StepInPlace
  <1>7. CASE Sbumpc
    <2>1. PICK o \in Outcomes({"write"}) : fb' = BumpChar(Entry, o)
      BY <1>7 DEF Sbumpc, Reads
    <2>2. InPlace(BumpChar(Entry, o))
      BY <1>0, OutcomeType, BumpCharInPlace
    <2> QED
      BY <2>1, <2>2, StepInPlace
  <1>8. CASE Sgetn
    <2>1. PICK n \in Counts, o \in Outcomes({"write"}) : fb' = Xsgetn(Entry, n, o)
      BY <1>8 DEF Sgetn, Reads
    <2>2. n \in Nat
      BY DataAssumption
    <2>3. InPlace(Xsgetn(Entry, n, o))
      BY <1>0, <2>2, OutcomeType, XsgetnInPlace
    <2> QED
      BY <2>1, <2>3, StepInPlace
  <1>9. CASE Sungetc \/ Sputbackc
    <2>1. PICK c : fb' = PbackFail(Entry, c)
      BY <1>9 DEF Sungetc, Sputbackc
    <2>2. ~Entry.get.stale
      BY <1>0, <1>9 DEF Sungetc, Sputbackc, MayUnget
    <2>3. InPlace(PbackFail(Entry, c))
      BY <1>0, <2>2, PbackFailInPlace
    <2> QED
      BY <2>1, <2>3, StepInPlace
  <1>10. CASE Sputc
    <2>1. PICK c \in Chars, o \in Outcomes(OutputCalls) : fb' = PutChar(Entry, c, o)
      BY <1>10 DEF Sputc, Writes
    <2>2. InPlace(PutChar(Entry, c, o))
      BY <1>0, OutcomeType, PutCharInPlace
    <2> QED
      BY <2>1, <2>2, StepInPlace
  <1>11. CASE Sputn
    <2>1. PICK w \in Strings, o \in Outcomes(OutputCalls) : fb' = Xsputn(Entry, w, o)
      BY <1>11 DEF Sputn, Writes
    <2>2. w \in Seq(Chars)
      BY DataAssumption
    <2>3. InPlace(Xsputn(Entry, w, o))
      BY <1>0, <2>2, OutcomeType, XsputnInPlace
    <2> QED
      BY <2>1, <2>3, StepInPlace
  <1>12. CASE UNCHANGED vars
    <2>1. fb' = fb
      BY <1>12 DEF vars
    <2> QED
      BY <2>1, StepInPlace
  <1> QED
    BY <1>1, <1>2, <1>3, <1>4, <1>5, <1>6, <1>7, <1>8, <1>9, <1>10, <1>11, <1>12 DEF Next

\* What is unread is in the file where the get area says it is.
LEMMA InPlaceShows ==
    ASSUME Inv, InPlace(fb)
    PROVE  GetMirrorsFile
  <1> DEFINE w == fb.get.chars
             p == fb.file.pos
             d == fb.file.data
  <1>1. w \in Seq(Chars) /\ d \in Seq(Chars) /\ p \in Nat /\ fb.get.idx \in Nat
    BY DEF Inv, Good, FileBufs, GetAreas, CFiles
  <1> SUFFICES ASSUME NEW i \in (fb.get.idx + 1)..Len(w)
               PROVE  /\ p - Len(w) + i \in 1..Len(d)
                      /\ i \notin fb.get.mod => w[i] = d[p - Len(w) + i]
    BY DEF GetMirrorsFile
  <1>2. Len(w) \in Nat /\ Len(d) \in Nat
    BY <1>1
  <1>3. i \in 1..Len(w) /\ Unread(fb) # 0
    BY <1>1, <1>2 DEF Unread
  <1>4. ~fb.get.stale
    BY <1>3 DEF InPlace
  <1>5. HasGet(fb)
    BY <1>1, <1>3 DEF Inv, Good, MemorySafe, GetInBlock, HasGet, NoGet
  <1>6. ShowsFile(fb)
    BY <1>4, <1>5 DEF InPlace, Mirrors
  <1>7. /\ p - Len(w) >= 0 /\ (w # <<>> => p <= Len(d))
        /\ \A j \in DOMAIN w \ fb.get.mod : w[j] = d[p - Len(w) + j]
    BY <1>6 DEF ShowsFile
  <1>8. i \in DOMAIN w /\ w # <<>>
    BY <1>1, <1>3
  <1> HIDE DEF w, p, d
  <1>9. p - Len(w) + i \in 1..Len(d)
    BY <1>1, <1>2, <1>3, <1>7, <1>8
  <1> QED
    BY <1>7, <1>8, <1>9

\* For every file, buffer, length of a read and failing call, and a caller that does not unget
\* right after a bulk read: what is unread in the get area is what the file holds just before
\* the position of the C stream, so stop_reading, which seeks back over it, lands on the
\* character the caller reads next, and never before the file.
THEOREM GetAreaMirrorsFile ==
    ASSUME ~UngetDirect
    PROVE  Spec => []GetMirrorsFile
  <1>1. Init => InPlace(fb)
    <2> SUFFICES ASSUME Init PROVE InPlace(fb)
      OBVIOUS
    <2>1. PICK d \in Contents : fb = NewFileBuf(NewFile(d))
      BY DEF Init
    <2>2. fb.get = NoGet
      BY <2>1 DEF NewFileBuf
    <2>3. fb.get.stale = FALSE
      BY <2>2 DEF NoGet
    <2> QED
      BY <2>2, <2>3, NoGetMirrors DEF InPlace
  <1>2. Inv /\ InPlace(fb) /\ [Next]_vars => InPlace(fb)'
    BY NextInPlace
  <1>3. Inv /\ InPlace(fb) => GetMirrorsFile
    BY InPlaceShows
  <1> QED
    BY <1>1, <1>2, <1>3, InvAlways, PTL DEF Spec


----------------------------------------------------------------------------
\* How the filebuf uses the C stream.

\* The C stream has been used as C allows; what it holds back was written through a put area
\* that says so; while the put area is set up the last transfer was not a read.
Rule(s) ==
    /\ ~s.file.misused
    /\ s.file.op = "write" <=> ~s.file.flushed
    /\ s.file.op = "write" => HasPut(s) /\ HasPrevWrite(s)
    /\ s.file.op = "read" => ~HasPut(s)
    /\ HasPut(s) /\ s.put.at # Last => s.size > 0
    /\ ~s.isOpen => s.file.op = "none"

NoErrors(s) == s.file.errs = 0

Orderly(s) == NoErrors(s) => Rule(s)
\* The next transfer may be a write.
MayPut(s) == NoErrors(s) => Rule(s) /\ s.file.op # "read"
\* The next transfer may be a read.
MayGet(s) == NoErrors(s) => Rule(s) /\ s.file.op # "write" /\ Pending(s) = 0

\* t is what a function has made of s that changes neither the put area nor the shell, and
\* leaves the C stream as it was or positions it.
Calm(s, t) ==
    /\ t.put = s.put /\ t.mem = s.mem /\ t.isOpen = s.isOpen /\ t.size = s.size
    /\ NoErrors(t) => /\ NoErrors(s) /\ t.file.misused = s.file.misused
                      /\ \/ t.file.op = s.file.op /\ t.file.flushed = s.file.flushed
                         \/ t.file.op = "none" /\ t.file.flushed

LEMMA CalmKeeps ==
    ASSUME NEW s, NEW t, Calm(s, t)
    PROVE  /\ Orderly(s) => Orderly(t)
           /\ MayPut(s) => MayPut(t)
           /\ MayGet(s) => MayGet(t)
  <1>1. HasPut(t) = HasPut(s) /\ Pending(t) = Pending(s) /\ (HasPrevWrite(t) <=> HasPrevWrite(s))
    BY DEF Calm, HasPut, Pending, HasPrevWrite
  <1> QED
    BY <1>1 DEF Calm, Orderly, MayPut, MayGet, Rule

LEMMA ResultCalm ==
    ASSUME NEW s, Good(s), NEW b
    PROVE  Calm(s, Result(s, b))
  <1>1. /\ Result(s, b).put = s.put /\ Result(s, b).file = s.file
        /\ SameShell(s, Result(s, b))
    BY ResultIs
  <1> QED
    BY <1>1 DEF Calm, SameShell, NoErrors

LEMMA StopReadingCalm ==
    ASSUME NEW s, Good(s), NEW o
    PROVE  Calm(s, StopReading(s, o))
  <1> DEFINE t == StopReading(s, o)
             back == s.file.pos - Unread(s)
             fails == o.fault = "seek"
  <1>1. t.put = s.put /\ SameShell(s, t)
    BY StopReadingIs
  <1>2. t.file = s.file \/ t.file = FSeek(s.file, back, fails)
    BY StopReadingIs
  <1>3. s.file \in CFiles
    BY GoodFields
  <1> HIDE DEF t, back, fails
  <1>4. t.put = s.put /\ t.mem = s.mem /\ t.isOpen = s.isOpen /\ t.size = s.size
    BY <1>1 DEF SameShell
  <1>5. CASE t.file = s.file
    BY <1>4, <1>5 DEF Calm, NoErrors, t
  <1>6. CASE t.file = FSeek(s.file, back, fails) /\ SeekWorks(back, fails)
    <2>1. t.file.misused = s.file.misused /\ t.file.op = "none" /\ t.file.flushed
          /\ t.file.errs = s.file.errs
      BY <1>3, <1>6, FSeekIs
    <2> QED
      BY <1>4, <2>1 DEF Calm, NoErrors, t
  <1>7. CASE t.file = FSeek(s.file, back, fails) /\ ~SeekWorks(back, fails)
    <2>1. t.file.misused = s.file.misused /\ t.file.op = s.file.op
          /\ t.file.flushed = s.file.flushed
          /\ (~fails => t.file.errs = s.file.errs)
          /\ (fails => t.file.errs = s.file.errs + 1)
      BY <1>3, <1>7, FSeekIs
    <2>2. s.file.errs + 1 # 0
      BY <1>3, ErrsStay
    <2>3. t.file.errs = 0 => s.file.errs = 0
      BY <2>1, <2>2
    <2> QED
      BY <1>4, <2>1, <2>3 DEF Calm, NoErrors, t
  <1> QED
    BY <1>2, <1>5, <1>6, <1>7

\* A write, after which the put area says that something was written.
LEMMA WriteKeeps ==
    ASSUME NEW s, Good(s), MayPut(s), s.isOpen, NEW t, NEW w, NEW k, NEW append,
           t.file = FWrite(s.file, w, k, append), t.isOpen = s.isOpen,
           ~(k < Len(w)) /\ NoErrors(s) => /\ HasPut(t) /\ HasPrevWrite(t)
                                           /\ t.put.at # Last => t.size > 0
    PROVE  MayPut(t)
  <1>1. s.file \in CFiles
    BY GoodFields
  <1>2. /\ t.file.op = "write" /\ ~t.file.flushed
        /\ (t.file.misused <=> s.file.misused \/ s.file.op = "read")
        /\ k < Len(w) => t.file.errs = s.file.errs + 1
        /\ ~(k < Len(w)) => t.file.errs = s.file.errs
    BY <1>1, FWriteIs
  <1>3. s.file.errs + 1 # 0
    BY <1>1, ErrsStay
  <1>4. NoErrors(t) => NoErrors(s) /\ ~(k < Len(w))
    BY <1>2, <1>3 DEF NoErrors
  <1>5. ASSUME NoErrors(t) PROVE Rule(t) /\ t.file.op # "read"
    <2>1. NoErrors(s) /\ HasPut(t) /\ HasPrevWrite(t) /\ (t.put.at # Last => t.size > 0)
      BY <1>4, <1>5
    <2>2. ~s.file.misused /\ s.file.op # "read"
      BY <2>1 DEF MayPut, Rule
    <2> QED
      BY <1>2, <2>1, <2>2 DEF Rule
  <1> QED
    BY <1>5 DEF MayPut

\* The put area of an open file, set up at the start of the buffer or over last_char_.
LEMMA PutSays ==
    ASSUME NEW s, Good(s)
    PROVE  /\ HasPut(s) => s.isOpen
           /\ s.put = Marker => HasPut(s) /\ HasPrevWrite(s) /\ s.put.at = Last
           /\ Pending(s) > 0 => HasPut(s) /\ HasPrevWrite(s)
           /\ Pending(s) > 0 => s.put.at = s.mem /\ s.mem # Null /\ s.size > 0
  <1>1. s \in FileBufs /\ s.put.at \in {Null, Last, s.mem} /\ PutInBlock(s)
    BY DEF Good, MemorySafe, PutInBlock
  <1>2. s.mem \in UserBufs \cup {Null, Heap} /\ s.put \in PutAreas /\ s.size \in Nat
    BY <1>1 DEF FileBufs
  <1>3. s.mem # Last
    BY <1>2, BlocksAssumption
  <1>4. HasPut(s) => s.isOpen
    BY DEF Good, MemorySafe, AreasNeedFile
  <1>5. ASSUME s.put = Marker
        PROVE  HasPut(s) /\ HasPrevWrite(s) /\ s.put.at = Last
    BY <1>3, <1>5, NullAreas, BlocksAssumption DEF HasPut, HasPrevWrite
  <1>6. ASSUME Pending(s) > 0
        PROVE  HasPut(s) /\ HasPrevWrite(s) /\ s.put.at = s.mem /\ s.mem # Null /\ s.size > 0
    <2>1. s.put # NoPut /\ s.put # Marker
      BY <1>6, NullAreas DEF Pending
    <2>2. s.put.at # Null /\ s.put.at # Last
      BY <1>1, <2>1 DEF PutInBlock
    <2>3. s.put.off \in Nat /\ s.put.room \in Nat /\ Pending(s) \in Nat
      BY <1>2 DEF PutAreas, Pending
    <2>4. s.put.off + Pending(s) + s.put.room = s.size
      BY <1>1, <2>2 DEF PutInBlock, HasPut
    <2> QED
      BY <1>1, <1>2, <1>6, <2>2, <2>3, <2>4 DEF HasPut, HasPrevWrite
  <1> QED
    BY <1>4, <1>5, <1>6

LEMMA FlushAndStoreIs ==
    ASSUME NEW s, Good(s), s.put.chars # <<>>, NEW c, NEW o
    PROVE  LET t == FlushAndStore(s, c, o)
               w == s.put.chars
               k == Accepted(w, o, "write")
           IN /\ t.get = s.get /\ t.got = s.got /\ SameShell(s, t)
              /\ t.file = FWrite(s.file, w, k, AppendMode(s))
              /\ k < Len(w) => t.put = s.put /\ ~t.ok
              /\ ~(k < Len(w)) =>
                    /\ t.put = [at |-> s.mem, off |-> 0, chars |-> c, room |-> s.size - Len(c)]
                    /\ t.ok
  <1> DEFINE w == s.put.chars
             k == Accepted(w, o, "write")
             f == FWrite(s.file, w, k, AppendMode(s))
             u == [s EXCEPT !.file = f]
             t == FlushAndStore(s, c, o)
  <1>1. t = IF k < Len(w) THEN Result(u, FALSE) ELSE Restart(u, c)
    BY DEF FlushAndStore
  <1>2. s \in FileBufs
    BY GoodFields
  <1> HIDE DEF f, k, t
  <1>3. u.get = s.get /\ u.put = s.put /\ u.got = s.got /\ u.file = f /\ SameShell(s, u)
    BY <1>2 DEF FileBufs, SameShell
  <1>4. "ok" \in DOMAIN u
    BY <1>2 DEF FileBufs
  <1>5. CASE k < Len(w)
    <2>1. /\ Result(u, FALSE).get = s.get /\ Result(u, FALSE).put = s.put
          /\ Result(u, FALSE).got = s.got /\ Result(u, FALSE).file = f
          /\ SameShell(s, Result(u, FALSE)) /\ ~Result(u, FALSE).ok
      BY <1>2 DEF Result, FileBufs, SameShell
    <2> QED
      BY <1>1, <1>5, <2>1 DEF f, k, t
  <1>6. CASE ~(k < Len(w))
    <2>1. /\ Restart(u, c).get = s.get /\ Restart(u, c).got = s.got /\ Restart(u, c).file = f
          /\ SameShell(s, Restart(u, c)) /\ Restart(u, c).ok
          /\ Restart(u, c).put = [at |-> s.mem, off |-> 0, chars |-> c, room |-> s.size - Len(c)]
      BY <1>2 DEF Restart, FileBufs, SameShell
    <2> QED
      BY <1>1, <1>6, <2>1 DEF f, k, t
  <1> QED
    BY <1>5, <1>6

\* A put area that starts over with a character in it.
LEMMA StartedPut ==
    ASSUME NEW t, NEW c, Len(c) > 0, t.mem # Null, NEW r,
           t.put = [at |-> t.mem, off |-> 0, chars |-> c, room |-> r]
    PROVE  HasPut(t) /\ HasPrevWrite(t) /\ t.put.at = t.mem /\ Pending(t) = Len(c)
  BY DEF HasPut, HasPrevWrite, Pending

\* Characters are added to the put area, and the C stream stays as it is.
LEMMA BufferedKeeps ==
    ASSUME NEW s, MayPut(s), NEW t, t.file = s.file, HasPut(t), HasPrevWrite(t), t.isOpen,
           t.put.at # Last => t.size > 0
    PROVE  MayPut(t)
  BY DEF MayPut, Rule, NoErrors

LEMMA OverflowMayPut ==
    ASSUME NEW s, Good(s), MayPut(s), CanWrite(s), NEW c \in OneChar, c # <<>>,
           NEW o, o.wrote \in Nat
    PROVE  MayPut(Overflow(s, c, o))
  <1> DEFINE t == StopReading(s, o)
             v == StoreOrFlush(t, c, o)
  <1>1. Good(t) /\ MayPut(t) /\ t.isOpen = s.isOpen
    BY StopReadingGood, StopReadingCalm, CalmKeeps DEF SameShell
  <1>2. t.isOpen
    BY <1>1 DEF Good, MemorySafe, ClosedIsClean, CanWrite
  <1>3. Len(c) = 1 /\ c \in Seq(Chars)
    <2>1. c \in Seq(Chars) /\ Len(c) <= 1
      BY DEF OneChar
    <2>2. Len(c) \in Nat /\ Len(c) # 0
      BY <2>1
    <2>3. \A n \in Nat : n # 0 /\ n <= 1 => n = 1
      OBVIOUS
    <2> QED
      BY <2>1, <2>2, <2>3
  <1>4. Overflow(s, c, o) = IF ~t.ok THEN t ELSE v
    BY DEF Overflow
  <1> HIDE DEF t
  <1>5. CASE Pending(t) > 0
    <2> DEFINE w == t.put.chars
               k == Accepted(w, o, "write")
    <2>1. v = FlushAndStore(t, c, o)
      BY <1>5 DEF StoreOrFlush
    <2>2. w # <<>>
      BY <1>5 DEF Pending
    <2> HIDE DEF v
    <2>3. /\ v.file = FWrite(t.file, w, k, AppendMode(t)) /\ SameShell(t, v)
          /\ ~(k < Len(w)) => v.put = [at |-> t.mem, off |-> 0, chars |-> c, room |-> t.size - Len(c)]
      BY <1>1, <2>1, <2>2, FlushAndStoreIs
    <2>4. t.mem # Null /\ t.size > 0
      BY <1>1, <1>5, PutSays
    <2> HIDE DEF w, k
    <2>5. v.mem = t.mem /\ v.isOpen = t.isOpen /\ v.size = t.size
      BY <2>3 DEF SameShell
    <2>6. ~(k < Len(w)) => HasPut(v) /\ HasPrevWrite(v)
      BY <1>3, <2>3, <2>4, <2>5, StartedPut
    <2>7. MayPut(v)
      BY <1>1, <1>2, <2>3, <2>4, <2>5, <2>6, WriteKeeps
    <2> QED
      BY <1>1, <1>4, <2>7 DEF v
  <1>6. CASE ~(Pending(t) > 0) /\ t.size > 0
    <2> DEFINE u == MakeBuffer(t)
    <2>1. Good(u) /\ u.file = t.file /\ u.size = t.size /\ u.isOpen = t.isOpen /\ u.mem # Null
      BY <1>1, <1>2, <1>6, MakeBufferGood
    <2> HIDE DEF u
    <2>2. v = Restart(u, c)
      BY <1>6 DEF StoreOrFlush, u
    <2> HIDE DEF v
    <2>3. /\ SameShell(u, v) /\ v.file = u.file
          /\ v.put = [at |-> u.mem, off |-> 0, chars |-> c, room |-> u.size - Len(c)]
      BY <2>1, <2>2, RestartIs
    <2>4. v.mem = u.mem /\ v.isOpen = u.isOpen /\ v.size = u.size
      BY <2>3 DEF SameShell
    <2>5. HasPut(v) /\ HasPrevWrite(v)
      BY <1>3, <2>1, <2>3, <2>4, StartedPut
    <2>6. MayPut(v)
      BY <1>1, <1>2, <1>6, <2>1, <2>3, <2>4, <2>5, BufferedKeeps
    <2> QED
      BY <1>1, <1>4, <2>6 DEF v
  <1>7. CASE ~(Pending(t) > 0) /\ ~(t.size > 0)
    <2> DEFINE k == Accepted(c, o, "direct")
    <2>1. v = PutUnbuffered(t, c, o)
      BY <1>7 DEF StoreOrFlush
    <2> HIDE DEF v
    <2>2. /\ SameShell(t, v)
          /\ v.put = IF k = Len(c) /\ ~HasPut(t) THEN Marker ELSE t.put
          /\ v.file = FWrite(t.file, c, k, AppendMode(t))
      BY <1>1, <2>1, PutUnbufferedIs
    <2>3. k \in 0..Len(c)
      BY <1>3, AcceptedType
    <2> HIDE DEF k
    <2>4. Good(v)
      <3>1. CanWrite(t) /\ ~HasGet(t) /\ t.size = 0
        <4>1. t.size \in Nat /\ SameShell(s, t) /\ t.get = NoGet
          BY <1>1, StopReadingGood DEF t, Good, FileBufs
        <4> QED
          BY <1>7, <4>1, NullAreas DEF CanWrite, SameShell, HasGet
      <3> QED
        BY <1>1, <1>2, <1>7, <2>1, <3>1, PutUnbufferedGood DEF Stored
    <2>5. ASSUME ~(k < Len(c)), NoErrors(t)
          PROVE  v.put = Marker
      <3>1. k = Len(c)
        BY <1>3, <2>3, <2>5
      <3>2. HasPut(t) => t.put.at = Last
        BY <1>1, <1>7, <2>5 DEF MayPut, Rule
      <3>3. HasPut(t) => t.put = Marker
        BY <1>1, <3>2 DEF Good, MemorySafe, PutInBlock
      <3> QED
        BY <2>2, <3>1, <3>3
    <2>6. v.isOpen = t.isOpen
      BY <2>2 DEF SameShell
    <2>7. MayPut(v)
      BY <1>1, <1>2, <2>2, <2>4, <2>5, <2>6, PutSays, WriteKeeps
    <2> QED
      BY <1>1, <1>4, <2>7 DEF v
  <1> QED
    BY <1>5, <1>6, <1>7

LEMMA StoreMayPut ==
    ASSUME NEW s, Good(s), MayPut(s), NEW w \in Seq(Chars), Len(w) <= s.put.room
    PROVE  MayPut(Store(s, w))
  <1> DEFINE t == Store(s, w)
  <1>1. /\ SameShell(s, t) /\ t.file = s.file
        /\ t.put.chars = Join(s.put.chars, w)
        /\ t.put.at = s.put.at /\ t.put.off = s.put.off
    BY StoreIs
  <1>2. s.put.chars \in Seq(Chars) /\ s.put.off \in Nat
    BY DEF Good, FileBufs, PutAreas
  <1>3. Len(Join(s.put.chars, w)) = Len(s.put.chars) + Len(w)
    BY <1>2 DEF Join
  <1> HIDE DEF t
  <1>4. Pending(t) >= Pending(s) /\ Pending(s) \in Nat /\ Pending(t) \in Nat
    <2>1. Len(s.put.chars) \in Nat /\ Len(w) \in Nat
      BY <1>2
    <2> QED
      BY <1>1, <1>3, <2>1 DEF Pending
  <1>5. HasPut(t) = HasPut(s) /\ t.mem = s.mem /\ t.isOpen = s.isOpen /\ t.size = s.size
    BY <1>1 DEF HasPut, SameShell
  <1>6. HasPrevWrite(s) => HasPrevWrite(t)
    BY <1>1, <1>2, <1>4, <1>5 DEF HasPrevWrite
  <1> QED
    BY <1>1, <1>5, <1>6 DEF MayPut, Rule, NoErrors, t

LEMMA PutCharMayPut ==
    ASSUME NEW s, Good(s), MayPut(s), CanWrite(s), NEW c \in Chars, NEW o, o.wrote \in Nat
    PROVE  MayPut(PutChar(s, c, o))
  <1>1. <<c>> \in OneChar /\ <<c>> # <<>>
    BY OneCharType
  <1>2. ASSUME s.put.room > 0
        PROVE  MayPut(Store(s, <<c>>))
    <2> DEFINE w == <<c>>
    <2>1. w \in Seq(Chars) /\ Len(w) = 1 /\ s.put.room \in Nat
      BY DEF Good, FileBufs, PutAreas
    <2> HIDE DEF w
    <2>2. Len(w) <= s.put.room
      BY <1>2, <2>1
    <2>3. MayPut(Store(s, w))
      BY <2>1, <2>2, StoreMayPut
    <2> QED
      BY <2>3 DEF w
  <1>3. MayPut(Overflow(s, <<c>>, o))
    BY <1>1, OverflowMayPut
  <1> QED
    BY <1>2, <1>3 DEF PutChar

LEMMA PutSmallMayPut ==
    ASSUME NEW s, Good(s), MayPut(s), CanWrite(s), NEW w \in Seq(Chars), Len(w) <= s.size,
           NEW o, o.wrote \in Nat
    PROVE  MayPut(PutSmall(s, w, o))
  <1> DEFINE r == Least(s.put.room, Len(w))
             t == Store(s, SubSeq(w, 1, r))
             u == Overflow(t, <<w[r + 1]>>, o)
             x == SubSeq(w, r + 2, Len(w))
  <1>0. s.put.room \in Nat
    BY DEF Good, FileBufs, PutAreas
  <1>1. r \in Nat /\ r <= Len(w) /\ r <= s.put.room
    BY <1>0 DEF Least
  <1>2. Good(t) /\ MayPut(t) /\ CanWrite(t) /\ t.size = s.size
    <2>1. SubSeq(w, 1, r) \in Seq(Chars) /\ Len(SubSeq(w, 1, r)) = r
      BY <1>1
    <2>2. Good(t) /\ MayPut(t) /\ SameShell(s, t)
      BY <1>1, <2>1, StoreGood, StoreMayPut
    <2> HIDE DEF t
    <2> QED
      BY <2>2 DEF SameShell, CanWrite
  <1>3. ASSUME r # Len(w)
        PROVE  Good(u) /\ MayPut(u) /\ (u.ok => MayPut(Store(u, x)))
    <2>1. w[r + 1] \in Chars /\ Len(w) > 0
      BY <1>1, <1>3
    <2>2. x \in Seq(Chars) /\ Len(x) <= Len(w) - 1
      BY <1>1, <1>3
    <2> HIDE DEF r, t, x
    <2>3. <<w[r + 1]>> \in OneChar /\ <<w[r + 1]>> # <<>> /\ Len(<<w[r + 1]>>) = 1
      BY <2>1, OneCharType
    <2>7. Stored(t, <<w[r + 1]>>, u) /\ MayPut(u)
      BY <1>2, <2>3, OverflowGood, OverflowMayPut
    <2> HIDE DEF u
    <2>4. Good(u) /\ MayPut(u) /\ (u.ok = TRUE /\ t.size > 0 => u.put.room = t.size - 1)
      BY <2>3, <2>7 DEF Stored
    <2>5. u.ok \in BOOLEAN /\ s.size \in Nat
      BY <2>4, GoodFields DEF Good, FileBufs
    <2>6. u.ok => Len(x) <= u.put.room
      <3>1. Len(x) \in Nat /\ Len(w) \in Nat
        BY <2>2
      <3> QED
        BY <1>2, <2>1, <2>2, <2>4, <2>5, <3>1
    <2> QED
      BY <2>2, <2>4, <2>6, StoreMayPut
  <1> HIDE DEF t, u, r, x
  <1>4. PutSmall(s, w, o) = IF r = Len(w) THEN t ELSE IF ~u.ok THEN u ELSE Store(u, x)
    BY DEF PutSmall, t, u, r, x
  <1> QED
    BY <1>2, <1>3, <1>4

LEMMA PutDirectMayPut ==
    ASSUME NEW s, Good(s), MayPut(s), CanWrite(s), NEW w \in Seq(Chars), w # <<>>,
           NEW o, o.wrote \in Nat
    PROVE  MayPut(PutDirect(s, w, o))
  <1> DEFINE t == StopReading(s, o)
             u == DrainPut(t, o)
             v == WriteThrough(u, w, o)
  <1>1. Good(t) /\ MayPut(t) /\ t.isOpen = s.isOpen
    BY StopReadingGood, StopReadingCalm, CalmKeeps DEF SameShell
  <1>2. t.isOpen
    BY <1>1 DEF Good, MemorySafe, ClosedIsClean, CanWrite
  <1> HIDE DEF t
  <1>3. Good(u) /\ MayPut(u) /\ u.isOpen
    <2> DEFINE y == t.put.chars
               k == Accepted(y, o, "write")
    <2>1. Good(u) /\ SameShell(t, u) /\ u.put.at = t.put.at
      BY <1>1, DrainPutGood
    <2>2. u.mem = t.mem /\ u.isOpen = t.isOpen /\ u.size = t.size
      BY <2>1 DEF SameShell
    <2>3. CASE y = <<>>
      <3>1. u = Result(t, TRUE)
        BY <1>1, <2>3, DrainPutIs
      <3> QED
        BY <1>1, <1>2, <2>1, <2>2, <3>1, ResultCalm, CalmKeeps
    <2>4. CASE y # <<>>
      <3>1. /\ u.file = FWrite(t.file, y, k, AppendMode(t))
            /\ u.put.chars = <<>> /\ u.put.off = t.put.off + k
        BY <1>1, <2>4, DrainPutIs
      <3>2. Pending(t) > 0
        BY <1>1, <2>4, GoodFields DEF Pending
      <3>3. t.put.at = t.mem /\ t.mem # Null /\ t.size > 0
        BY <1>1, <3>2, PutSays
      <3>4. t.put.off \in Nat /\ k \in Nat /\ Len(y) \in Nat /\ k <= Len(y) /\ Len(y) > 0
        BY SMTT(30), <1>1, <2>4, AcceptedType, GoodFields DEF Good, FileBufs, PutAreas
      <3> HIDE DEF u, k
      <3>5. ~(k < Len(y)) => u.put.off + Pending(u) # 0
        <4>1. Pending(u) = 0
          BY <3>1 DEF Pending
        <4> QED
          BY <3>1, <3>4, <4>1
      <3>6. HasPut(u) /\ (~(k < Len(y)) => HasPrevWrite(u)) /\ u.size > 0
        BY <2>1, <2>2, <3>3, <3>5 DEF HasPut, HasPrevWrite, u
      <3> HIDE DEF y
      <3>7. MayPut(u)
        BY <1>1, <1>2, <2>2, <3>1, <3>6, WriteKeeps
      <3> QED
        BY <1>2, <2>1, <2>2, <3>7 DEF u
    <2> QED
      BY <2>3, <2>4
  <1>4. CanWrite(u) /\ ~HasGet(u)
    <2>1. SameShell(t, u) /\ u.get = t.get /\ SameShell(s, t) /\ t.get = NoGet
      BY <1>1, StopReadingGood, DrainPutGood DEF t
    <2> HIDE DEF u
    <2> QED
      BY <2>1, NullAreas DEF SameShell, CanWrite, HasGet
  <1>5. PutDirect(s, w, o) = IF ~t.ok THEN t ELSE IF ~u.ok THEN u ELSE v
    BY DEF PutDirect, t
  <1> HIDE DEF u
  <1>6. MayPut(v)
    <2> DEFINE k == Accepted(w, o, "direct")
    <2>1. /\ SameShell(u, v) /\ v.file = FWrite(u.file, w, k, AppendMode(u))
          /\ v.put = IF k > 0 /\ u.put.at # Last THEN Marker ELSE u.put
      BY <1>3, WriteThroughIs
    <2>2. k \in Nat /\ k <= Len(w) /\ Len(w) \in Nat /\ Len(w) > 0
      BY AcceptedType
    <2> HIDE DEF v, k
    <2>3. v.isOpen = u.isOpen /\ v.mem = u.mem
      BY <2>1 DEF SameShell
    <2>4. ~(k < Len(w)) => v.put = Marker
      <3>1. u.put.at = Last => u.put = Marker
        BY <1>3 DEF Good, MemorySafe, PutInBlock
      <3> QED
        BY <2>1, <2>2, <3>1
    <2>5. u.mem # Last
      <3>1. u.mem \in UserBufs \cup {Null, Heap}
        BY <1>3 DEF Good, FileBufs
      <3> QED
        BY <3>1, BlocksAssumption
    <2>6. v.put = Marker => HasPut(v) /\ HasPrevWrite(v) /\ v.put.at = Last
      BY <2>3, <2>5, NullAreas, BlocksAssumption DEF HasPut, HasPrevWrite
    <2>7. MayPut(v)
      BY <1>3, <2>1, <2>3, <2>4, <2>6, WriteKeeps
    <2> QED
      BY <2>7 DEF v
  <1> QED
    BY <1>1, <1>3, <1>5, <1>6

LEMMA XsputnMayPut ==
    ASSUME NEW s, Good(s), MayPut(s), CanWrite(s), NEW w \in Seq(Chars), NEW o, o.wrote \in Nat
    PROVE  MayPut(Xsputn(s, w, o))
  <1>1. ~(Len(w) <= s.size) => w # <<>>
    <2>1. s.size \in Nat
      BY DEF Good, FileBufs
    <2> QED
      BY <2>1
  <1> QED
    BY <1>1, PutSmallMayPut, PutDirectMayPut DEF Xsputn

\* In a direction the file is not open in, nothing is stored.
LEMMA StoreNothing ==
    ASSUME NEW s, Good(s)
    PROVE  LET t == Store(s, <<>>)
           IN t.get = s.get /\ t.put = s.put /\ t.file = s.file /\ SameShell(s, t) /\ t.got = s.got
              /\ t.ok
  <1> DEFINE t == Store(s, <<>>)
  <1>1. /\ t.get = s.get /\ t.got = s.got /\ SameShell(s, t) /\ t.file = s.file /\ t.ok
        /\ t.put.chars = Join(s.put.chars, <<>>) /\ t.put.room = s.put.room - Len(<<>>)
        /\ t.put.at = s.put.at /\ t.put.off = s.put.off
    BY StoreIs
  <1>2. s.put \in PutAreas /\ s.put.room \in Nat /\ s.put.chars \in Seq(Chars)
    BY DEF Good, FileBufs, PutAreas
  <1>3. <<>> \in Seq(Chars) /\ Len(<<>>) <= s.put.room
    BY <1>2
  <1>4. t.put \in PutAreas
    <2>1. Good(t)
      BY <1>3, StoreGood
    <2> HIDE DEF t
    <2> QED
      BY <2>1 DEF Good, FileBufs
  <1>5. Join(s.put.chars, <<>>) = s.put.chars /\ s.put.room - Len(<<>>) = s.put.room
    BY <1>2 DEF Join
  <1> HIDE DEF t
  <1>6. t.put = s.put
    BY <1>1, <1>2, <1>4, <1>5 DEF PutAreas
  <1> QED
    BY <1>1, <1>6 DEF t

LEMMA NoWritingCalm ==
    ASSUME NEW s, Good(s), ~CanWrite(s), NEW o
    PROVE  /\ \A c : Calm(s, PutChar(s, c, o))
           /\ \A w \in Seq(Chars) : Calm(s, Xsputn(s, w, o))
  <1>1. s.put = NoPut /\ s.put.room = 0
    BY DEF Good, MemorySafe, AreasNeedFile, PutInBlock, HasPut, NoPut
  <1>2. \A t, c : ~CanWrite(t) => Overflow(t, c, o) = Result(t, FALSE)
    BY DEF Overflow
  <1>5. ~(s.put.room > 0)
    BY <1>1
  <1>3. ASSUME NEW c PROVE Calm(s, PutChar(s, c, o))
    <2>1. PutChar(s, c, o) = Result(s, FALSE)
      BY <1>2, <1>5 DEF PutChar
    <2> QED
      BY <2>1, ResultCalm
  <1>4. ASSUME NEW w \in Seq(Chars) PROVE Calm(s, Xsputn(s, w, o))
    <2> DEFINE t == Store(s, <<>>)
    <2>1. t.put = s.put /\ t.file = s.file /\ SameShell(s, t)
      BY StoreNothing
    <2>2. Least(s.put.room, Len(w)) = 0 /\ SubSeq(w, 1, 0) = <<>>
      BY <1>1 DEF Least
    <2>3. PutDirect(s, w, o) = Result(s, FALSE)
      BY DEF PutDirect
    <2>4. Good(t)
      <3>1. <<>> \in Seq(Chars) /\ Len(<<>>) <= s.put.room
        BY <1>1
      <3> QED
        BY <3>1, StoreGood
    <2> HIDE DEF t
    <2>5. Calm(s, t) /\ ~CanWrite(t)
      BY <2>1 DEF Calm, SameShell, NoErrors, CanWrite
    <2>6. PutSmall(s, w, o) = t \/ PutSmall(s, w, o) = Result(t, FALSE)
      <3> DEFINE r == Least(s.put.room, Len(w))
                 y == SubSeq(w, 1, r)
                 u == Overflow(Store(s, y), <<w[r + 1]>>, o)
                 x == SubSeq(w, r + 2, Len(w))
      <3>1. y = <<>>
        BY <2>2
      <3>2. PutSmall(s, w, o) = IF r = Len(w) THEN Store(s, y)
                                ELSE IF ~u.ok THEN u ELSE Store(u, x)
        BY DEF PutSmall
      <3> HIDE DEF r, x, y
      <3>3. Store(s, y) = t
        BY <3>1 DEF t
      <3>4. u = Result(t, FALSE)
        BY <1>2, <2>5, <3>3
      <3> HIDE DEF u
      <3>5. ~Result(t, FALSE).ok
        BY <2>4, ResultIs
      <3> QED
        BY <3>2, <3>3, <3>4, <3>5
    <2>7. Calm(s, Result(t, FALSE))
      <3>1. Calm(t, Result(t, FALSE))
        BY <2>4, ResultCalm
      <3> QED
        BY <2>5, <3>1 DEF Calm
    <2>8. Calm(s, Result(s, FALSE))
      BY ResultCalm
    <2> QED
      BY <2>3, <2>5, <2>6, <2>7, <2>8 DEF Xsputn
  <1> QED
    BY <1>3, <1>4

----------------------------------------------------------------------------
\* Reading, and the calls that position.

\* The C stream is not left reading by a read that failed.
Ended(t) == NoErrors(t) /\ ~t.ok => t.file.op # "read"

\* A read, with no put area set up.
LEMMA ReadKeeps ==
    ASSUME NEW s, Good(s), MayGet(s), ~HasPut(s), s.isOpen, NEW n \in Nat,
           NEW t, t.file = FRead(s.file, n), t.put = s.put, t.isOpen
    PROVE  /\ MayGet(t)
           /\ Len(BytesRead(s.file, n)) < n => t.file.op = "none"
  <1>1. s.file \in CFiles
    BY GoodFields
  <1>2. /\ (t.file.misused <=> s.file.misused \/ s.file.op = "write")
        /\ t.file.flushed = s.file.flushed /\ t.file.errs = s.file.errs
        /\ t.file.op = IF Len(BytesRead(s.file, n)) < n THEN "none" ELSE "read"
    BY <1>1, FReadStates
  <1>3. ~HasPut(t) /\ Pending(t) = Pending(s)
    BY DEF HasPut, Pending
  <1> QED
    BY <1>2, <1>3 DEF MayGet, Rule, NoErrors

\* Before a read there is nothing to write; the put area goes.
LEMMA StopWritingMayGet ==
    ASSUME NEW s, Good(s), MayGet(s), NEW o, o.wrote \in Nat
    PROVE  LET t == StopWriting(s, o)
           IN /\ MayGet(t) /\ ~HasPut(t)
              /\ NoErrors(t) => NoErrors(s) /\ t.ok /\ t.file = s.file
  <1> DEFINE t == StopWriting(s, o)
             w == s.put.chars
             k == Accepted(w, o, "write")
  <1>1. /\ t.put = NoPut /\ SameShell(s, t)
        /\ w = <<>> => t.file = s.file /\ t.ok
        /\ w # <<>> => t.file = FWrite(s.file, w, k, AppendMode(s))
    BY StopWritingIs
  <1>2. ~HasPut(t) /\ Pending(t) = 0
    BY <1>1, NullAreas DEF HasPut, Pending
  <1>3. s.file \in CFiles /\ w \in Seq(Chars)
    BY GoodFields
  <1> HIDE DEF t, k
  <1>4. CASE w = <<>>
    <2>1. t.file = s.file /\ t.ok /\ t.isOpen = s.isOpen
      BY <1>1, <1>4 DEF SameShell
    <2> QED
      BY <1>2, <2>1 DEF MayGet, Rule, NoErrors, t
  <1>5. CASE w # <<>>
    <2>1. ~NoErrors(s)
      BY <1>3, <1>5 DEF MayGet, Pending
    <2>2. t.file.errs = s.file.errs \/ t.file.errs = s.file.errs + 1
      BY <1>1, <1>3, <1>5, FWriteIs
    <2>3. ~NoErrors(t)
      BY <1>3, <2>1, <2>2, ErrsStay DEF NoErrors
    <2> QED
      BY <1>2, <2>3 DEF MayGet, t
  <1> QED
    BY <1>4, <1>5

LEMMA BytesReadShort ==
    ASSUME NEW f \in CFiles, NEW n \in Nat
    PROVE  /\ Len(BytesRead(f, n)) # n => Len(BytesRead(f, n)) < n
           /\ BytesRead(f, n) = <<>> /\ n > 0 => Len(BytesRead(f, n)) < n
  <1> DEFINE w == BytesRead(f, n)
  <1>1. /\ w \in Seq(Chars)
        /\ Len(w) = IF f.pos + n <= Len(f.data) THEN n
                    ELSE IF f.pos < Len(f.data) THEN Len(f.data) - f.pos ELSE 0
    BY BytesReadIs
  <1>2. f.pos \in Nat /\ f.data \in Seq(Chars)
    BY DEF CFiles
  <1>3. Len(f.data) \in Nat
    BY <1>2
  <1> HIDE DEF w
  <1>4. Len(w) <= n /\ Len(w) \in Nat
    BY <1>1, <1>2, <1>3
  <1>5. w = <<>> => Len(w) = 0
    OBVIOUS
  <1> QED
    BY <1>4, <1>5 DEF w

LEMMA UnderflowMayGet ==
    ASSUME NEW s, Good(s), MayGet(s), CanRead(s), NEW o, o.wrote \in Nat
    PROVE  MayGet(Underflow(s, o)) /\ Ended(Underflow(s, o))
  <1> DEFINE t == StopWriting(s, o)
             u == MakeBuffer(t)
  <1>1. /\ Good(t) /\ MayGet(t) /\ ~HasPut(t) /\ t.isOpen = s.isOpen
        /\ t.size = s.size /\ t.unbuffered = s.unbuffered
        /\ NoErrors(t) => t.ok
    BY StopWritingGood, StopWritingMayGet DEF SameShell
  <1>2. s.isOpen
    BY DEF Good, MemorySafe, ClosedIsClean, CanRead
  <1> HIDE DEF t
  <1>3. MayGet(FillLast(t)) /\ Ended(FillLast(t))
    <2> DEFINE v == FillLast(t)
               y == BytesRead(t.file, 1)
    <2>1. SameShell(t, v) /\ v.put = t.put /\ v.file = FRead(t.file, 1) /\ (v.ok <=> y # <<>>)
      BY <1>1, FillLastIs
    <2>2. t.file \in CFiles
      BY <1>1, GoodFields
    <2> HIDE DEF v
    <2>3. v.isOpen
      BY <1>1, <1>2, <2>1 DEF SameShell
    <2>4. MayGet(v) /\ (Len(y) < 1 => v.file.op = "none")
      BY <1>1, <1>2, <2>1, <2>3, ReadKeeps
    <2>5. ~v.ok => Len(y) < 1
      BY <2>1, <2>2, BytesReadShort
    <2> QED
      BY <2>4, <2>5 DEF Ended, v
  <1>4. ASSUME ~s.unbuffered
        PROVE  MayGet(FillBuffer(u)) /\ Ended(FillBuffer(u))
    <2> DEFINE v == FillBuffer(u)
               y == BytesRead(u.file, u.size)
    <2>1. /\ Good(u) /\ u.put = t.put /\ u.file = t.file /\ u.size = t.size
          /\ u.isOpen = t.isOpen
      BY <1>1, <1>2, MakeBufferGood
    <2> HIDE DEF u
    <2>2. MayGet(u) /\ ~HasPut(u)
      BY <1>1, <1>2, <2>1 DEF MayGet, Rule, NoErrors, HasPut, Pending
    <2>3. u.size \in Nat /\ u.size > 0
      BY <1>1, <1>2, <1>4, <2>1 DEF Good, MemorySafe, BufferedIsBinary, FileBufs
    <2>4. SameShell(u, v) /\ v.put = u.put /\ v.file = FRead(u.file, u.size) /\ (v.ok <=> y # <<>>)
      BY <2>1, FillBufferIs
    <2>5. u.file \in CFiles
      BY <2>1, GoodFields
    <2> HIDE DEF v
    <2>6. v.isOpen
      BY <1>1, <1>2, <2>1, <2>4 DEF SameShell
    <2>7. MayGet(v) /\ (Len(y) < u.size => v.file.op = "none")
      BY <1>1, <1>2, <2>1, <2>2, <2>3, <2>4, <2>6, ReadKeeps
    <2>8. ~v.ok => Len(y) < u.size
      BY <2>3, <2>4, <2>5, BytesReadShort
    <2> QED
      BY <2>7, <2>8 DEF Ended, v
  <1>5. Underflow(s, o) = IF ~t.ok THEN t ELSE IF s.unbuffered THEN FillLast(t) ELSE FillBuffer(u)
    BY DEF Underflow, t
  <1>6. ~t.ok => Ended(t)
    BY <1>1 DEF Ended
  <1> HIDE DEF u
  <1> QED
    BY <1>1, <1>3, <1>4, <1>5, <1>6

LEMMA TakeCalm ==
    ASSUME NEW s, Good(s), NEW n
    PROVE  Calm(s, Take(s, n)) /\ Take(s, n).ok
  <1>1. /\ Take(s, n).put = s.put /\ SameShell(s, Take(s, n)) /\ Take(s, n).file = s.file
        /\ Take(s, n).ok
    BY TakeIs
  <1> QED
    BY <1>1 DEF Calm, SameShell, NoErrors

\* What a reading function makes of a filebuf that may read, or has no read mode.
ReadWell(s, t) ==
    /\ CanRead(s) /\ MayGet(s) => MayGet(t) /\ Ended(t)
    /\ ~CanRead(s) => Calm(s, t)

LEMMA UnderflowWell ==
    ASSUME NEW s, Good(s), NEW o, o.wrote \in Nat
    PROVE  ReadWell(s, Underflow(s, o)) /\ (~CanRead(s) => ~Underflow(s, o).ok)
  <1>1. CASE CanRead(s)
    BY <1>1, UnderflowMayGet DEF ReadWell
  <1>2. CASE ~CanRead(s)
    <2>1. Underflow(s, o) = Result(s, FALSE)
      BY <1>2 DEF Underflow
    <2>2. ~Result(s, FALSE).ok /\ Calm(s, Result(s, FALSE))
      BY ResultIs, ResultCalm
    <2> QED
      BY <1>2, <2>1, <2>2 DEF ReadWell
  <1> QED
    BY <1>1, <1>2

\* A quiet step that succeeds, then a reading one.
LEMMA ReadWellAfter ==
    ASSUME NEW s, NEW t, NEW u, Calm(s, t), t.mode = s.mode, ReadWell(t, u)
    PROVE  ReadWell(s, u)
  <1>1. CanRead(t) <=> CanRead(s)
    BY DEF CanRead
  <1>2. MayGet(s) => MayGet(t)
    BY CalmKeeps
  <1>3. Calm(t, u) => Calm(s, u)
    BY DEF Calm
  <1> QED
    BY <1>1, <1>2, <1>3 DEF ReadWell

LEMMA CalmWell ==
    ASSUME NEW s, NEW t, Calm(s, t), t.ok
    PROVE  ReadWell(s, t)
  BY CalmKeeps DEF ReadWell, Ended

\* A reading step, then a quiet one that succeeds.
LEMMA ReadWellBefore ==
    ASSUME NEW s, NEW t, NEW u, ReadWell(s, t), Calm(t, u), u.ok
    PROVE  ReadWell(s, u)
  <1>1. MayGet(t) => MayGet(u)
    BY CalmKeeps
  <1>2. Calm(s, t) => Calm(s, u)
    BY DEF Calm
  <1> QED
    BY <1>1, <1>2 DEF ReadWell, Ended

LEMMA RefillWell ==
    ASSUME NEW s, Good(s), NEW o, o.wrote \in Nat
    PROVE  ReadWell(s, Refill(s, o))
  <1>1. ReadWell(s, Underflow(s, o))
    BY UnderflowWell
  <1>2. Calm(s, Result(s, TRUE)) /\ Result(s, TRUE).ok
    BY ResultCalm, ResultIs
  <1>3. ReadWell(s, Result(s, TRUE))
    BY <1>2, CalmWell
  <1> QED
    BY <1>1, <1>3 DEF Refill

LEMMA PeekCharWell ==
    ASSUME NEW s, Good(s), NEW o, o.wrote \in Nat
    PROVE  ReadWell(s, PeekChar(s, o))
  <1> DEFINE t == Refill(s, o)
             u == [t EXCEPT !.got = <<t.get.chars[t.get.idx + 1]>>]
  <1>1. Good(t) /\ ReadWell(s, t)
    BY RefillGood, RefillWell
  <1>2. PeekChar(s, o) = IF t.ok THEN u ELSE t
    BY DEF PeekChar
  <1> HIDE DEF t
  <1>3. /\ u.put = t.put /\ u.file = t.file /\ u.mem = t.mem /\ u.isOpen = t.isOpen
        /\ u.size = t.size /\ u.ok = t.ok
    BY <1>1 DEF Good, FileBufs
  <1> HIDE DEF u
  <1>4. Calm(t, u)
    BY <1>3 DEF Calm, NoErrors
  <1> QED
    BY <1>1, <1>2, <1>3, <1>4, ReadWellBefore

LEMMA BumpCharWell ==
    ASSUME NEW s, Good(s), NEW o, o.wrote \in Nat
    PROVE  ReadWell(s, BumpChar(s, o))
  <1> DEFINE t == Refill(s, o)
  <1>1. Good(t) /\ ReadWell(s, t)
    BY RefillGood, RefillWell
  <1>2. BumpChar(s, o) = IF t.ok THEN Take(t, 1) ELSE t
    BY DEF BumpChar
  <1> HIDE DEF t
  <1>3. Calm(t, Take(t, 1)) /\ Take(t, 1).ok
    BY <1>1, TakeCalm
  <1> QED
    BY <1>1, <1>2, <1>3, ReadWellBefore

\* A reading step that succeeds, then another.
LEMMA ReadWellTwice ==
    ASSUME NEW s, NEW t, NEW u, ReadWell(s, t), t.mode = s.mode, ReadWell(t, u)
    PROVE  ReadWell(s, u)
  <1>1. CanRead(t) <=> CanRead(s)
    BY DEF CanRead
  <1>2. Calm(s, t) /\ Calm(t, u) => Calm(s, u)
    BY DEF Calm
  <1> QED
    BY <1>1, <1>2 DEF ReadWell

LEMMA GetSmallWell ==
    ASSUME NEW s, Good(s), s.got = <<>>, NEW n \in Nat, NEW o, o.wrote \in Nat
    PROVE  ReadWell(s, GetSmall(s, n, o))
  <1> DEFINE t == TakeUpTo(s, n)
             u == Underflow(t, o)
             v == TakeUpTo(u, n - Len(t.got))
  <1>1. Good(t) /\ Calm(s, t) /\ t.ok /\ t.mode = s.mode /\ Len(t.got) \in Nat /\ Len(t.got) <= n
    <2>1. Good(t) /\ SameShell(s, t) /\ Len(t.got) \in Nat /\ Len(t.got) <= Len(s.got) + n
      BY TakeUpToGood
    <2>2. Calm(s, t) /\ t.ok
      BY TakeCalm DEF TakeUpTo
    <2> QED
      BY <2>1, <2>2 DEF SameShell
  <1> HIDE DEF t
  <1>2. Good(u) /\ ReadWell(t, u) /\ u.mode = t.mode
    BY <1>1, UnderflowGood, UnderflowWell
  <1> HIDE DEF u
  <1>3. Good(v) /\ Calm(u, v) /\ v.ok /\ v.mode = u.mode
    <2>1. n - Len(t.got) \in Nat
      BY <1>1
    <2>2. Good(v) /\ SameShell(u, v)
      BY <1>2, <2>1, TakeUpToGood
    <2>3. Calm(u, v) /\ v.ok
      BY <1>2, TakeCalm DEF TakeUpTo
    <2> QED
      BY <2>2, <2>3 DEF SameShell
  <1>4. GetSmall(s, n, o) = IF Len(t.got) = n THEN t ELSE IF ~u.ok THEN u
                            ELSE IF Len(v.got) = n THEN v ELSE Underflow(v, o)
    BY DEF GetSmall, t, u
  <1> HIDE DEF v
  <1>5. ReadWell(v, Underflow(v, o))
    BY <1>3, UnderflowWell
  <1>6. ReadWell(s, t)
    BY <1>1, CalmWell
  <1>7. ReadWell(s, u)
    BY <1>1, <1>2, ReadWellAfter
  <1>8. ReadWell(s, v)
    BY <1>3, <1>7, ReadWellBefore
  <1>9. ReadWell(s, Underflow(v, o))
    <2>1. v.mode = s.mode
      BY <1>1, <1>2, <1>3
    <2> QED
      BY <1>5, <1>8, <2>1, ReadWellTwice
  <1> QED
    BY <1>4, <1>6, <1>7, <1>8, <1>9

LEMMA GetDirectWell ==
    ASSUME NEW s, Good(s), s.got = <<>>, NEW n \in Nat, NEW o, o.wrote \in Nat
    PROVE  ReadWell(s, GetDirect(s, n, o))
  <1> DEFINE t == StopWriting(s, o)
             u == TakeUpTo(t, n)
             v == [u EXCEPT !.ok = t.ok]
  <1>1. CASE ~CanRead(s)
    <2>1. GetDirect(s, n, o) = Result(s, FALSE)
      BY <1>1 DEF GetDirect
    <2> QED
      BY <1>1, <2>1, ResultCalm DEF ReadWell
  <1>2. CASE CanRead(s)
    <2> SUFFICES ASSUME MayGet(s)
                 PROVE  MayGet(GetDirect(s, n, o)) /\ Ended(GetDirect(s, n, o))
      BY <1>2 DEF ReadWell
    <2>1. s.isOpen
      BY <1>2 DEF Good, MemorySafe, ClosedIsClean, CanRead
    <2>2. /\ Good(t) /\ MayGet(t) /\ ~HasPut(t) /\ t.isOpen /\ t.got = <<>>
          /\ NoErrors(t) => t.ok
      BY <2>1, StopWritingGood, StopWritingMayGet DEF SameShell
    <2> HIDE DEF t
    <2>3. /\ Good(u) /\ MayGet(u) /\ ~HasPut(u) /\ u.isOpen /\ Len(u.got) \in Nat /\ Len(u.got) <= n
          /\ NoErrors(u) => t.ok
      <3>1. /\ Good(u) /\ SameShell(t, u) /\ u.put = t.put /\ Len(u.got) \in Nat
            /\ Len(u.got) <= Len(t.got) + n /\ u.file = t.file
        BY <2>2, TakeUpToGood
      <3>2. Calm(t, u)
        BY <2>2, TakeCalm DEF TakeUpTo
      <3> HIDE DEF u
      <3>3. Len(u.got) <= n
        BY <2>2, <3>1
      <3>4. MayGet(u)
        BY <2>2, <3>2, CalmKeeps
      <3> QED
        BY <2>2, <3>1, <3>3, <3>4 DEF SameShell, HasPut, NoErrors
    <2> HIDE DEF u
    <2>4. MayGet(v) /\ Ended(v)
      <3>1. v = Result(u, t.ok)
        BY DEF Result
      <3>2. Calm(u, v) /\ (v.ok <=> t.ok) /\ v.file = u.file
        BY <2>3, <3>1, ResultCalm, ResultIs
      <3> HIDE DEF v
      <3>3. MayGet(v)
        BY <2>3, <3>2, CalmKeeps
      <3> QED
        BY <2>3, <3>2, <3>3 DEF Ended, NoErrors
    <2>5. MayGet(ReadThrough(u, n - Len(u.got))) /\ Ended(ReadThrough(u, n - Len(u.got)))
      <3> DEFINE m == n - Len(u.got)
                 x == ReadThrough(u, m)
      <3>1. m \in Nat
        BY <2>3
      <3> HIDE DEF m
      <3>2. /\ x.put = u.put /\ SameShell(u, x) /\ x.file = FRead(u.file, m)
            /\ (x.ok <=> Len(BytesRead(u.file, m)) = m)
        BY <2>3, <3>1, ReadThroughIs
      <3> HIDE DEF x
      <3>3. x.isOpen
        BY <2>3, <3>2 DEF SameShell
      <3>4. MayGet(x) /\ (Len(BytesRead(u.file, m)) < m => x.file.op = "none")
        BY <2>3, <3>1, <3>2, <3>3, ReadKeeps
      <3>5. u.file \in CFiles
        BY <2>3, GoodFields
      <3>6. ~x.ok => Len(BytesRead(u.file, m)) < m
        BY <3>1, <3>2, <3>5, BytesReadShort
      <3> QED
        BY <3>4, <3>6 DEF Ended, x, m
    <2>6. GetDirect(s, n, o) = IF ~t.ok \/ Len(u.got) = n THEN v
                               ELSE ReadThrough(u, n - Len(u.got))
      BY <1>2 DEF GetDirect, t, u
    <2> HIDE DEF v
    <2> QED
      BY <2>4, <2>5, <2>6
  <1> QED
    BY <1>1, <1>2

LEMMA XsgetnWell ==
    ASSUME NEW s, Good(s), s.got = <<>>, NEW n \in Nat, NEW o, o.wrote \in Nat
    PROVE  ReadWell(s, Xsgetn(s, n, o))
  BY GetSmallWell, GetDirectWell DEF Xsgetn

LEMMA PbackFailCalm ==
    ASSUME NEW s, Good(s), NEW c
    PROVE  Calm(s, PbackFail(s, c))
  <1>1. CASE s.get.idx = 0
    <2>1. PbackFail(s, c) = Result(s, FALSE)
      BY <1>1 DEF PbackFail
    <2> QED
      BY <2>1, ResultCalm
  <1>2. CASE s.get.idx # 0
    <2>1. /\ PbackFail(s, c).put = s.put /\ SameShell(s, PbackFail(s, c))
          /\ PbackFail(s, c).file = s.file
      BY ZenonT(30), <1>2, PbackFailIs
    <2> QED
      BY <2>1 DEF Calm, SameShell, NoErrors
  <1> QED
    BY <1>1, <1>2

\* After a call that settles the filebuf, nothing is pending and nothing waits in the C stream,
\* and it is reading only if it was before.
Settles(s, t) ==
    /\ MayGet(t)
    /\ NoErrors(t) => NoErrors(s) /\ (t.file.op = "read" => s.file.op = "read")

\* The flush within sync: everything is handed to the C stream and from there to the file.
LEMMA SyncPutSettles ==
    ASSUME NEW s, Good(s), HasPut(s), Orderly(s), NEW o, o.wrote \in Nat
    PROVE  Settles(s, SyncPut(s, o))
  <1> DEFINE r == StopReading(s, o)
             t == Overflow(s, <<>>, o)
             fails == o.fault = "flush"
             z == SyncPut(s, o)
  <1>1. CanWrite(s) /\ ~HasGet(s) /\ s.isOpen
    BY DEF Good, MemorySafe, AreasNeedFile, OneArea
  <1>2. /\ Good(r) /\ SameShell(s, r) /\ r.put = s.put /\ r.file = s.file /\ r.ok
    BY <1>1, StopReadingGood, StopReadingIs
  <1>3. t = StoreOrFlush(r, <<>>, o)
    BY <1>1, <1>2 DEF Overflow
  <1>4. /\ HasPut(r) /\ (HasPrevWrite(r) <=> HasPrevWrite(s)) /\ Pending(r) = Pending(s)
        /\ r.isOpen /\ r.file \in CFiles /\ (NoErrors(r) <=> NoErrors(s))
    BY <1>1, <1>2, GoodFields DEF HasPut, HasPrevWrite, Pending, SameShell, NoErrors
  <1>5. NoErrors(r) => Rule(r) /\ r.file.op # "read"
    BY <1>2, <1>4 DEF Orderly, Rule, SameShell
  <1> HIDE DEF r
  <1>6. Good(t)
    BY OneCharType, OverflowGood DEF Stored
  <1>7. /\ NoErrors(t) => /\ NoErrors(r) /\ t.file.op # "read" /\ ~t.file.misused
                          /\ (HasPut(t) /\ t.put.at # Last => t.size > 0) /\ t.isOpen
                          /\ Pending(t) = 0 /\ HasPut(t)
                          /\ (t.file.op = "write" => HasPrevWrite(s))
                          /\ (t.file.op = "write" <=> ~t.file.flushed)
    <2>1. CASE Pending(r) > 0
      <3> DEFINE w == r.put.chars
                 k == Accepted(w, o, "write")
      <3>1. t = FlushAndStore(r, <<>>, o) /\ w # <<>>
        <4>1. t = FlushAndStore(r, <<>>, o)
          BY <1>3, <2>1 DEF StoreOrFlush
        <4>2. w # <<>>
          BY <2>1 DEF Pending
        <4> QED
          BY <4>1, <4>2
      <3> HIDE DEF t
      <3>2. /\ SameShell(r, t) /\ t.file = FWrite(r.file, w, k, AppendMode(r))
            /\ ~(k < Len(w)) =>
                   t.put = [at |-> r.mem, off |-> 0, chars |-> <<>>, room |-> r.size - Len(<<>>)]
        BY <1>2, <3>1, FlushAndStoreIs
      <3>3. HasPrevWrite(r) /\ r.mem # Null /\ r.size > 0
        BY <1>2, <2>1, PutSays
      <3> HIDE DEF w, k
      <3>4. /\ t.file.op = "write" /\ ~t.file.flushed
            /\ (t.file.misused <=> r.file.misused \/ r.file.op = "read")
            /\ k < Len(w) => t.file.errs = r.file.errs + 1
            /\ ~(k < Len(w)) => t.file.errs = r.file.errs
        BY <1>4, <3>2, FWriteIs
      <3>5. NoErrors(t) => NoErrors(r) /\ ~(k < Len(w))
        BY <1>4, <3>4, ErrsStay DEF NoErrors
      <3>6. t.mem = r.mem /\ t.size = r.size /\ t.isOpen = r.isOpen
        BY <3>2 DEF SameShell
      <3>7. ~(k < Len(w)) => Pending(t) = 0 /\ HasPut(t)
        BY <3>2, <3>3 DEF Pending, HasPut
      <3> QED
        BY <1>4, <1>5, <3>3, <3>4, <3>5, <3>6, <3>7 DEF Rule
    <2>2. CASE ~(Pending(r) > 0)
      <3>1. t = Result(r, TRUE)
        BY <1>3, <2>2 DEF StoreOrFlush
      <3> HIDE DEF t
      <3>2. t.put = r.put /\ t.file = r.file /\ SameShell(r, t)
        BY <1>2, <3>1, ResultIs
      <3>3. Pending(r) = 0
        BY <1>2, <2>2, GoodFields DEF Pending
      <3>4. /\ HasPut(t) = HasPut(r) /\ Pending(t) = Pending(r) /\ t.size = r.size
            /\ t.isOpen = r.isOpen
        BY <3>2 DEF HasPut, Pending, SameShell
      <3> QED
        BY <1>4, <1>5, <3>2, <3>3, <3>4 DEF Rule, NoErrors
    <2> QED
      BY <2>1, <2>2
  <1>8. z = IF HasPrevWrite(s) THEN Flush(t, o) ELSE t
    BY DEF SyncPut
  <1> HIDE DEF t
  <1>9. CASE HasPrevWrite(s)
    <2>1. z = Flush(t, o)
      BY <1>8, <1>9
    <2> HIDE DEF z
    <2>2. z.put = t.put /\ SameShell(t, z) /\ z.file = FFlush(t.file, fails)
      BY <1>6, <2>1, FlushIs
    <2>3. t.file \in CFiles
      BY <1>6, GoodFields
    <2> HIDE DEF fails
    <2>4. /\ (z.file.misused <=> t.file.misused \/ t.file.op = "read")
          /\ ~fails => z.file.op = "none" /\ z.file.flushed /\ z.file.errs = t.file.errs
          /\ fails => z.file.errs = t.file.errs + 1
      BY <2>2, <2>3, FFlushIs
    <2>5. NoErrors(z) => NoErrors(t) /\ ~fails
      BY <2>3, <2>4, ErrsStay DEF NoErrors
    <2>6. /\ HasPut(z) = HasPut(t) /\ Pending(z) = Pending(t) /\ z.size = t.size
          /\ z.isOpen = t.isOpen
      BY <2>2 DEF HasPut, Pending, SameShell
    <2>7. NoErrors(z) => Rule(z) /\ z.file.op = "none" /\ Pending(z) = 0 /\ NoErrors(s)
      BY <1>4, <1>7, <2>2, <2>4, <2>5, <2>6 DEF Rule
    <2> QED
      BY <2>7 DEF Settles, MayGet, z
  <1>10. CASE ~HasPrevWrite(s)
    <2>1. z = t
      BY <1>8, <1>10
    <2>2. NoErrors(t) => Rule(t) /\ t.file.op \notin {"write", "read"} /\ Pending(t) = 0 /\ NoErrors(s)
      BY <1>4, <1>7, <1>10 DEF Rule
    <2> QED
      BY <2>1, <2>2 DEF Settles, MayGet
  <1> QED
    BY <1>9, <1>10

\* Without a put area there is nothing to settle.
LEMMA NoPutSettled ==
    ASSUME NEW s, Good(s), Orderly(s), ~HasPut(s)
    PROVE  MayGet(s)
  <1>1. Pending(s) = 0
    BY NullAreas DEF Good, MemorySafe, PutInBlock, HasPut, Pending
  <1> QED
    BY <1>1 DEF Orderly, MayGet, Rule

LEMMA CalmSettles ==
    ASSUME NEW s, Good(s), Orderly(s), ~HasPut(s), NEW t, Calm(s, t)
    PROVE  Settles(s, t)
  <1>1. MayGet(t)
    BY NoPutSettled, CalmKeeps
  <1> QED
    BY <1>1 DEF Settles, Calm

LEMMA SyncSettles ==
    ASSUME NEW s, Good(s), Orderly(s), NEW o, o.wrote \in Nat
    PROVE  Settles(s, Sync(s, o))
  <1>1. CASE ~s.isOpen
    <2>1. ~HasPut(s)
      BY <1>1 DEF Good, MemorySafe, ClosedIsClean
    <2>2. Calm(s, Result(s, TRUE))
      BY ResultCalm
    <2>3. Sync(s, o) = Result(s, TRUE)
      BY <1>1 DEF Sync
    <2> QED
      BY <2>1, <2>2, <2>3, CalmSettles
  <1>2. CASE s.isOpen /\ HasPut(s)
    BY <1>2, SyncPutSettles DEF Sync
  <1>3. CASE s.isOpen /\ ~HasPut(s)
    BY <1>3, StopReadingCalm, CalmSettles DEF Sync
  <1> QED
    BY <1>1, <1>2, <1>3

LEMMA SettlesThenCalm ==
    ASSUME NEW s, NEW t, NEW u, Settles(s, t), Calm(t, u)
    PROVE  Settles(s, u)
  <1>1. MayGet(u)
    BY CalmKeeps DEF Settles
  <1> QED
    BY <1>1 DEF Settles, Calm

LEMMA SeekTo ==
    ASSUME NEW f \in CFiles, NEW p, p >= 0
    PROVE  LET g == FSeek(f, p, FALSE)
           IN /\ g.data = f.data /\ g.misused = f.misused /\ g.errs = f.errs
              /\ g.pos = p /\ g.op = "none" /\ g.flushed
  BY DEF FSeek, SeekWorks, CFiles

LEMMA RepositionCalm ==
    ASSUME NEW s, Good(s), NEW p \in Int, NEW o
    PROVE  LET t == Reposition(s, p, o)
           IN Calm(s, t) /\ (NoErrors(t) /\ t.ok => t.file.op = "none")
  <1> DEFINE t == Reposition(s, p, o)
             fails == o.fault = "position"
             tells == o.fault = "tell"
             f == FSeek(s.file, p, FALSE)
  <1>1. s.file \in CFiles
    BY GoodFields
  <1>2. /\ t.put = s.put /\ SameShell(s, t)
        /\ SeekWorks(p, fails) => t.file = FTell(f, tells)
        /\ ~SeekWorks(p, fails) => t.file = FSeek(s.file, p, fails) /\ ~t.ok
    BY ZenonT(30), RepositionIs
  <1> HIDE DEF t
  <1>3. t.put = s.put /\ t.mem = s.mem /\ t.isOpen = s.isOpen /\ t.size = s.size
    BY <1>2 DEF SameShell
  <1>4. CASE SeekWorks(p, fails)
    <2>1. p >= 0
      BY <1>4 DEF SeekWorks
    <2>2. f \in CFiles
      BY <1>1, PositioningType
    <2>3. f.misused = s.file.misused /\ f.errs = s.file.errs /\ f.op = "none" /\ f.flushed
      BY <1>1, <2>1, SeekTo
    <2> HIDE DEF f
    <2>4. t.file = FTell(f, tells)
      BY <1>2, <1>4
    <2> HIDE DEF tells, fails
    <2>5. /\ t.file.misused = f.misused /\ t.file.op = f.op /\ t.file.flushed = f.flushed
          /\ ~tells => t.file.errs = f.errs
          /\ tells => t.file.errs = f.errs + 1
      BY <2>2, <2>4, FTellIs
    <2>6. NoErrors(t) => NoErrors(s)
      BY <2>2, <2>3, <2>5, ErrsStay DEF NoErrors
    <2>7. t.file.misused = s.file.misused /\ t.file.op = "none" /\ t.file.flushed
      BY <2>3, <2>5
    <2> QED
      BY <1>3, <2>6, <2>7 DEF Calm, t
  <1>5. CASE ~SeekWorks(p, fails)
    <2>1. t.file = FSeek(s.file, p, fails) /\ ~t.ok
      BY <1>2, <1>5
    <2> HIDE DEF fails
    <2>2. /\ t.file.misused = s.file.misused /\ t.file.op = s.file.op
          /\ t.file.flushed = s.file.flushed
          /\ ~fails => t.file.errs = s.file.errs
          /\ fails => t.file.errs = s.file.errs + 1
      BY <1>1, <1>5, <2>1, FSeekIs
    <2>3. NoErrors(t) => NoErrors(s)
      BY <1>1, <2>2, ErrsStay DEF NoErrors
    <2> QED
      BY <1>3, <2>1, <2>2, <2>3 DEF Calm, t
  <1> QED
    BY <1>4, <1>5

LEMMA BaseType ==
    ASSUME NEW s, Good(s), NEW dir \in {"beg", "cur", "end"}
    PROVE  Base(s, dir) \in Nat
  <1>1. s.file.pos \in Nat /\ s.file.data \in Seq(Chars)
    BY GoodFields DEF CFiles
  <1>2. Len(s.file.data) \in Nat
    BY <1>1
  <1> QED
    BY <1>1, <1>2 DEF Base

LEMMA SeekOffSettles ==
    ASSUME NEW s, Good(s), Orderly(s), NEW off \in Int, NEW dir \in {"beg", "cur", "end"},
           NEW o, o.wrote \in Nat
    PROVE  LET t == SeekOff(s, off, dir, o)
           IN Settles(s, t) /\ (NoErrors(t) /\ t.ok => t.file.op = "none")
  <1> DEFINE t == Sync(s, o)
             u == Reposition(t, Base(t, dir) + off, o)
  <1>1. Good(t) /\ Settles(s, t)
    BY SyncGood, SyncSettles
  <1>2. CASE ~s.isOpen
    <2>1. SeekOff(s, off, dir, o) = Result(s, FALSE)
      BY <1>2 DEF SeekOff
    <2>2. ~HasPut(s)
      BY <1>2 DEF Good, MemorySafe, ClosedIsClean
    <2>3. Calm(s, Result(s, FALSE)) /\ ~Result(s, FALSE).ok
      BY ResultCalm, ResultIs
    <2> QED
      BY <2>1, <2>2, <2>3, CalmSettles
  <1>3. CASE s.isOpen
    <2>1. SeekOff(s, off, dir, o) = IF ~t.ok THEN t ELSE u
      BY <1>3 DEF SeekOff
    <2> HIDE DEF t
    <2>2. Base(t, dir) + off \in Int
      BY <1>1, BaseType
    <2>3. Calm(t, u) /\ (NoErrors(u) /\ u.ok => u.file.op = "none")
      BY <1>1, <2>2, RepositionCalm
    <2>4. Settles(s, u)
      BY <1>1, <2>3, SettlesThenCalm
    <2> HIDE DEF u
    <2> QED
      BY <1>1, <2>1, <2>3, <2>4
  <1> QED
    BY <1>2, <1>3

LEMMA CloseSettles ==
    ASSUME NEW s, Good(s), Orderly(s), NEW o, o.wrote \in Nat
    PROVE  LET t == Close(s, o)
           IN Settles(s, t) /\ (NoErrors(t) => t.file.op = "none")
  <1> DEFINE t == Sync(s, o)
             z == Close(s, o)
             fails == o.fault = "close"
  <1>1. CASE ~s.isOpen
    <2>1. Close(s, o) = Result(s, FALSE)
      BY <1>1 DEF Close
    <2>2. ~HasPut(s)
      BY <1>1 DEF Good, MemorySafe, ClosedIsClean
    <2>3. Calm(s, Result(s, FALSE))
      BY ResultCalm
    <2>4. Settles(s, Result(s, FALSE))
      BY <2>2, <2>3, CalmSettles
    <2>5. NoErrors(s) => s.file.op = "none"
      BY <1>1 DEF Orderly, Rule
    <2>6. Result(s, FALSE).file = s.file
      BY ResultIs
    <2> QED
      BY <2>1, <2>4, <2>5, <2>6 DEF NoErrors
  <1>2. CASE s.isOpen
    <2>1. Good(t) /\ Settles(s, t) /\ t.file \in CFiles
      BY SyncGood, SyncSettles, GoodFields
    <2>2. z.put = NoPut /\ z.file = FClose(t.file, fails)
      BY <1>2, CloseIs
    <2> HIDE DEF t, z, fails
    <2>3. /\ z.file.misused = t.file.misused /\ z.file.op = "none" /\ z.file.flushed
          /\ ~fails => z.file.errs = t.file.errs
          /\ fails => z.file.errs = t.file.errs + 1
      BY <2>1, <2>2, FCloseIs
    <2>4. NoErrors(z) => NoErrors(t)
      BY <2>1, <2>3, ErrsStay DEF NoErrors
    <2>5. ~HasPut(z) /\ Pending(z) = 0
      BY <2>2, NullAreas DEF HasPut, Pending
    <2>6. MayGet(z)
      BY <2>1, <2>3, <2>4, <2>5 DEF Settles, MayGet, Rule
    <2> QED
      BY <2>1, <2>3, <2>4, <2>6 DEF Settles, z
  <1> QED
    BY <1>1, <1>2

LEMMA OpenSettles ==
    ASSUME NEW s, Good(s), Orderly(s), NEW m \in SUBSET Flags, NEW o
    PROVE  LET t == Open(s, m, o)
           IN /\ Orderly(t)
              /\ NoErrors(t) => /\ NoErrors(s)
                                /\ t.ok => t.file.op = "none" /\ Pending(t) = 0
                                /\ ~t.ok => t.file = s.file /\ t.put = s.put
  <1> DEFINE t == Open(s, m, o)
             x == [s EXCEPT !.file.errs = @ + 1, !.ok = FALSE]
  <1>0. s.file \in CFiles
    BY GoodFields
  <1>1. CASE s.isOpen \/ GetMode(m) = "none"
    <2>1. t = Result(s, FALSE)
      BY <1>1 DEF Open
    <2>2. Calm(s, Result(s, FALSE)) /\ ~Result(s, FALSE).ok
          /\ Result(s, FALSE).file = s.file /\ Result(s, FALSE).put = s.put
      BY ResultCalm, ResultIs
    <2>3. Orderly(Result(s, FALSE))
      BY <2>2, CalmKeeps
    <2> HIDE DEF t
    <2> QED
      BY <2>1, <2>2, <2>3 DEF t, NoErrors
  <1>2. CASE ~(s.isOpen \/ GetMode(m) = "none") /\ o.fault = "open"
    <2>1. t = x
      BY <1>2 DEF Open
    <2>2. x.file.errs = s.file.errs + 1
      BY <1>0 DEF Good, FileBufs, CFiles
    <2> HIDE DEF x
    <2>3. ~NoErrors(x)
      BY <1>0, <2>2, ErrsStay DEF NoErrors
    <2> QED
      BY <2>1, <2>3 DEF Orderly
  <1>3. CASE ~(s.isOpen \/ GetMode(m) = "none") /\ o.fault # "open"
    <2> DEFINE y == Opened(s, m, o)
               ends == "ate" \in m /\ o.fault = "end"
    <2>0. ~s.isOpen
      BY <1>3
    <2>1. t = y
      BY <1>3 DEF Open
    <2>6. /\ y.put = NoPut
          /\ ~ends => y.isOpen /\ y.ok /\ y.file = OpenedFile(s, m)
          /\ ends => ~y.isOpen /\ ~y.ok /\ y.file.errs # 0
      <3>1. OpenedWell(s, m, ends, y)
        BY <2>0, OpenedIs
      <3> HIDE DEF y, ends
      <3> QED
        BY <3>1 DEF OpenedWell
    <2> HIDE DEF t, y, ends
    <2>2. t.put = NoPut
      BY <2>1, <2>6
    <2>3. ~HasPut(t) /\ Pending(t) = 0
      BY <2>2, NullAreas DEF HasPut, Pending
    <2>4. CASE ends
      <3>1. ~NoErrors(t)
        BY <2>1, <2>4, <2>6 DEF NoErrors
      <3> QED
        BY <3>1 DEF Orderly, t
    <2>5. CASE ~ends
      <3> DEFINE trunc == GetMode(m) \in {"w", "w+"}
                 f == FOpen(s.file, trunc)
      <3>1. t.isOpen /\ t.ok /\ t.file = OpenedFile(s, m)
        BY <2>1, <2>5, <2>6
      <3>2. trunc \in BOOLEAN
        OBVIOUS
      <3>3. OpenedFile(s, m) = IF "ate" \in m THEN FSeek(f, Len(f.data), FALSE) ELSE f
        BY DEF OpenedFile
      <3> HIDE DEF trunc
      <3>4. f.misused = s.file.misused /\ f.op = "none" /\ f.flushed /\ f.errs = s.file.errs
        BY <1>0, FOpenIs
      <3>5. f \in CFiles
        BY <1>0, <3>2, CCallType
      <3> HIDE DEF f
      <3>6. Len(f.data) >= 0
        <4>1. f.data \in Seq(Chars)
          BY <3>5 DEF CFiles
        <4> QED
          BY <4>1
      <3>7. /\ t.file.misused = s.file.misused /\ t.file.op = "none" /\ t.file.flushed
            /\ t.file.errs = s.file.errs
        <4>1. CASE "ate" \in m
          <5> DEFINE e == FSeek(f, Len(f.data), FALSE)
          <5>1. /\ e.misused = f.misused /\ e.errs = f.errs /\ e.op = "none" /\ e.flushed
            BY <3>5, <3>6, SeekTo
          <5>2. t.file = e
            BY <3>1, <3>3, <4>1
          <5> HIDE DEF e
          <5> QED
            BY <3>4, <5>1, <5>2
        <4>2. CASE "ate" \notin m
          BY <3>1, <3>3, <3>4, <4>2
        <4> QED
          BY <4>1, <4>2
      <3> QED
        BY <2>3, <3>1, <3>7 DEF Orderly, Rule, NoErrors, t
    <2> QED
      BY <2>4, <2>5
  <1> QED
    BY <1>1, <1>2, <1>3

----------------------------------------------------------------------------
\* The rule of C for files open in both directions, and what sync leaves.

\* The calls after which, if they succeed, nothing is pending.
SettlingCalls == {"pubsync", "pubseekoff", "open", "pubsetbuf", "close"}

\* How the C stream stands to what the caller has been doing.
InPhase(s, ph) ==
    /\ Rule(s)
    /\ s.file.op = "write" => ph = "writing"
    /\ s.file.op = "read" => ph = "reading"
    /\ Pending(s) > 0 => ph = "writing"

Usage(s, ph, c) ==
    Disciplined /\ NoErrors(s) =>
        /\ InPhase(s, ph)
        /\ s.ok /\ c \in SettlingCalls => Pending(s) = 0 /\ s.file.op # "write"

UsageInv == Usage(fb, phase, call)

LEMMA StepUsage ==
    ASSUME NEW s, NEW ph, NEW c, Usage(s, ph, c), fb' = s, phase' = ph, call' = c
    PROVE  UsageInv'
  <1> DEFINE U(t, p, k) == Usage(t, p, k)
  <1>1. UsageInv' = Usage(fb', phase', call')
    BY DEF UsageInv, Usage, InPhase, Rule, NoErrors, HasPut, HasPrevWrite, Pending
  <1> QED
    BY <1>1

LEMMA CalmInPhase ==
    ASSUME NEW s, NEW t, NEW ph, Calm(s, t), NoErrors(s) => InPhase(s, ph)
    PROVE  NoErrors(t) => InPhase(t, ph)
  <1>1. HasPut(t) = HasPut(s) /\ Pending(t) = Pending(s) /\ (HasPrevWrite(t) <=> HasPrevWrite(s))
    BY DEF Calm, HasPut, Pending, HasPrevWrite
  <1> QED
    BY <1>1 DEF Calm, InPhase, Rule

LEMMA EntryInPhase ==
    ASSUME Inv, UsageInv, Disciplined
    PROVE  NoErrors(Entry) => InPhase(Entry, phase)
  <1>1. /\ Entry.file = fb.file /\ Entry.put = fb.put /\ Entry.mem = fb.mem
        /\ Entry.size = fb.size /\ Entry.isOpen = fb.isOpen
    BY DEF Entry, Inv, Good, FileBufs
  <1>2. Calm(fb, Entry)
    BY <1>1 DEF Calm, NoErrors
  <1>3. NoErrors(fb) => InPhase(fb, phase)
    BY DEF UsageInv, Usage
  <1> QED
    BY <1>2, <1>3, CalmInPhase

\* A call that reads.
LEMMA ReadsUsage ==
    ASSUME Inv, UsageInv, NEW name, name \notin SettlingCalls, NEW t, Reads(name, t),
           ReadWell(Entry, t)
    PROVE  UsageInv'
  <1> DEFINE s == Entry
  <1>1. fb' = t /\ call' = name
    BY DEF Reads
  <1>2. CanRead(s) <=> CanRead(fb)
    BY DEF Entry, CanRead, Inv, Good, FileBufs
  <1>3. Usage(t, phase', name)
    <2> SUFFICES ASSUME Disciplined, NoErrors(t)
                 PROVE  InPhase(t, phase')
      BY DEF Usage
    <2>1. NoErrors(s) => InPhase(s, phase)
      BY EntryInPhase
    <2> HIDE DEF s
    <2>2. CASE CanRead(fb)
      <3>1. phase # "writing" /\ phase' = IF t.ok THEN "reading" ELSE "free"
        BY <2>2 DEF Reads, MayRead
      <3>2. MayGet(s)
        <4>1. ASSUME NoErrors(s) PROVE Pending(s) = 0
          <5>1. ~(Pending(s) > 0)
            BY <2>1, <3>1, <4>1 DEF InPhase
          <5>2. Pending(s) \in Nat
            <6>1. s.put.chars \in Seq(Chars)
              BY EntryGood, GoodFields DEF Inv, s
            <6> QED
              BY <6>1 DEF Pending
          <5> QED
            BY <5>1, <5>2
        <4> QED
          BY <2>1, <3>1, <4>1 DEF InPhase, MayGet
      <3>3. MayGet(t) /\ Ended(t)
        BY <1>2, <2>2, <3>2 DEF ReadWell, s
      <3>4. Rule(t) /\ t.file.op # "write" /\ Pending(t) = 0
        BY <3>3 DEF MayGet
      <3>5. t.file.op = "read" => t.ok
        BY <3>3 DEF Ended
      <3> QED
        BY <3>1, <3>4, <3>5 DEF InPhase
    <2>3. CASE ~CanRead(fb)
      <3>1. phase' = phase
        BY <2>3 DEF Reads
      <3>2. Calm(s, t)
        BY <1>2, <2>3 DEF ReadWell, s
      <3> QED
        BY <2>1, <3>1, <3>2, CalmInPhase
    <2> QED
      BY <2>2, <2>3
  <1> QED
    BY <1>1, <1>3, StepUsage

\* A call that writes.
LEMMA WritesUsage ==
    ASSUME Inv, UsageInv, NEW name, name \notin SettlingCalls, NEW t, Writes(name, t),
           CanWrite(Entry) /\ MayPut(Entry) => MayPut(t),
           ~CanWrite(Entry) => Calm(Entry, t)
    PROVE  UsageInv'
  <1> DEFINE s == Entry
  <1>1. fb' = t /\ call' = name
    BY DEF Writes
  <1>2. CanWrite(s) <=> CanWrite(fb)
    BY DEF Entry, CanWrite, Inv, Good, FileBufs
  <1>3. Usage(t, phase', name)
    <2> SUFFICES ASSUME Disciplined, NoErrors(t)
                 PROVE  InPhase(t, phase')
      BY DEF Usage
    <2>1. NoErrors(s) => InPhase(s, phase)
      BY EntryInPhase
    <2> HIDE DEF s
    <2>2. CASE CanWrite(fb)
      <3>1. phase # "reading" /\ phase' = "writing"
        BY <2>2 DEF Writes, MayWrite
      <3>2. MayPut(s)
        BY <2>1, <3>1 DEF InPhase, MayPut
      <3>3. MayPut(t)
        BY <1>2, <2>2, <3>2 DEF s
      <3>4. Rule(t) /\ t.file.op # "read"
        BY <3>3 DEF MayPut
      <3> QED
        BY <3>1, <3>4 DEF InPhase
    <2>3. CASE ~CanWrite(fb)
      <3>1. phase' = phase
        BY <2>3 DEF Writes
      <3>2. Calm(s, t)
        BY <1>2, <2>3 DEF s
      <3> QED
        BY <2>1, <3>1, <3>2, CalmInPhase
    <2> QED
      BY <2>2, <2>3
  <1> QED
    BY <1>1, <1>3, StepUsage

\* A call that settles, and leaves the caller in phase ph.
LEMMA SettlesUsage ==
    ASSUME Inv, UsageInv, Disciplined, NEW t, Settles(Entry, t), NEW ph,
           \/ ph = phase
           \/ ph = "free" /\ (NoErrors(t) => t.file.op # "read")
           \/ ph = "free" /\ phase = "writing",
           NEW c
    PROVE  Usage(t, ph, c)
  <1> DEFINE s == Entry
  <1> SUFFICES ASSUME NoErrors(t)
               PROVE  InPhase(t, ph) /\ Pending(t) = 0 /\ t.file.op # "write"
    BY DEF Usage
  <1>1. NoErrors(s) => InPhase(s, phase)
    BY EntryInPhase
  <1>2. /\ Rule(t) /\ Pending(t) = 0 /\ t.file.op # "write" /\ NoErrors(s)
        /\ t.file.op = "read" => s.file.op = "read"
    BY DEF Settles, MayGet
  <1> HIDE DEF s
  <1>3. t.file.op = "read" => phase = "reading"
    BY <1>1, <1>2 DEF InPhase
  <1> QED
    BY <1>2, <1>3 DEF InPhase

LEMMA NotDisciplined ==
    ASSUME ~Disciplined, NEW t, NEW ph, NEW c
    PROVE  Usage(t, ph, c)
  BY DEF Usage

LEMMA NextUsage == Inv /\ UsageInv /\ [Next]_vars => UsageInv'
  <1> SUFFICES ASSUME Inv, UsageInv, [Next]_vars PROVE UsageInv'
    OBVIOUS
  <1>0. Good(Entry) /\ Entry.got = <<>>
    BY EntryGood DEF Inv
  <1>a. Disciplined => /\ Orderly(Entry)
                       /\ NoErrors(Entry) => InPhase(Entry, phase)
    BY EntryInPhase DEF Orderly, InPhase
  <1>1. CASE OpenFile
    <2>1. PICK m \in Modes, o \in Outcomes({"open", "end"}) :
              /\ fb' = Open(Entry, m, o)
              /\ phase' = IF fb'.ok THEN "free" ELSE phase
              /\ call' = "open"
      BY <1>1 DEF OpenFile
    <2> DEFINE t == Open(Entry, m, o)
    <2>2. m \in SUBSET Flags
      BY ModesAssumption
    <2>3. Usage(t, phase', "open")
      <3> SUFFICES ASSUME Disciplined, NoErrors(t)
                   PROVE  InPhase(t, phase') /\ (t.ok => Pending(t) = 0 /\ t.file.op # "write")
        BY DEF Usage
      <3>1. /\ Orderly(t)
            /\ NoErrors(t) => /\ NoErrors(Entry)
                              /\ t.ok => t.file.op = "none" /\ Pending(t) = 0
                              /\ ~t.ok => t.file = Entry.file /\ t.put = Entry.put
        BY <1>0, <1>a, <2>2, OpenSettles
      <3>2. phase' = IF t.ok THEN "free" ELSE phase
        BY <2>1
      <3> HIDE DEF t
      <3>3. Rule(t)
        BY <3>1 DEF Orderly
      <3>4. InPhase(Entry, phase)
        BY <1>a, <3>1
      <3>5. CASE t.ok
        BY <3>1, <3>2, <3>3, <3>5 DEF InPhase
      <3>6. CASE ~t.ok
        BY <3>1, <3>2, <3>3, <3>4, <3>6 DEF InPhase, Pending
      <3> QED
        BY <3>5, <3>6
    <2> HIDE DEF t
    <2> QED
      BY <2>1, <2>3, StepUsage DEF t
  <1>2. CASE CloseFile
    <2>1. PICK o \in Outcomes(SyncCalls \cup {"close"}) :
              fb' = Close(Entry, o) /\ phase' = "free" /\ call' = "close"
      BY <1>2 DEF CloseFile
    <2> DEFINE t == Close(Entry, o)
    <2>2. Disciplined => Settles(Entry, t) /\ (NoErrors(t) => t.file.op = "none")
      BY <1>0, <1>a, OutcomeType, CloseSettles
    <2> HIDE DEF t
    <2>3. Usage(t, "free", "close")
      BY <2>2, SettlesUsage, NotDisciplined
    <2> QED
      BY <2>1, <2>3, StepUsage DEF t
  <1>3. CASE Pubsetbuf
    <2>1. PICK b \in UserBufs \cup {Null}, n \in Sizes :
              fb' = SetBuf(Entry, b, n) /\ call' = "pubsetbuf" /\ phase' = phase
      BY <1>3 DEF Pubsetbuf
    <2>2. n \in Nat
      BY SizesAssumption
    <2> DEFINE t == SetBuf(Entry, b, n)
    <2>3. t.put = NoPut /\ SameUse(Entry, t) /\ t.file = Entry.file
      BY <1>0, <2>2, SetBufIs
    <2>4. Entry.isOpen = fb.isOpen /\ Entry.file = fb.file
      BY DEF Entry, Inv, Good, FileBufs
    <2>5. Settled
      BY <1>3 DEF Pubsetbuf
    <2> HIDE DEF t
    <2>6. ~HasPut(t) /\ Pending(t) = 0 /\ t.isOpen = Entry.isOpen
      BY <2>3, NullAreas DEF HasPut, Pending, SameUse
    <2>7. Usage(t, phase, "pubsetbuf")
      <3> SUFFICES ASSUME Disciplined, NoErrors(t)
                   PROVE  InPhase(t, phase) /\ t.file.op # "write"
        BY <2>6 DEF Usage
      <3>1. NoErrors(Entry) /\ InPhase(Entry, phase)
        BY <1>a, <2>3 DEF NoErrors
      <3>2. Entry.file.op # "write"
        <4>1. CASE ~fb.isOpen
          BY <2>4, <3>1, <4>1 DEF InPhase, Rule
        <4>2. CASE fb.ok /\ call \in SettlingCalls
          <5>1. NoErrors(fb)
            BY <2>4, <3>1 DEF NoErrors
          <5> QED
            BY <2>4, <4>2, <5>1 DEF UsageInv, Usage
        <4> QED
          BY <2>5, <4>1, <4>2 DEF Settled, SettlingCalls
      <3> QED
        BY <2>3, <2>6, <3>1, <3>2 DEF InPhase, Rule
    <2> QED
      BY <2>1, <2>7, StepUsage DEF t
  <1>4. CASE Pubsync
    <2>1. PICK o \in Outcomes(SyncCalls) :
              /\ fb' = Sync(Entry, o)
              /\ phase' = IF phase = "writing" /\ fb'.ok THEN "free" ELSE phase
              /\ call' = "pubsync"
      BY <1>4 DEF Pubsync
    <2> DEFINE t == Sync(Entry, o)
    <2>2. Disciplined => Settles(Entry, t)
      BY <1>0, <1>a, OutcomeType, SyncSettles
    <2> HIDE DEF t
    <2>3. phase' = phase \/ (phase' = "free" /\ phase = "writing")
      BY <2>1
    <2>4. Usage(t, phase', "pubsync")
      BY <2>2, <2>3, SettlesUsage, NotDisciplined
    <2> QED
      BY <2>1, <2>4, StepUsage DEF t
  <1>5. CASE Pubseekoff
    <2>1. PICK off \in Offsets, dir \in {"beg", "cur", "end"},
               o \in Outcomes(SyncCalls \cup {"position", "tell"}) :
              /\ fb' = SeekOff(Entry, off, dir, o)
              /\ phase' = IF fb'.ok THEN "free" ELSE phase
              /\ call' = "pubseekoff"
      BY <1>5 DEF Pubseekoff
    <2> DEFINE t == SeekOff(Entry, off, dir, o)
    <2>2. off \in Int /\ o.wrote \in Nat
      BY DataAssumption, OutcomeType
    <2>3. Disciplined => Settles(Entry, t) /\ (NoErrors(t) /\ t.ok => t.file.op = "none")
      BY <1>0, <1>a, <2>2, SeekOffSettles
    <2>4. phase' = IF t.ok THEN "free" ELSE phase
      BY <2>1
    <2> HIDE DEF t
    <2>5. phase' = phase \/ (phase' = "free" /\ t.ok)
      BY <2>4
    <2>6. Usage(t, phase', "pubseekoff")
      BY <2>3, <2>5, SettlesUsage, NotDisciplined
    <2> QED
      BY <2>1, <2>6, StepUsage DEF t
  <1>6. CASE Sgetc
    <2>1. PICK o \in Outcomes({"write"}) : Reads("sgetc", PeekChar(Entry, o))
      BY <1>6 DEF Sgetc
    <2>2. ReadWell(Entry, PeekChar(Entry, o)) /\ "sgetc" \notin SettlingCalls
      BY <1>0, OutcomeType, PeekCharWell DEF SettlingCalls
    <2> QED
      BY <2>1, <2>2, ReadsUsage
  <1>7. CASE Sbumpc
    <2>1. PICK o \in Outcomes({"write"}) : Reads("sbumpc", BumpChar(Entry, o))
      BY <1>7 DEF Sbumpc
    <2>2. ReadWell(Entry, BumpChar(Entry, o)) /\ "sbumpc" \notin SettlingCalls
      BY <1>0, OutcomeType, BumpCharWell DEF SettlingCalls
    <2> QED
      BY <2>1, <2>2, ReadsUsage
  <1>8. CASE Sgetn
    <2>1. PICK n \in Counts, o \in Outcomes({"write"}) : Reads("sgetn", Xsgetn(Entry, n, o))
      BY <1>8 DEF Sgetn
    <2>2. n \in Nat
      BY DataAssumption
    <2>3. ReadWell(Entry, Xsgetn(Entry, n, o)) /\ "sgetn" \notin SettlingCalls
      BY <1>0, <2>2, OutcomeType, XsgetnWell DEF SettlingCalls
    <2> QED
      BY <2>1, <2>3, ReadsUsage
  <1>9. CASE Sungetc \/ Sputbackc
    <2>1. PICK c : fb' = PbackFail(Entry, c)
      BY <1>9 DEF Sungetc, Sputbackc
    <2>2. phase' = phase /\ call' \notin SettlingCalls
      BY <1>9 DEF Sungetc, Sputbackc, SettlingCalls
    <2> DEFINE t == PbackFail(Entry, c)
    <2>3. Calm(Entry, t)
      BY <1>0, PbackFailCalm
    <2> HIDE DEF t
    <2>4. Usage(t, phase', call')
      <3>1. Disciplined => (NoErrors(t) => InPhase(t, phase))
        BY <1>a, <2>3, CalmInPhase
      <3> QED
        BY <2>2, <3>1 DEF Usage
    <2> QED
      BY <2>1, <2>4, StepUsage DEF t
  <1>10. CASE Sputc
    <2>1. PICK c \in Chars, o \in Outcomes(OutputCalls) : Writes("sputc", PutChar(Entry, c, o))
      BY <1>10 DEF Sputc
    <2>2. CanWrite(Entry) /\ MayPut(Entry) => MayPut(PutChar(Entry, c, o))
      BY <1>0, OutcomeType, PutCharMayPut
    <2>3. ~CanWrite(Entry) => Calm(Entry, PutChar(Entry, c, o))
      BY <1>0, NoWritingCalm
    <2>4. "sputc" \notin SettlingCalls
      BY DEF SettlingCalls
    <2> QED
      BY <2>1, <2>2, <2>3, <2>4, WritesUsage
  <1>11. CASE Sputn
    <2>1. PICK w \in Strings, o \in Outcomes(OutputCalls) : Writes("sputn", Xsputn(Entry, w, o))
      BY <1>11 DEF Sputn
    <2>2. w \in Seq(Chars)
      BY DataAssumption
    <2>3. CanWrite(Entry) /\ MayPut(Entry) => MayPut(Xsputn(Entry, w, o))
      BY <1>0, <2>2, OutcomeType, XsputnMayPut
    <2>4. ~CanWrite(Entry) => Calm(Entry, Xsputn(Entry, w, o))
      BY <1>0, <2>2, NoWritingCalm
    <2>5. "sputn" \notin SettlingCalls
      BY DEF SettlingCalls
    <2> QED
      BY <2>1, <2>3, <2>4, <2>5, WritesUsage
  <1>12. CASE UNCHANGED vars
    <2>1. fb' = fb /\ phase' = phase /\ call' = call
      BY <1>12 DEF vars
    <2>2. Usage(fb, phase, call)
      BY DEF UsageInv
    <2> QED
      BY <2>1, <2>2, StepUsage
  <1> QED
    BY <1>1, <1>2, <1>3, <1>4, <1>5, <1>6, <1>7, <1>8, <1>9, <1>10, <1>11, <1>12 DEF Next

LEMMA InitUsage == Init => UsageInv
  <1> SUFFICES ASSUME Init PROVE UsageInv
    OBVIOUS
  <1>1. PICK d \in Contents : fb = NewFileBuf(NewFile(d))
    BY DEF Init
  <1>2. /\ fb.file.op = "none" /\ fb.file.flushed /\ ~fb.file.misused
        /\ fb.put = NoPut /\ call \notin SettlingCalls
    BY <1>1 DEF Init, NewFileBuf, NewFile, SettlingCalls
  <1>3. ~HasPut(fb) /\ Pending(fb) = 0
    BY <1>2, NullAreas DEF HasPut, Pending
  <1> QED
    BY <1>2, <1>3 DEF UsageInv, Usage, InPhase, Rule

LEMMA UsageAlways == Spec => []UsageInv
  BY InitUsage, NextUsage, InvAlways, PTL DEF Spec

\* Of every caller that positions between output and input, with any buffer and any lengths:
\* while no C call fails, the filebuf never lets a read of the C stream follow a write, or a
\* write a read, without the call C asks for between them, although it splits, delays and
\* merges the transfers.
THEOREM StdioIsRespected == Spec => []StdioContract
  <1>1. UsageInv => StdioContract
    BY DEF UsageInv, Usage, StdioContract, InPhase, Rule, NoErrors
  <1> QED
    BY <1>1, UsageAlways, PTL

\* After a sync, seek or close that succeeds nothing waits, neither in the put area nor in the
\* C stream: an empty put area over last_char_, or one that starts past the start of the
\* buffer, is enough of a mark for sync to flush what was written around the buffer.
THEOREM SyncIsDurable == Spec => []SyncMakesDurable
  <1>1. Inv /\ UsageInv => SyncMakesDurable
    BY DEF UsageInv, Usage, SyncMakesDurable, InPhase, Rule, NoErrors, SettlingCalls
  <1> QED
    BY <1>1, UsageAlways, InvAlways, PTL

----------------------------------------------------------------------------
\* What the caller sees of the file through the buffers.

LEMMA OverwriteIs ==
    ASSUME NEW d \in Seq(Chars), NEW at \in Nat, NEW w \in Seq(Chars), w # <<>>
    PROVE  LET t == Overwrite(d, at, w)
           IN /\ Overwrite(d, at, w) \in Seq(Chars)
              /\ Len(t) = Greatest(Len(d), at + Len(w))
              /\ \A i \in 1..Len(t) :
                     t[i] = IF i > at /\ i <= at + Len(w) THEN w[i - at]
                            ELSE IF i <= Len(d) THEN d[i] ELSE Hole
  <1> DEFINE n == Greatest(Len(d), at + Len(w))
             t == Overwrite(d, at, w)
  <1>1. t \in Seq(Chars)
    BY OverwriteType
  <1>2. t = [i \in 1..n |-> IF i > at /\ i <= at + Len(w) THEN w[i - at]
                            ELSE IF i <= Len(d) THEN d[i] ELSE Hole]
    BY DEF Overwrite
  <1>3. n \in Nat
    BY DEF Greatest
  <1>4. Len(t) = n
    <2>1. DOMAIN t = 1..n
      BY <1>2
    <2> HIDE DEF t, n
    <2> QED
      BY <1>1, <1>3, <2>1
  <1> QED
    BY <1>1, <1>2, <1>4

\* Writing v and then w right behind it is writing both.
LEMMA OverwriteTwice ==
    ASSUME NEW d \in Seq(Chars), NEW at \in Nat,
           NEW v \in Seq(Chars), NEW w \in Seq(Chars), v # <<>>, w # <<>>
    PROVE  Overwrite(Overwrite(d, at, v), at + Len(v), w) = Overwrite(d, at, Join(v, w))
  <1> DEFINE e == Overwrite(d, at, v)
             x == Overwrite(e, at + Len(v), w)
             vw == Join(v, w)
             y == Overwrite(d, at, vw)
  <1>1. /\ vw \in Seq(Chars) /\ Len(vw) = Len(v) + Len(w)
        /\ \A i \in 1..Len(vw) : vw[i] = IF i <= Len(v) THEN v[i] ELSE w[i - Len(v)]
    BY DEF Join
  <1>2. Len(v) \in Nat /\ Len(w) \in Nat /\ Len(d) \in Nat /\ Len(v) > 0 /\ Len(w) > 0
    OBVIOUS
  <1>3. vw # <<>>
    BY <1>1, <1>2
  <1>4. /\ e \in Seq(Chars) /\ Len(e) = Greatest(Len(d), at + Len(v))
        /\ \A i \in 1..Len(e) : e[i] = IF i > at /\ i <= at + Len(v) THEN v[i - at]
                                       ELSE IF i <= Len(d) THEN d[i] ELSE Hole
    BY OverwriteIs
  <1>5. /\ y \in Seq(Chars) /\ Len(y) = Greatest(Len(d), at + Len(vw))
        /\ \A i \in 1..Len(y) : y[i] = IF i > at /\ i <= at + Len(vw) THEN vw[i - at]
                                       ELSE IF i <= Len(d) THEN d[i] ELSE Hole
    BY <1>1, <1>3, OverwriteIs
  <1> HIDE DEF e, vw, y
  <1>6. at + Len(v) \in Nat
    BY <1>2
  <1>7. /\ x \in Seq(Chars) /\ Len(x) = Greatest(Len(e), at + Len(v) + Len(w))
        /\ \A i \in 1..Len(x) :
               x[i] = IF i > at + Len(v) /\ i <= at + Len(v) + Len(w) THEN w[i - (at + Len(v))]
                      ELSE IF i <= Len(e) THEN e[i] ELSE Hole
    BY <1>4, <1>6, OverwriteIs
  <1> HIDE DEF x
  <1>8. Len(x) = Len(y)
    BY <1>1, <1>2, <1>4, <1>5, <1>7 DEF Greatest
  <1>9. ASSUME NEW i \in 1..Len(x) PROVE x[i] = y[i]
    <2>1. i \in 1..Len(y) /\ i \in Nat
      BY <1>8
    <2>2. CASE i > at + Len(v) /\ i <= at + Len(v) + Len(w)
      <3>1. x[i] = w[i - (at + Len(v))]
        BY <1>7, <2>2
      <3>2. y[i] = vw[i - at]
        BY <1>1, <1>2, <1>5, <2>1, <2>2
      <3>3. vw[i - at] = w[(i - at) - Len(v)]
        <4>1. i - at \in 1..Len(vw) /\ ~(i - at <= Len(v))
          BY <1>1, <1>2, <2>1, <2>2
        <4> QED
          BY <1>1, <4>1
      <3>4. (i - at) - Len(v) = i - (at + Len(v))
        BY <1>2, <2>1
      <3> QED
        BY <3>1, <3>2, <3>3, <3>4
    <2>3. CASE i > at /\ i <= at + Len(v)
      <3>1. i \in 1..Len(e)
        BY <1>2, <1>4, <2>1, <2>3 DEF Greatest
      <3>2. x[i] = e[i]
        BY <1>2, <1>7, <2>1, <2>3, <3>1
      <3>3. e[i] = v[i - at]
        BY <1>4, <2>3, <3>1
      <3>4. y[i] = vw[i - at] /\ vw[i - at] = v[i - at]
        BY <1>1, <1>2, <1>5, <2>1, <2>3
      <3> QED
        BY <3>2, <3>3, <3>4
    <2>4. CASE i <= at \/ i > at + Len(v) + Len(w)
      <3>1. y[i] = IF i <= Len(d) THEN d[i] ELSE Hole
        BY <1>1, <1>2, <1>5, <2>1, <2>4
      <3>2. x[i] = IF i <= Len(e) THEN e[i] ELSE Hole
        BY <1>2, <1>7, <2>1, <2>4
      <3>3. i <= Len(e) => e[i] = IF i <= Len(d) THEN d[i] ELSE Hole
        BY <1>2, <1>4, <2>1, <2>4
      <3>4. i > Len(e) => i > Len(d)
        BY <1>2, <1>4, <2>1 DEF Greatest
      <3>5. Len(e) \in Nat
        BY <1>4
      <3> QED
        BY <1>2, <2>1, <3>1, <3>2, <3>3, <3>4, <3>5
    <2> QED
      BY <1>2, <2>1, <2>2, <2>3, <2>4
  <1> QED
    BY SMTT(30), <1>5, <1>7, <1>8, <1>9 DEF x, y, e, vw

LEMMA ContentType ==
    ASSUME NEW s, Good(s)
    PROVE  /\ Content(s) \in Seq(Chars)
           /\ Pending(s) = 0 => Content(s) = s.file.data
           /\ WritePos(s.file, AppendMode(s)) \in Nat
  <1> DEFINE d == s.file.data
             at == WritePos(s.file, AppendMode(s))
             w == s.put.chars
  <1>1. s.file \in CFiles /\ w \in Seq(Chars)
    BY GoodFields
  <1>2. d \in Seq(Chars) /\ s.file.pos \in Nat
    BY <1>1 DEF CFiles
  <1>3. at \in Nat
    BY <1>2 DEF WritePos
  <1>4. Pending(s) = 0 => w = <<>>
    BY <1>1 DEF Pending
  <1>5. w = <<>> => Overwrite(d, at, w) = d
    BY DEF Overwrite
  <1>6. Content(s) = Overwrite(d, at, w)
    BY DEF Content
  <1> HIDE DEF d, at, w
  <1>7. Overwrite(d, at, w) \in Seq(Chars)
    BY <1>1, <1>2, <1>3, OverwriteType
  <1> QED
    BY <1>3, <1>4, <1>5, <1>6, <1>7 DEF d, at

LEMMA PositionType ==
    ASSUME NEW s, Good(s), InPlace(s)
    PROVE  /\ Position(s) \in Nat /\ Pending(s) \in Nat /\ Unread(s) \in Nat
           /\ Pending(s) > 0 => Position(s) = WritePos(s.file, AppendMode(s)) + Pending(s)
           /\ Pending(s) = 0 => Position(s) = s.file.pos - Unread(s)
  <1>1. s.file.pos \in Nat /\ s.put.chars \in Seq(Chars) /\ s.get.chars \in Seq(Chars)
        /\ s.get.idx \in Nat
    <2>1. s.file \in CFiles /\ s.get \in GetAreas /\ s.put \in PutAreas
      BY DEF Good, FileBufs
    <2> QED
      BY <2>1 DEF CFiles, GetAreas, PutAreas
  <1>2. Pending(s) \in Nat
    BY <1>1 DEF Pending
  <1>3. Unread(s) \in Nat /\ Unread(s) <= Len(s.get.chars)
    <2>1. s.get.idx <= Len(s.get.chars)
      BY DEF Good, MemorySafe, GetInBlock
    <2> QED
      BY <1>1, <2>1 DEF Unread
  <1>4. s.file.pos - Unread(s) \in Nat
    <2>1. CASE ~HasGet(s)
      <3>1. Unread(s) = 0
        BY <2>1 DEF Good, MemorySafe, GetInBlock, HasGet, Unread, NoGet
      <3> QED
        BY <1>1, <3>1
    <2>2. CASE s.get.stale
      BY <1>1, <2>2 DEF InPlace
    <2>3. CASE HasGet(s) /\ ~s.get.stale
      <3>1. s.file.pos - Len(s.get.chars) >= 0
        BY <2>3 DEF InPlace, Mirrors, ShowsFile
      <3> QED
        BY <1>1, <1>3, <3>1
    <2> QED
      BY <2>1, <2>2, <2>3
  <1>5. WritePos(s.file, AppendMode(s)) \in Nat
    BY ContentType
  <1>6. Position(s) = IF Pending(s) > 0 THEN WritePos(s.file, AppendMode(s)) + Pending(s)
                      ELSE s.file.pos - Unread(s)
    BY DEF Position
  <1> QED
    BY <1>2, <1>3, <1>4, <1>5, <1>6

NoPutBack == [p \in {} |-> Hole]

\* Where the next character is written.
PutAt(s) == IF AppendMode(s) THEN Len(Content(s)) ELSE Position(s)

\* Between s and t the caller has written w, and nothing else has happened that it could
\* notice, but that what it put back may be forgotten.
Puts(s, t, w) ==
    /\ SameUse(s, t)
    /\ PutBack(t) = PutBack(s) \/ PutBack(t) = NoPutBack
    /\ w = <<>> => Content(t) = Content(s) /\ Position(t) = Position(s)
    /\ w # <<>> => /\ Content(t) = Overwrite(Content(s), PutAt(s), w)
                   /\ Position(t) = PutAt(s) + Len(w)

LEMMA PutsNothing ==
    ASSUME NEW s, NEW t, SameUse(s, t), Content(t) = Content(s), Position(t) = Position(s),
           PutBack(t) = PutBack(s) \/ PutBack(t) = NoPutBack
    PROVE  Puts(s, t, <<>>)
  BY DEF Puts

LEMMA SeqLength ==
    ASSUME NEW w \in Seq(Chars)
    PROVE  Len(w) \in Nat /\ (w # <<>> => Len(w) > 0) /\ (w = <<>> => Len(w) = 0)
  OBVIOUS

LEMMA JoinIs ==
    ASSUME NEW v \in Seq(Chars), NEW w \in Seq(Chars)
    PROVE  /\ Join(v, w) \in Seq(Chars) /\ Len(Join(v, w)) = Len(v) + Len(w)
           /\ v = <<>> => Join(v, w) = w
           /\ w = <<>> => Join(v, w) = v
           /\ v # <<>> \/ w # <<>> => Join(v, w) # <<>>
           /\ \A i \in 1..Len(v) : Join(v, w)[i] = v[i]
           /\ \A i \in 1..Len(w) : Join(v, w)[Len(v) + i] = w[i]
  BY DEF Join

LEMMA JoinEmpty ==
    ASSUME NEW w \in Seq(Chars)
    PROVE  Join(<<>>, w) = w
  BY DEF Join

LEMMA PutsChain ==
    ASSUME NEW s, Good(s), InPlace(s), NEW t, NEW u,
           NEW v \in Seq(Chars), NEW w \in Seq(Chars), Puts(s, t, v), Puts(t, u, w)
    PROVE  Puts(s, u, Join(v, w)) /\ Position(t) \in Nat
  <1> DEFINE at == PutAt(s)
             x == Join(v, w)
  <1>1. Content(s) \in Seq(Chars) /\ Position(s) \in Nat
    BY ContentType, PositionType
  <1>2. at \in Nat
    BY <1>1, SeqLength DEF PutAt
  <1>3. /\ SameUse(s, u) /\ (AppendMode(t) <=> AppendMode(s))
        /\ PutBack(u) = PutBack(s) \/ PutBack(u) = NoPutBack
    BY DEF Puts, SameUse, AppendMode
  <1>4. CASE v = <<>>
    <2>1. x = w /\ Content(t) = Content(s) /\ Position(t) = Position(s)
      BY <1>4, JoinIs DEF Puts
    <2>2. PutAt(t) = PutAt(s)
      BY <1>3, <2>1 DEF PutAt
    <2> QED
      BY <1>1, <1>3, <2>1, <2>2 DEF Puts
  <1>5. CASE v # <<>>
    <2>1. Content(t) = Overwrite(Content(s), at, v) /\ Position(t) = at + Len(v)
      BY <1>5 DEF Puts
    <2>2. Len(v) \in Nat
      BY SeqLength
    <2>3. CASE w = <<>>
      <3>1. x = v /\ Content(u) = Content(t) /\ Position(u) = Position(t)
        BY <2>3, JoinIs DEF Puts
      <3> QED
        BY <1>2, <1>3, <1>5, <2>1, <2>2, <3>1 DEF Puts
    <2>4. CASE w # <<>>
      <3>1. AppendMode(s) => Len(Content(t)) = at + Len(v)
        <4>1. Len(Content(t)) = Greatest(Len(Content(s)), at + Len(v))
          BY <1>1, <1>2, <1>5, <2>1, OverwriteIs
        <4>2. AppendMode(s) => at = Len(Content(s))
          BY DEF PutAt
        <4> QED
          BY <1>2, <2>2, <4>1, <4>2 DEF Greatest
      <3>2. PutAt(t) = at + Len(v)
        BY <1>3, <2>1, <3>1 DEF PutAt
      <3>3. Content(u) = Overwrite(Overwrite(Content(s), at, v), at + Len(v), w)
            /\ Position(u) = at + Len(v) + Len(w)
        BY <2>1, <2>4, <3>2 DEF Puts
      <3>4. Overwrite(Overwrite(Content(s), at, v), at + Len(v), w)
            = Overwrite(Content(s), at, x)
        BY <1>1, <1>2, <1>5, <2>4, OverwriteTwice
      <3>5. x # <<>> /\ Len(x) = Len(v) + Len(w)
        BY <1>5, JoinIs
      <3>6. Len(w) \in Nat
        BY SeqLength
      <3>7. Position(u) = at + Len(x)
        BY <1>2, <2>2, <3>3, <3>5, <3>6
      <3> HIDE DEF x
      <3>8. Puts(s, u, x)
        BY <1>3, <3>3, <3>4, <3>5, <3>7 DEF Puts
      <3> QED
        BY <1>2, <2>1, <2>2, <3>8 DEF x
    <2> QED
      BY <2>3, <2>4
  <1> QED
    BY <1>4, <1>5

LEMMA NoGetPutBack ==
    ASSUME NEW s, s.get = NoGet
    PROVE  PutBack(s) = NoPutBack
  <1>1. s.get.mod = {} /\ s.get.stale = FALSE
    BY DEF NoGet
  <1> QED
    BY <1>1 DEF PutBack, NoPutBack

LEMMA SameView ==
    ASSUME NEW s, NEW t, SameUse(s, t), t.put.chars = s.put.chars,
           t.file.data = s.file.data, t.file.pos = s.file.pos
    PROVE  /\ Content(t) = Content(s) /\ Pending(t) = Pending(s)
           /\ PutAt(t) = PutAt(s) \/ ~AppendMode(s)
           /\ WritePos(t.file, AppendMode(t)) = WritePos(s.file, AppendMode(s))
           /\ Unread(t) = Unread(s) => Position(t) = Position(s) /\ PutAt(t) = PutAt(s)
  <1>1. AppendMode(t) = AppendMode(s)
    BY DEF SameUse, AppendMode
  <1>2. WritePos(t.file, AppendMode(t)) = WritePos(s.file, AppendMode(s))
    BY <1>1 DEF WritePos
  <1>3. Content(t) = Content(s) /\ Pending(t) = Pending(s)
    BY <1>2 DEF Content, Pending
  <1>4. Unread(t) = Unread(s) => Position(t) = Position(s)
    BY <1>2, <1>3 DEF Position
  <1> QED
    BY <1>1, <1>2, <1>3, <1>4 DEF PutAt

LEMMA SamePutBack ==
    ASSUME NEW s, NEW t, t.get.chars = s.get.chars, t.get.mod = s.get.mod,
           t.get.stale = s.get.stale, t.file.pos = s.file.pos
    PROVE  PutBack(t) = PutBack(s)
  BY DEF PutBack

\* While nothing waits to be read, the next character goes behind those that wait to be
\* written.
LEMMA PutAtIs ==
    ASSUME NEW s, Good(s), Unread(s) = 0
    PROVE  /\ PutAt(s) = WritePos(s.file, AppendMode(s)) + Pending(s)
           /\ PutAt(s) \in Nat /\ Pending(s) \in Nat
           /\ Pending(s) > 0 => PutAt(s) = Position(s)
  <1> DEFINE d == s.file.data
             at == WritePos(s.file, AppendMode(s))
             w == s.put.chars
  <1>1. w \in Seq(Chars) /\ d \in Seq(Chars) /\ s.file.pos \in Nat
    BY GoodFields DEF CFiles
  <1>2. at \in Nat
    BY ContentType
  <1>3. Content(s) = Overwrite(d, at, w) /\ Pending(s) = Len(w)
    BY DEF Content, Pending
  <1>4. Len(w) \in Nat /\ Len(d) \in Nat /\ (w # <<>> => Len(w) > 0) /\ (w = <<>> => Len(w) = 0)
    BY <1>1, SeqLength
  <1>5. AppendMode(s) => at = Len(d)
    BY DEF WritePos
  <1>6. ~AppendMode(s) => at = s.file.pos
    BY DEF WritePos
  <1>7. Position(s) = IF Len(w) > 0 THEN at + Len(w) ELSE s.file.pos - 0
    BY <1>3 DEF Position
  <1> HIDE DEF d, at, w
  <1>8. Len(Overwrite(d, at, w)) = IF w = <<>> THEN Len(d) ELSE Greatest(Len(d), at + Len(w))
    <2>1. CASE w = <<>>
      BY <2>1 DEF Overwrite
    <2>2. CASE w # <<>>
      BY <1>1, <1>2, <2>2, OverwriteIs
    <2> QED
      BY <2>1, <2>2
  <1>9. CASE AppendMode(s)
    <2>1. PutAt(s) = Len(Overwrite(d, at, w))
      BY <1>3, <1>9 DEF PutAt
    <2>2. PutAt(s) = at + Len(w)
      BY <1>2, <1>4, <1>5, <1>8, <1>9, <2>1 DEF Greatest
    <2> QED
      BY <1>2, <1>3, <1>4, <1>7, <2>2 DEF at
  <1>10. CASE ~AppendMode(s)
    <2>1. PutAt(s) = Position(s)
      BY <1>10 DEF PutAt
    <2> QED
      BY <1>1, <1>2, <1>3, <1>4, <1>6, <1>7, <1>10, <2>1 DEF at
  <1> QED
    BY <1>9, <1>10

\* Characters join those that wait.
LEMMA StorePuts ==
    ASSUME NEW s, Good(s), InPlace(s), NEW w \in Seq(Chars), ~HasGet(s) \/ w = <<>>
    PROVE  Puts(s, Store(s, w), w) /\ Store(s, w).ok
  <1> DEFINE t == Store(s, w)
             v == s.put.chars
  <1>1. /\ t.get = s.get /\ SameShell(s, t) /\ t.file = s.file /\ t.ok
        /\ t.put.chars = Join(v, w)
    BY StoreIs
  <1>2. v \in Seq(Chars) /\ s.file.data \in Seq(Chars)
    BY GoodFields DEF CFiles
  <1> HIDE DEF t
  <1>3. SameUse(s, t) /\ Unread(t) = Unread(s) /\ PutBack(t) = PutBack(s)
    BY <1>1, SamePutBack DEF SameShell, SameUse, Unread
  <1>4. CASE w = <<>>
    <2>1. t.put.chars = s.put.chars
      BY <1>1, <1>2, <1>4, JoinIs
    <2>2. Content(t) = Content(s) /\ Position(t) = Position(s)
      BY <1>1, <1>3, <2>1, SameView
    <2> QED
      BY <1>1, <1>3, <1>4, <2>2, PutsNothing DEF t
  <1>5. CASE w # <<>>
    <2> DEFINE at == WritePos(s.file, AppendMode(s))
    <2>1. Unread(s) = 0 /\ ~HasGet(s)
      BY <1>5, NoGetIsEmpty
    <2>2. PutAt(s) = at + Pending(s) /\ Pending(s) = Len(v)
      BY <2>1, PutAtIs DEF Pending
    <2>3. at = WritePos(t.file, AppendMode(t)) /\ at \in Nat
      BY <1>1, <1>3, ContentType DEF AppendMode, SameUse
    <2> HIDE DEF at
    <2>4. Join(v, w) # <<>> /\ Join(v, w) \in Seq(Chars) /\ Len(Join(v, w)) = Len(v) + Len(w)
          /\ Len(v) \in Nat /\ Len(w) \in Nat /\ Len(w) > 0
      BY <1>2, <1>5, JoinIs, SeqLength
    <2>5. Position(t) = PutAt(s) + Len(w)
      <3>1. Pending(t) = Len(v) + Len(w)
        BY <1>1, <2>4 DEF Pending
      <3>2. Position(t) = at + Pending(t)
        BY <2>3, <2>4, <3>1 DEF Position
      <3> QED
        BY <2>2, <2>3, <2>4, <3>1, <3>2
    <2>6. Content(t) = Overwrite(s.file.data, at, Join(v, w))
      BY <1>1, <2>3 DEF Content
    <2>7. Content(s) = Overwrite(s.file.data, at, v)
      BY DEF Content, at
    <2>8. Content(t) = Overwrite(Content(s), PutAt(s), w)
      <3>1. CASE v = <<>>
        <4>1. Content(s) = s.file.data
          BY <2>7, <3>1 DEF Overwrite
        <4>2. Join(v, w) = w
          BY ZenonT(30), <1>2, <3>1, JoinIs
        <4>3. PutAt(s) = at
          BY <1>2, <2>2, <2>3, <3>1, SeqLength
        <4> QED
          BY <2>6, <4>1, <4>2, <4>3
      <3>2. CASE v # <<>>
        <4>1. Overwrite(Overwrite(s.file.data, at, v), at + Len(v), w)
              = Overwrite(s.file.data, at, Join(v, w))
          BY <1>2, <1>5, <2>3, <3>2, OverwriteTwice
        <4> QED
          BY <2>2, <2>6, <2>7, <4>1
      <3> QED
        BY <3>1, <3>2
    <2> QED
      BY <1>1, <1>3, <1>5, <2>5, <2>8 DEF Puts, t
  <1> QED
    BY <1>4, <1>5

\* The file is brought up to date, and c waits.
LEMMA UpToDatePuts ==
    ASSUME NEW s, Good(s), Unread(s) = 0, NEW t, Unread(t) = 0, SameUse(s, t),
           PutBack(t) = PutBack(s) \/ PutBack(t) = NoPutBack,
           t.file.data = Content(s), t.file.pos = PutAt(s),
           NEW c \in Seq(Chars), t.put.chars = c, Pending(s) > 0
    PROVE  Puts(s, t, c)
  <1>1. /\ PutAt(s) \in Nat /\ Pending(s) \in Nat /\ PutAt(s) = Position(s)
    BY PutAtIs
  <1>2. AppendMode(t) = AppendMode(s)
    BY DEF SameUse, AppendMode
  <1>3. WritePos(t.file, AppendMode(t)) = PutAt(s)
    BY <1>2 DEF WritePos, PutAt
  <1>4. Len(c) \in Nat /\ (c # <<>> => Len(c) > 0) /\ (c = <<>> => Len(c) = 0)
    BY SeqLength
  <1>5. Content(t) = Overwrite(Content(s), PutAt(s), c) /\ Pending(t) = Len(c)
    BY <1>3 DEF Content, Pending
  <1>6. c = <<>> => Content(t) = Content(s)
    BY <1>5 DEF Overwrite
  <1>7. Position(t) = PutAt(s) + Len(c)
    <2>1. Position(t) = IF Len(c) > 0 THEN PutAt(s) + Len(c) ELSE PutAt(s) - 0
      BY <1>3, <1>5 DEF Position
    <2> QED
      BY <1>1, <1>4, <2>1
  <1> QED
    BY <1>1, <1>4, <1>5, <1>6, <1>7 DEF Puts

\* w goes straight to the C stream, with nothing waiting before or after.
LEMMA DirectPuts ==
    ASSUME NEW s, Good(s), Unread(s) = 0, Pending(s) = 0,
           NEW t, Unread(t) = 0, Pending(t) = 0, t.put.chars = <<>>, SameUse(s, t),
           PutBack(t) = PutBack(s) \/ PutBack(t) = NoPutBack,
           NEW w \in Seq(Chars), w # <<>>,
           t.file.data = Overwrite(s.file.data, WritePos(s.file, AppendMode(s)), w),
           t.file.pos = WritePos(s.file, AppendMode(s)) + Len(w)
    PROVE  Puts(s, t, w)
  <1> DEFINE at == WritePos(s.file, AppendMode(s))
  <1>1. PutAt(s) = at /\ at \in Nat
    BY PutAtIs, ContentType
  <1>2. Content(s) = s.file.data
    BY ContentType
  <1>3. Content(t) = t.file.data
    BY DEF Content, Overwrite
  <1>4. Position(t) = t.file.pos - 0
    BY DEF Position
  <1>5. Len(w) \in Nat
    BY SeqLength
  <1> QED
    BY <1>1, <1>2, <1>3, <1>4, <1>5 DEF Puts

----------------------------------------------------------------------------
\* Writing, when no C call fails.

LEMMA AllAccepted ==
    ASSUME NEW w, NEW o, NEW fault, o.fault = "none", fault # "none"
    PROVE  Accepted(w, o, fault) = Len(w)
  BY DEF Accepted

LEMMA AllWritten ==
    ASSUME NEW f \in CFiles, NEW w \in Seq(Chars), NEW append
    PROVE  LET g == FWrite(f, w, Len(w), append)
           IN /\ g.data = Overwrite(f.data, WritePos(f, append), w)
              /\ g.pos = WritePos(f, append) + Len(w)
  <1>1. Part(w, 1, Len(w)) = w
    BY DEF Part
  <1> QED
    BY <1>1, FWriteIs

\* stop_reading seeks back to where the caller is.
LEMMA StopReadingPuts ==
    ASSUME NEW s, Good(s), InPlace(s), NEW o, o.fault = "none"
    PROVE  LET t == StopReading(s, o)
           IN Puts(s, t, <<>>) /\ t.ok /\ t.get = NoGet /\ t.put = s.put /\ SameShell(s, t)
  <1> DEFINE t == StopReading(s, o)
             back == s.file.pos - Unread(s)
             fails == o.fault = "seek"
  <1>1. /\ t.get = NoGet /\ t.put = s.put /\ SameShell(s, t)
        /\ ~HasGet(s) \/ Unread(s) = 0 => t.file = s.file /\ t.ok
        /\ HasGet(s) /\ Unread(s) # 0 =>
               /\ t.file = FSeek(s.file, back, fails)
               /\ (t.ok <=> SeekWorks(back, fails))
    BY StopReadingIs
  <1>2. ~fails
    OBVIOUS
  <1>3. s.file \in CFiles
    BY GoodFields
  <1> HIDE DEF t, fails
  <1>4. SameUse(s, t) /\ Unread(t) = 0 /\ PutBack(t) = NoPutBack
    <2>1. SameUse(s, t) /\ PutBack(t) = NoPutBack
      BY <1>1, NoGetPutBack DEF SameShell, SameUse
    <2>2. Unread(t) = 0
      BY <1>1 DEF Unread, NoGet
    <2> QED
      BY <2>1, <2>2
  <1>5. CASE ~HasGet(s) \/ Unread(s) = 0
    <2>1. Unread(s) = 0
      BY <1>5, NoGetIsEmpty
    <2>2. t.file = s.file /\ t.ok
      BY <1>1, <1>5
    <2>3. Content(t) = Content(s) /\ Position(t) = Position(s)
      BY <1>1, <1>4, <2>1, <2>2, SameView
    <2> QED
      BY <1>1, <1>4, <2>2, <2>3, PutsNothing DEF t
  <1>6. CASE HasGet(s) /\ Unread(s) # 0
    <2>1. s.put = NoPut /\ Pending(s) = 0
      BY <1>6, NoGetIsEmpty
    <2>2. Position(s) = back /\ back \in Nat
      BY <2>1, PositionType
    <2>3. SeekWorks(back, fails)
      BY <1>2, <2>2 DEF SeekWorks
    <2>4. t.ok /\ t.file.data = s.file.data /\ t.file.pos = back
      BY <1>1, <1>3, <1>6, <2>3, FSeekIs
    <2>5. t.put.chars = <<>> /\ Pending(t) = 0
      BY <1>1, <2>1 DEF NoPut, Pending
    <2>6. Content(s) = s.file.data
      BY <2>1, ContentType
    <2>7. Content(t) = t.file.data
      BY <2>5 DEF Content, Overwrite
    <2>8. Position(t) = t.file.pos - 0
      BY <1>4, <2>5 DEF Position
    <2> HIDE DEF back
    <2>9. Position(t) = Position(s)
      BY <2>2, <2>4, <2>8
    <2> QED
      BY <1>1, <1>4, <2>4, <2>6, <2>7, <2>9, PutsNothing DEF t
  <1> QED
    BY <1>5, <1>6

LEMMA FlushAndStorePuts ==
    ASSUME NEW s, Good(s), InPlace(s), ~HasGet(s), Pending(s) > 0, NEW c \in OneChar,
           NEW o, o.fault = "none"
    PROVE  LET t == FlushAndStore(s, c, o) IN Puts(s, t, c) /\ t.ok /\ ~HasGet(t)
  <1> DEFINE t == FlushAndStore(s, c, o)
             w == s.put.chars
             k == Accepted(w, o, "write")
  <1>1. w \in Seq(Chars) /\ s.file \in CFiles /\ c \in Seq(Chars)
    BY GoodFields DEF OneChar
  <1>2. w # <<>> /\ Len(w) = Pending(s) /\ Len(w) \in Nat
    BY <1>1 DEF Pending
  <1>3. k = Len(w)
    BY AllAccepted
  <1>4. ~(k < Len(w))
    BY <1>2, <1>3
  <1>5. /\ t.get = s.get /\ SameShell(s, t) /\ t.file = FWrite(s.file, w, k, AppendMode(s))
        /\ t.put = [at |-> s.mem, off |-> 0, chars |-> c, room |-> s.size - Len(c)]
        /\ t.ok
    BY <1>2, <1>4, FlushAndStoreIs
  <1> HIDE DEF t, k
  <1>6. t.put.chars = c /\ SameUse(s, t) /\ t.get = NoGet /\ s.get = NoGet
    BY <1>5, NoGetIsEmpty DEF SameShell, SameUse
  <1>7. Unread(s) = 0 /\ Unread(t) = 0 /\ PutBack(t) = NoPutBack
    BY <1>6, NoGetPutBack, NoGetIsEmpty DEF Unread, NoGet
  <1>8. t.file.data = Content(s) /\ t.file.pos = PutAt(s)
    <2>1. /\ t.file.data = Overwrite(s.file.data, WritePos(s.file, AppendMode(s)), w)
          /\ t.file.pos = WritePos(s.file, AppendMode(s)) + Len(w)
      BY <1>1, <1>3, <1>5, AllWritten
    <2>2. PutAt(s) = WritePos(s.file, AppendMode(s)) + Len(w)
      BY <1>2, <1>7, PutAtIs
    <2> QED
      BY <2>1, <2>2 DEF Content
  <1>9. Puts(s, t, c)
    BY <1>1, <1>6, <1>7, <1>8, UpToDatePuts
  <1>10. ~HasGet(t)
    BY <1>5 DEF HasGet
  <1> QED
    BY <1>5, <1>9, <1>10 DEF t

LEMMA RestartPuts ==
    ASSUME NEW s, Good(s), InPlace(s), ~HasGet(s), Pending(s) = 0, s.isOpen, NEW c \in OneChar
    PROVE  LET t == Restart(MakeBuffer(s), c) IN Puts(s, t, c) /\ t.ok /\ ~HasGet(t)
  <1> DEFINE r == MakeBuffer(s)
             t == Restart(r, c)
             v == Store(s, c)
  <1>1. Good(r) /\ r.get = s.get /\ r.file = s.file /\ r.isOpen = s.isOpen /\ r.mode = s.mode
    BY MakeBufferGood
  <1> HIDE DEF r
  <1>2. /\ t.get = r.get /\ SameShell(r, t) /\ t.file = r.file
        /\ t.put = [at |-> r.mem, off |-> 0, chars |-> c, room |-> r.size - Len(c)]
        /\ t.ok
    BY <1>1, RestartIs
  <1>3. Puts(s, v, c)
    BY StorePuts DEF OneChar
  <1>4. v.get = s.get /\ v.file = s.file /\ SameShell(s, v) /\ v.put.chars = Join(s.put.chars, c)
    BY StoreIs
  <1>5. Join(s.put.chars, c) = c
    <2>1. s.put.chars \in Seq(Chars) /\ c \in Seq(Chars)
      BY GoodFields DEF OneChar
    <2>2. s.put.chars = <<>>
      BY <2>1 DEF Pending
    <2>3. Join(<<>>, c) = c
      BY <2>1, JoinEmpty
    <2> QED
      BY <2>2, <2>3
  <1> HIDE DEF t, v
  <1>6. SameUse(v, t) /\ t.put.chars = v.put.chars /\ t.file = v.file /\ Unread(t) = Unread(v)
        /\ t.get = v.get /\ SameUse(s, t)
    BY <1>1, <1>2, <1>4, <1>5 DEF SameUse, SameShell, Unread
  <1>7. Content(t) = Content(v) /\ Position(t) = Position(v) /\ PutBack(t) = PutBack(v)
    BY <1>6, SameView, SamePutBack
  <1>8. Puts(s, t, c) /\ t.ok
    BY <1>2, <1>3, <1>6, <1>7 DEF Puts
  <1>9. ~HasGet(t)
    BY <1>1, <1>2 DEF HasGet
  <1> QED
    BY <1>8, <1>9 DEF t, r

LEMMA PutUnbufferedPuts ==
    ASSUME NEW s, Good(s), InPlace(s), ~HasGet(s), Pending(s) = 0, NEW c \in OneChar, c # <<>>,
           NEW o, o.fault = "none"
    PROVE  LET t == PutUnbuffered(s, c, o) IN Puts(s, t, c) /\ t.ok /\ ~HasGet(t)
  <1> DEFINE t == PutUnbuffered(s, c, o)
             k == Accepted(c, o, "direct")
  <1>1. k = Len(c)
    BY AllAccepted
  <1>2. /\ t.get = s.get /\ SameShell(s, t)
        /\ t.put = IF k = Len(c) /\ ~HasPut(s) THEN Marker ELSE s.put
        /\ t.file = FWrite(s.file, c, k, AppendMode(s)) /\ (t.ok <=> k = Len(c))
    BY PutUnbufferedIs
  <1>3. s.file \in CFiles /\ c \in Seq(Chars) /\ s.put.chars \in Seq(Chars)
    BY GoodFields DEF OneChar
  <1> HIDE DEF t, k
  <1>4. t.put.chars = <<>> /\ Pending(t) = 0
    <2>1. s.put.chars = <<>>
      BY <1>3 DEF Pending
    <2> QED
      BY <1>2, <2>1 DEF Marker, PutArea, Pending
  <1>5. SameUse(s, t) /\ t.get = NoGet /\ s.get = NoGet
    BY <1>2, NoGetIsEmpty DEF SameShell, SameUse
  <1>6. Unread(s) = 0 /\ Unread(t) = 0 /\ PutBack(t) = NoPutBack
    BY <1>5, NoGetPutBack, NoGetIsEmpty DEF Unread, NoGet
  <1>7. /\ t.file.data = Overwrite(s.file.data, WritePos(s.file, AppendMode(s)), c)
        /\ t.file.pos = WritePos(s.file, AppendMode(s)) + Len(c)
    BY <1>1, <1>2, <1>3, AllWritten
  <1>8. Puts(s, t, c)
    BY <1>3, <1>4, <1>5, <1>6, <1>7, DirectPuts
  <1>9. ~HasGet(t)
    BY <1>2 DEF HasGet
  <1> QED
    BY <1>1, <1>2, <1>8, <1>9 DEF t

LEMMA StoreOrFlushPuts ==
    ASSUME NEW s, Good(s), InPlace(s), ~HasGet(s), s.isOpen, NEW c \in OneChar,
           NEW o, o.fault = "none"
    PROVE  LET t == StoreOrFlush(s, c, o) IN Puts(s, t, c) /\ t.ok /\ ~HasGet(t)
  <1> DEFINE t == StoreOrFlush(s, c, o)
  <1>0. Pending(s) \in Nat
    BY PositionType
  <1>1. CASE Pending(s) > 0
    <2>1. t = FlushAndStore(s, c, o)
      BY <1>1 DEF StoreOrFlush
    <2> QED
      BY <1>1, <2>1, FlushAndStorePuts
  <1>2. CASE Pending(s) = 0 /\ c = <<>>
    <2>1. t = Result(s, TRUE)
      BY <1>2 DEF StoreOrFlush
    <2>2. t.get = s.get /\ t.put = s.put /\ t.file = s.file /\ SameShell(s, t) /\ (t.ok <=> TRUE)
      BY <2>1, ResultIs
    <2> HIDE DEF t
    <2>3. SameUse(s, t) /\ Unread(t) = Unread(s) /\ PutBack(t) = PutBack(s)
      BY <2>2, SamePutBack DEF SameShell, SameUse, Unread
    <2>4. Content(t) = Content(s) /\ Position(t) = Position(s)
      BY <2>2, <2>3, SameView
    <2>5. ~HasGet(t)
      BY <2>2 DEF HasGet
    <2> QED
      BY <1>2, <2>2, <2>3, <2>4, <2>5, PutsNothing DEF t
  <1>3. CASE Pending(s) = 0 /\ c # <<>> /\ s.size > 0
    <2>1. t = Restart(MakeBuffer(s), c)
      BY <1>3 DEF StoreOrFlush
    <2> QED
      BY <1>3, <2>1, RestartPuts
  <1>4. CASE Pending(s) = 0 /\ c # <<>> /\ ~(s.size > 0)
    <2>1. t = PutUnbuffered(s, c, o)
      BY <1>4 DEF StoreOrFlush
    <2> QED
      BY <1>4, <2>1, PutUnbufferedPuts
  <1> QED
    BY <1>0, <1>1, <1>2, <1>3, <1>4

LEMMA StopReadingInPlace ==
    ASSUME NEW s, Good(s), NEW o
    PROVE  InPlace(StopReading(s, o)) /\ ~HasGet(StopReading(s, o))
  <1> DEFINE t == StopReading(s, o)
  <1>1. t.get = NoGet
    BY StopReadingIs
  <1> HIDE DEF t
  <1>2. ~HasGet(t) /\ t.get.stale = FALSE /\ t.get.mod = {}
    BY <1>1 DEF HasGet, NoGet
  <1> QED
    BY <1>2 DEF InPlace, Mirrors, t

LEMMA OverflowPuts ==
    ASSUME NEW s, Good(s), InPlace(s), CanWrite(s), NEW c \in OneChar, NEW o, o.fault = "none"
    PROVE  LET t == Overflow(s, c, o) IN Puts(s, t, c) /\ t.ok /\ ~HasGet(t)
  <1> DEFINE r == StopReading(s, o)
             t == Overflow(s, c, o)
  <1>1. Puts(s, r, <<>>) /\ r.ok /\ SameShell(s, r) /\ Good(r) /\ InPlace(r) /\ ~HasGet(r)
    BY StopReadingPuts, StopReadingGood, StopReadingInPlace
  <1>2. s.isOpen
    BY DEF Good, MemorySafe, ClosedIsClean, CanWrite
  <1>3. t = StoreOrFlush(r, c, o)
    BY <1>1 DEF Overflow
  <1> HIDE DEF r
  <1>4. Puts(r, t, c) /\ t.ok /\ ~HasGet(t)
    <2>1. r.isOpen
      BY <1>1, <1>2 DEF SameShell
    <2> QED
      BY <1>1, <1>3, <2>1, StoreOrFlushPuts
  <1> HIDE DEF t
  <1>5. c \in Seq(Chars) /\ <<>> \in Seq(Chars)
    BY DEF OneChar
  <1>6. Puts(s, t, Join(<<>>, c)) /\ Join(<<>>, c) = c
    BY <1>1, <1>4, <1>5, PutsChain, JoinIs
  <1> QED
    BY <1>4, <1>6 DEF t

LEMMA PutCharPuts ==
    ASSUME NEW s, Good(s), InPlace(s), CanWrite(s), NEW c \in Chars, NEW o, o.fault = "none"
    PROVE  LET t == PutChar(s, c, o) IN Puts(s, t, <<c>>) /\ t.ok
  <1>1. <<c>> \in OneChar /\ <<c>> \in Seq(Chars)
    BY OneCharType DEF OneChar
  <1>2. CASE s.put.room > 0
    <2>1. PutChar(s, c, o) = Store(s, <<c>>)
      BY <1>2 DEF PutChar
    <2>2. ~HasGet(s)
      <3>1. HasPut(s)
        BY <1>2, NoGetIsEmpty
      <3> QED
        BY <3>1, NoGetIsEmpty
    <2> QED
      BY <1>1, <2>1, <2>2, StorePuts
  <1>3. CASE ~(s.put.room > 0)
    <2>1. PutChar(s, c, o) = Overflow(s, <<c>>, o)
      BY <1>3 DEF PutChar
    <2> QED
      BY <1>1, <2>1, OverflowPuts
  <1> QED
    BY <1>2, <1>3

\* A sequence, cut where the characters the put area takes at once end.
LEMMA Cut ==
    ASSUME NEW w \in Seq(Chars), NEW r \in Nat, r < Len(w)
    PROVE  /\ Part(w, 1, r) \in Seq(Chars) /\ Len(Part(w, 1, r)) = r
           /\ (r = 0 => Part(w, 1, r) = <<>>)
           /\ <<w[r + 1]>> \in Seq(Chars) /\ w[r + 1] \in Chars
           /\ Part(w, r + 2, Len(w)) \in Seq(Chars)
           /\ Len(Part(w, r + 2, Len(w))) = Len(w) - r - 1
           /\ Join(Join(Part(w, 1, r), <<w[r + 1]>>), Part(w, r + 2, Len(w))) = w
  <1> DEFINE x == Part(w, 1, r)
             y == <<w[r + 1]>>
             z == Part(w, r + 2, Len(w))
             xy == Join(x, y)
             xyz == Join(xy, z)
  <1>0. Len(w) \in Nat /\ \A i \in 1..Len(w) : w[i] \in Chars
    OBVIOUS
  <1>1. x \in Seq(Chars) /\ Len(x) = r /\ \A i \in 1..r : x[i] = w[i]
    BY DEF Part
  <1>2. y \in Seq(Chars) /\ Len(y) = 1 /\ y[1] = w[r + 1] /\ w[r + 1] \in Chars
    BY <1>0
  <1>3. /\ z \in Seq(Chars) /\ Len(z) = Len(w) - r - 1
        /\ \A i \in 1..(Len(w) - r - 1) : z[i] = w[r + 1 + i]
    <2>1. r + 2 \in Nat /\ r + 2 <= Len(w) + 1
      BY <1>0
    <2> QED
      BY <1>0, <2>1 DEF Part
  <1> HIDE DEF x, y, z
  <1>4. /\ xy \in Seq(Chars) /\ Len(xy) = r + 1
        /\ \A i \in 1..(r + 1) : xy[i] = w[i]
    <2>0. /\ xy \in Seq(Chars) /\ Len(xy) = Len(x) + Len(y)
          /\ \A i \in 1..Len(x) : xy[i] = x[i]
          /\ \A i \in 1..Len(y) : xy[Len(x) + i] = y[i]
      BY <1>1, <1>2, JoinIs
    <2> HIDE DEF xy
    <2>1. xy \in Seq(Chars) /\ Len(xy) = r + 1
      BY <1>1, <1>2, <2>0
    <2>2. \A i \in 1..r : xy[i] = w[i]
      BY <1>1, <2>0
    <2>3. xy[r + 1] = w[r + 1]
      BY <1>1, <1>2, <2>0
    <2> QED
      BY <2>1, <2>2, <2>3
  <1> HIDE DEF xy
  <1>5. /\ xyz \in Seq(Chars) /\ Len(xyz) = Len(w)
        /\ \A i \in 1..Len(w) : xyz[i] = w[i]
    <2>0. /\ xyz \in Seq(Chars) /\ Len(xyz) = Len(xy) + Len(z)
          /\ \A i \in 1..Len(xy) : xyz[i] = xy[i]
          /\ \A i \in 1..Len(z) : xyz[Len(xy) + i] = z[i]
      BY <1>3, <1>4, JoinIs
    <2> HIDE DEF xyz
    <2>1. xyz \in Seq(Chars) /\ Len(xyz) = (r + 1) + (Len(w) - r - 1)
      BY <1>3, <1>4, <2>0
    <2>2. \A i \in 1..(r + 1) : xyz[i] = w[i]
      BY <1>4, <2>0
    <2>3. \A i \in 1..(Len(w) - r - 1) : xyz[(r + 1) + i] = w[r + 1 + i]
      BY <1>3, <1>4, <2>0
    <2>4. Len(xyz) = Len(w)
      BY <1>0, <2>1
    <2>5. ASSUME NEW i \in 1..Len(w) PROVE xyz[i] = w[i]
      <3>1. CASE i <= r + 1
        BY <1>0, <2>2, <3>1
      <3>2. CASE i > r + 1
        <4>1. i - (r + 1) \in 1..(Len(w) - r - 1) /\ (r + 1) + (i - (r + 1)) = i
          BY <1>0, <3>2
        <4> QED
          BY <2>3, <4>1
      <3> QED
        BY <1>0, <3>1, <3>2
    <2> QED
      BY <2>1, <2>4, <2>5
  <1> HIDE DEF xyz
  <1>6. xyz = w
    BY <1>5
  <1>7. r = 0 => x = <<>>
    BY <1>1
  <1> QED
    BY <1>1, <1>2, <1>3, <1>6, <1>7 DEF x, y, z, xy, xyz

LEMMA PutSmallPuts ==
    ASSUME NEW s, Good(s), InPlace(s), CanWrite(s), NEW w \in Seq(Chars), Len(w) <= s.size,
           NEW o, o.fault = "none", o.wrote \in Nat
    PROVE  LET t == PutSmall(s, w, o) IN Puts(s, t, w) /\ t.ok
  <1> DEFINE r == Least(s.put.room, Len(w))
             a == Part(w, 1, r)
             t == Store(s, a)
             b == <<w[r + 1]>>
             u == Overflow(t, b, o)
             c == Part(w, r + 2, Len(w))
             v == Store(u, c)
  <1>0. s.put.room \in Nat /\ Len(w) \in Nat
    BY DEF Good, FileBufs, PutAreas
  <1>1. r \in Nat /\ r <= Len(w) /\ r <= s.put.room
    BY <1>0 DEF Least
  <1>2. PutSmall(s, w, o) = IF r = Len(w) THEN t ELSE IF ~u.ok THEN u ELSE v
    BY DEF PutSmall, Part
  <1>3. ~HasGet(s) \/ a = <<>>
    <2>1. CASE r = 0
      BY <2>1 DEF Part
    <2>2. CASE r # 0
      <3>1. s.put.room # 0
        BY <1>0, <1>1, <2>2
      <3> QED
        BY <3>1, NoGetIsEmpty
    <2> QED
      BY <2>1, <2>2
  <1>4. a \in Seq(Chars) /\ Len(a) = r
    BY <1>1 DEF Part
  <1> HIDE DEF r, a
  <1>5. Puts(s, t, a) /\ t.ok
    BY <1>3, <1>4, StorePuts
  <1>6. CASE r = Len(w)
    <2>1. a = w
      BY <1>6 DEF a, Part
    <2> QED
      BY <1>2, <1>5, <1>6, <2>1
  <1>7. CASE r # Len(w)
    <2>0. r < Len(w)
      BY <1>0, <1>1, <1>7
    <2>1. Good(t) /\ InPlace(t) /\ CanWrite(t) /\ t.size = s.size
      <3>1. Good(t) /\ SameShell(s, t)
        BY <1>1, <1>4, StoreGood
      <3>2. t.get = s.get /\ t.file = s.file
        BY StoreIs
      <3> HIDE DEF t
      <3> QED
        BY <3>1, <3>2, SameInPlace DEF SameShell, CanWrite
    <2>2. /\ b \in Seq(Chars) /\ w[r + 1] \in Chars /\ c \in Seq(Chars)
          /\ Len(c) = Len(w) - r - 1 /\ Join(Join(a, b), c) = w
      BY <1>1, <2>0, Cut DEF a
    <2>3. b \in OneChar /\ b # <<>> /\ Len(b) = 1
      BY <2>2, OneCharType
    <2> HIDE DEF t, b, c
    <2>4. Puts(t, u, b) /\ u.ok /\ ~HasGet(u) /\ Stored(t, b, u)
      BY <2>1, <2>3, OverflowPuts, OverflowGood
    <2> HIDE DEF u
    <2>5. Good(u) /\ InPlace(u)
      BY <2>4, NoGetInPlace DEF Stored
    <2>6. Puts(u, v, c) /\ v.ok
      BY <2>2, <2>4, <2>5, StorePuts
    <2>7. PutSmall(s, w, o) = v
      BY <1>2, <1>7, <2>4
    <2> HIDE DEF v
    <2>8. Puts(s, u, Join(a, b))
      BY <1>4, <1>5, <2>2, <2>4, PutsChain
    <2>9. Join(a, b) \in Seq(Chars)
      BY <1>4, <2>2, JoinIs
    <2>10. Puts(s, v, Join(Join(a, b), c))
      BY <2>2, <2>6, <2>8, <2>9, PutsChain
    <2> QED
      BY <2>2, <2>6, <2>7, <2>10
  <1> QED
    BY <1>6, <1>7

LEMMA NothingFirst ==
    ASSUME NEW s, Good(s), InPlace(s), NEW t, NEW u, NEW w \in Seq(Chars),
           Puts(s, t, <<>>), Puts(t, u, w)
    PROVE  Puts(s, u, w)
  <1>1. <<>> \in Seq(Chars)
    OBVIOUS
  <1>2. Join(<<>>, w) = w
    BY <1>1, JoinIs
  <1>3. Puts(s, u, Join(<<>>, w))
    BY <1>1, PutsChain
  <1> QED
    BY <1>2, <1>3

LEMMA ResultPuts ==
    ASSUME NEW s, Good(s), NEW b
    PROVE  Puts(s, Result(s, b), <<>>)
  <1> DEFINE t == Result(s, b)
  <1>1. t.get = s.get /\ t.put = s.put /\ t.file = s.file /\ SameShell(s, t)
    BY ResultIs
  <1> HIDE DEF t
  <1>2. SameUse(s, t) /\ Unread(t) = Unread(s) /\ PutBack(t) = PutBack(s)
    BY <1>1, SamePutBack DEF SameShell, SameUse, Unread
  <1>3. Content(t) = Content(s) /\ Position(t) = Position(s)
    BY <1>1, <1>2, SameView
  <1> QED
    BY <1>2, <1>3, PutsNothing DEF t

\* The bulk xsputn empties the put area.
LEMMA DrainPutPuts ==
    ASSUME NEW s, Good(s), ~HasGet(s), NEW o, o.fault = "none"
    PROVE  LET t == DrainPut(s, o)
           IN Puts(s, t, <<>>) /\ t.ok /\ ~HasGet(t) /\ Pending(t) = 0
  <1> DEFINE t == DrainPut(s, o)
             w == s.put.chars
             k == Accepted(w, o, "write")
  <1>1. w \in Seq(Chars) /\ s.file \in CFiles
    BY GoodFields
  <1>2. k = Len(w)
    BY AllAccepted
  <1>3. /\ t.get = s.get /\ SameShell(s, t)
        /\ w = <<>> => t = Result(s, TRUE)
        /\ w # <<>> => /\ t.file = FWrite(s.file, w, k, AppendMode(s)) /\ (t.ok <=> k = Len(w))
                       /\ t.put.chars = <<>>
    BY DrainPutIs
  <1>4. CASE w = <<>>
    <2>1. t = Result(s, TRUE)
      BY <1>3, <1>4
    <2>2. Puts(s, t, <<>>)
      BY <2>1, ResultPuts
    <2>3. t.ok /\ t.get = s.get /\ t.put = s.put
      <3>1. Result(s, TRUE).get = s.get /\ Result(s, TRUE).put = s.put
            /\ (Result(s, TRUE).ok <=> TRUE)
        BY ResultIs
      <3> QED
        BY <2>1, <3>1
    <2> HIDE DEF t
    <2>4. ~HasGet(t) /\ Pending(t) = 0
      BY <1>4, <2>3 DEF HasGet, Pending
    <2> QED
      BY <2>2, <2>3, <2>4 DEF t
  <1>5. CASE w # <<>>
    <2> HIDE DEF t, k
    <2>1. t.file = FWrite(s.file, w, Len(w), AppendMode(s)) /\ t.ok /\ t.put.chars = <<>>
      BY <1>2, <1>3, <1>5
    <2>2. SameUse(s, t) /\ t.get = NoGet /\ s.get = NoGet
      BY <1>3, NoGetIsEmpty DEF SameShell, SameUse
    <2>3. Unread(s) = 0 /\ Unread(t) = 0 /\ PutBack(t) = NoPutBack
      BY <2>2, NoGetPutBack, NoGetIsEmpty DEF Unread, NoGet
    <2>4. Pending(s) > 0 /\ Pending(s) = Len(w)
      BY <1>1, <1>5 DEF Pending
    <2>5. t.file.data = Content(s) /\ t.file.pos = PutAt(s)
      <3>1. /\ t.file.data = Overwrite(s.file.data, WritePos(s.file, AppendMode(s)), w)
            /\ t.file.pos = WritePos(s.file, AppendMode(s)) + Len(w)
        BY <1>1, <2>1, AllWritten
      <3>2. PutAt(s) = WritePos(s.file, AppendMode(s)) + Len(w)
        BY <2>3, <2>4, PutAtIs
      <3> QED
        BY <3>1, <3>2 DEF Content
    <2>6. Puts(s, t, <<>>)
      <3>1. <<>> \in Seq(Chars)
        OBVIOUS
      <3> QED
        BY <2>1, <2>2, <2>3, <2>4, <2>5, <3>1, UpToDatePuts
    <2>7. ~HasGet(t) /\ Pending(t) = 0
      BY <1>3, <2>1 DEF HasGet, Pending
    <2> QED
      BY <2>1, <2>6, <2>7 DEF t
  <1> QED
    BY <1>4, <1>5

LEMMA WriteThroughPuts ==
    ASSUME NEW s, Good(s), ~HasGet(s), Pending(s) = 0, NEW w \in Seq(Chars), w # <<>>,
           NEW o, o.fault = "none"
    PROVE  LET t == WriteThrough(s, w, o) IN Puts(s, t, w) /\ t.ok
  <1> DEFINE t == WriteThrough(s, w, o)
             k == Accepted(w, o, "direct")
  <1>1. k = Len(w)
    BY AllAccepted
  <1>2. /\ t.get = s.get /\ SameShell(s, t)
        /\ t.put = IF k > 0 /\ s.put.at # Last THEN Marker ELSE s.put
        /\ t.file = FWrite(s.file, w, k, AppendMode(s)) /\ (t.ok <=> k = Len(w))
    BY WriteThroughIs
  <1>3. s.file \in CFiles /\ s.put.chars \in Seq(Chars)
    BY GoodFields
  <1> HIDE DEF t, k
  <1>4. t.put.chars = <<>> /\ Pending(t) = 0
    <2>1. s.put.chars = <<>>
      BY <1>3 DEF Pending
    <2> QED
      BY <1>2, <2>1 DEF Marker, PutArea, Pending
  <1>5. SameUse(s, t) /\ t.get = NoGet /\ s.get = NoGet
    BY <1>2, NoGetIsEmpty DEF SameShell, SameUse
  <1>6. Unread(s) = 0 /\ Unread(t) = 0 /\ PutBack(t) = NoPutBack
    BY <1>5, NoGetPutBack, NoGetIsEmpty DEF Unread, NoGet
  <1>7. /\ t.file.data = Overwrite(s.file.data, WritePos(s.file, AppendMode(s)), w)
        /\ t.file.pos = WritePos(s.file, AppendMode(s)) + Len(w)
    BY <1>1, <1>2, <1>3, AllWritten
  <1>8. Puts(s, t, w)
    BY <1>4, <1>5, <1>6, <1>7, DirectPuts
  <1> QED
    BY <1>1, <1>2, <1>8 DEF t

LEMMA PutDirectPuts ==
    ASSUME NEW s, Good(s), InPlace(s), CanWrite(s), NEW w \in Seq(Chars), w # <<>>,
           NEW o, o.fault = "none", o.wrote \in Nat
    PROVE  LET t == PutDirect(s, w, o) IN Puts(s, t, w) /\ t.ok
  <1> DEFINE t == StopReading(s, o)
             u == DrainPut(t, o)
             v == WriteThrough(u, w, o)
  <1>1. Puts(s, t, <<>>) /\ t.ok /\ SameShell(s, t) /\ Good(t) /\ ~HasGet(t)
    BY StopReadingPuts, StopReadingGood, StopReadingInPlace
  <1> HIDE DEF t
  <1>2. Puts(t, u, <<>>) /\ u.ok /\ ~HasGet(u) /\ Good(u) /\ Pending(u) = 0
    <2>1. Good(u)
      BY <1>1, DrainPutGood
    <2> QED
      BY <1>1, <2>1, DrainPutPuts
  <1> HIDE DEF u
  <1>3. Puts(u, v, w) /\ v.ok
    BY <1>2, WriteThroughPuts
  <1>4. PutDirect(s, w, o) = v
    BY <1>1, <1>2 DEF PutDirect, t, u
  <1> HIDE DEF v
  <1>5. Puts(t, v, w)
    <2>1. InPlace(t)
      BY <1>1, NoGetInPlace
    <2> QED
      BY <1>1, <1>2, <1>3, <2>1, NothingFirst
  <1>7. Puts(s, v, w)
    BY <1>1, <1>5, NothingFirst
  <1> QED
    BY <1>3, <1>4, <1>7

LEMMA XsputnPuts ==
    ASSUME NEW s, Good(s), InPlace(s), CanWrite(s), NEW w \in Seq(Chars), 
           NEW o, o.fault = "none", o.wrote \in Nat
    PROVE  LET t == Xsputn(s, w, o) IN Puts(s, t, w) /\ t.ok
  <1>1. CASE Len(w) <= s.size
    BY <1>1, PutSmallPuts DEF Xsputn
  <1>2. CASE ~(Len(w) <= s.size)
    <2>1. s.size \in Nat
      BY DEF Good, FileBufs
    <2>2. w # <<>>
      BY <1>2, <2>1
    <2> QED
      BY <1>2, <2>2, PutDirectPuts DEF Xsputn
  <1> QED
    BY <1>1, <1>2

\* A file that is not open for output takes nothing.
LEMMA NoWritingPuts ==
    ASSUME NEW s, Good(s), InPlace(s), ~CanWrite(s), NEW o
    PROVE  /\ \A c : Puts(s, PutChar(s, c, o), <<>>) /\ ~PutChar(s, c, o).ok
           /\ \A w \in Seq(Chars) : Puts(s, Xsputn(s, w, o), <<>>)
                                    /\ (Xsputn(s, w, o).ok <=> w = <<>>)
  <1>1. s.put = NoPut /\ s.put.room = 0
    BY NoGetIsEmpty
  <1>2. \A t, c : ~CanWrite(t) => Overflow(t, c, o) = Result(t, FALSE)
    BY DEF Overflow
  <1>5. ~(s.put.room > 0)
    BY <1>1
  <1>3. ASSUME NEW c PROVE Puts(s, PutChar(s, c, o), <<>>) /\ ~PutChar(s, c, o).ok
    <2>1. PutChar(s, c, o) = Result(s, FALSE)
      BY <1>2, <1>5 DEF PutChar
    <2>2. Result(s, FALSE).ok <=> FALSE
      BY ResultIs
    <2> QED
      BY <2>1, <2>2, ResultPuts
  <1>4. ASSUME NEW w \in Seq(Chars)
        PROVE  Puts(s, Xsputn(s, w, o), <<>>) /\ (Xsputn(s, w, o).ok <=> w = <<>>)
    <2> DEFINE t == Store(s, <<>>)
               f == Result(t, FALSE)
               g == Result(s, FALSE)
    <2>1. Puts(s, t, <<>>) /\ t.ok
      <3>1. <<>> \in Seq(Chars)
        OBVIOUS
      <3> QED
        BY <3>1, StorePuts
    <2>2. Good(t) /\ ~CanWrite(t)
      <3>1. <<>> \in Seq(Chars) /\ Len(<<>>) <= s.put.room
        BY <1>1
      <3>2. Good(t) /\ SameShell(s, t)
        BY <3>1, StoreGood
      <3> HIDE DEF t
      <3> QED
        BY <3>2 DEF SameShell, CanWrite
    <2> HIDE DEF t
    <2>3. Puts(t, f, <<>>) /\ ~f.ok
      <3>1. f.ok <=> FALSE
        BY <2>2, ResultIs
      <3> QED
        BY <2>2, <3>1, ResultPuts
    <2>4. Puts(s, g, <<>>) /\ ~g.ok
      <3>1. g.ok <=> FALSE
        BY ResultIs
      <3> QED
        BY <3>1, ResultPuts
    <2>5. PutDirect(s, w, o) = g
      BY DEF PutDirect
    <2>6. (w = <<>> /\ PutSmall(s, w, o) = t) \/ (w # <<>> /\ PutSmall(s, w, o) = f)
      <3> DEFINE r == Least(s.put.room, Len(w))
                 y == SubSeq(w, 1, r)
                 u == Overflow(Store(s, y), <<w[r + 1]>>, o)
                 x == SubSeq(w, r + 2, Len(w))
      <3>0. Len(w) \in Nat /\ (w = <<>> <=> Len(w) = 0)
        OBVIOUS
      <3>1. r = 0
        BY <1>1, <3>0 DEF Least
      <3>2. y = <<>>
        BY <3>1
      <3>3. PutSmall(s, w, o) = IF r = Len(w) THEN Store(s, y)
                                ELSE IF ~u.ok THEN u ELSE Store(u, x)
        BY DEF PutSmall
      <3> HIDE DEF r, x, y
      <3>4. Store(s, y) = t
        BY <3>2 DEF t
      <3>5. u = f
        BY <1>2, <2>2, <3>4
      <3> HIDE DEF u, f
      <3> QED
        BY <2>3, <3>0, <3>1, <3>3, <3>4, <3>5 DEF u
    <2> HIDE DEF f, g
    <2>7. Puts(s, f, <<>>)
      <3>1. <<>> \in Seq(Chars)
        OBVIOUS
      <3> QED
        BY <2>1, <2>3, <3>1, NothingFirst
    <2>8. CASE Len(w) <= s.size
      <3>1. Xsputn(s, w, o) = PutSmall(s, w, o)
        BY <2>8 DEF Xsputn
      <3> QED
        BY <2>1, <2>3, <2>6, <2>7, <3>1
    <2>9. CASE ~(Len(w) <= s.size)
      <3>1. Xsputn(s, w, o) = g
        BY <2>5, <2>9 DEF Xsputn
      <3>2. w # <<>>
        <4>1. s.size \in Nat
          BY DEF Good, FileBufs
        <4> QED
          BY <2>9, <4>1
      <3> QED
        BY <2>4, <3>1, <3>2
    <2> QED
      BY <2>8, <2>9
  <1> QED
    BY <1>3, <1>4

----------------------------------------------------------------------------
\* Flushing, positioning, opening and closing, when no C call fails.

\* Nothing is held in either area.
Empty(s) == Pending(s) = 0 /\ s.get = NoGet

LEMMA EmptyView ==
    ASSUME NEW s, Good(s), Empty(s)
    PROVE  Content(s) = s.file.data /\ Position(s) = s.file.pos /\ s.put.chars = <<>>
  <1>1. Content(s) = s.file.data
    BY ContentType DEF Empty
  <1>2. s.put.chars = <<>> /\ s.file.pos \in Nat
    BY GoodFields DEF Empty, Pending, CFiles
  <1>3. Position(s) = s.file.pos - 0
    BY DEF Empty, Position, Unread, NoGet
  <1> QED
    BY <1>1, <1>2, <1>3

LEMMA SyncPutPuts ==
    ASSUME NEW s, Good(s), InPlace(s), HasPut(s), NEW o, o.fault = "none", o.wrote \in Nat
    PROVE  LET t == SyncPut(s, o) IN Puts(s, t, <<>>) /\ t.ok /\ t.got = s.got /\ Empty(t)
  <1> DEFINE r == StopReading(s, o)
             t == Overflow(s, <<>>, o)
             z == SyncPut(s, o)
  <1>1. CanWrite(s) /\ ~HasGet(s) /\ s.isOpen /\ s.get = NoGet
    BY NoGetIsEmpty
  <1>2. /\ Good(r) /\ SameShell(s, r) /\ r.put = s.put /\ r.file = s.file /\ r.ok
    BY <1>1, StopReadingGood, StopReadingIs
  <1>3. t = StoreOrFlush(r, <<>>, o)
    BY <1>1, <1>2 DEF Overflow
  <1>4. <<>> \in OneChar
    BY DEF OneChar
  <1>5. Puts(s, t, <<>>) /\ t.ok /\ ~HasGet(t) /\ Good(t) /\ t.got = s.got
    BY <1>1, <1>4, OverflowPuts, OverflowGood DEF Stored
  <1>6. Pending(t) = 0
    <2> HIDE DEF r
    <2>1. Pending(r) \in Nat /\ r.put.chars \in Seq(Chars)
      BY <1>2, GoodFields DEF Pending
    <2>2. CASE Pending(r) > 0
      <3> DEFINE w == r.put.chars
                 k == Accepted(w, o, "write")
      <3>1. t = FlushAndStore(r, <<>>, o)
        BY <1>3, <2>2 DEF StoreOrFlush
      <3>2. w # <<>> /\ Len(w) \in Nat
        BY <2>1, <2>2 DEF Pending
      <3>3. k = Len(w)
        BY AllAccepted
      <3>4. ~(k < Len(w))
        BY <3>2, <3>3
      <3> HIDE DEF t
      <3>5. t.put = [at |-> r.mem, off |-> 0, chars |-> <<>>, room |-> r.size - Len(<<>>)]
        BY <1>2, <3>1, <3>2, <3>4, FlushAndStoreIs
      <3> QED
        BY <3>5 DEF Pending
    <2>3. CASE ~(Pending(r) > 0)
      <3>1. t = Result(r, TRUE)
        BY <1>3, <2>3 DEF StoreOrFlush
      <3>2. t.put = r.put
        BY ZenonT(30), <1>2, <3>1, ResultIs
      <3> HIDE DEF t
      <3> QED
        BY <2>1, <2>3, <3>2 DEF Pending
    <2> QED
      BY <2>2, <2>3
  <1> HIDE DEF r, t
  <1>7. t.get = NoGet
    BY <1>5, NoGetIsEmpty
  <1>8. CASE ~HasPrevWrite(s)
    <2>1. z = t
      BY <1>8 DEF SyncPut, t
    <2> QED
      BY <1>5, <1>6, <1>7, <2>1 DEF Empty
  <1>9. CASE HasPrevWrite(s)
    <2>1. z = Flush(t, o)
      BY <1>9 DEF SyncPut, t
    <2> HIDE DEF z
    <2> DEFINE fails == o.fault = "flush"
    <2>2. /\ z.get = t.get /\ z.put = t.put /\ z.got = t.got /\ SameShell(t, z)
          /\ z.file = FFlush(t.file, fails) /\ (z.ok <=> t.ok /\ ~fails)
      BY <1>5, <2>1, FlushIs
    <2>10. ~fails
      OBVIOUS
    <2>3. t.file \in CFiles
      BY <1>5, GoodFields
    <2> HIDE DEF fails
    <2>4. z.file.data = t.file.data /\ z.file.pos = t.file.pos
      BY <2>2, <2>3, FFlushIs
    <2>5. SameUse(t, z) /\ Unread(z) = Unread(t) /\ PutBack(z) = PutBack(t) /\ Pending(z) = Pending(t)
      BY <2>2, <2>4, SamePutBack DEF SameShell, SameUse, Unread, Pending
    <2>6. Content(z) = Content(t) /\ Position(z) = Position(t)
      BY <2>2, <2>4, <2>5, SameView
    <2>7. Puts(s, z, <<>>)
      BY <1>5, <2>5, <2>6 DEF Puts, SameUse
    <2> QED
      BY <1>5, <1>6, <1>7, <2>2, <2>5, <2>7, <2>10 DEF Empty, z
  <1> QED
    BY <1>8, <1>9

\* sync hands everything over, or seeks back over what was read ahead.
LEMMA SyncPuts ==
    ASSUME NEW s, Good(s), InPlace(s), NEW o, o.fault = "none", o.wrote \in Nat
    PROVE  LET t == Sync(s, o) IN Puts(s, t, <<>>) /\ t.ok /\ t.got = s.got /\ Empty(t)
  <1>1. CASE ~s.isOpen
    <2> DEFINE t == Result(s, TRUE)
    <2>1. Sync(s, o) = t
      BY <1>1 DEF Sync
    <2>2. ~HasPut(s) /\ ~HasGet(s)
      BY <1>1 DEF Good, MemorySafe, ClosedIsClean
    <2>3. t.get = s.get /\ t.put = s.put /\ t.got = s.got /\ (t.ok <=> TRUE)
      BY ResultIs
    <2>4. Puts(s, t, <<>>)
      BY ResultPuts
    <2> HIDE DEF t
    <2>5. Pending(s) = 0 /\ s.get = NoGet
      BY <2>2, NoGetIsEmpty
    <2>6. Empty(t)
      BY <2>3, <2>5 DEF Empty, Pending
    <2> QED
      BY <2>1, <2>3, <2>4, <2>6
  <1>2. CASE s.isOpen /\ HasPut(s)
    BY <1>2, SyncPutPuts DEF Sync
  <1>3. CASE s.isOpen /\ ~HasPut(s)
    <2> DEFINE t == StopReading(s, o)
    <2>1. Sync(s, o) = t
      BY <1>3 DEF Sync
    <2>2. Puts(s, t, <<>>) /\ t.ok /\ t.get = NoGet /\ t.put = s.put
      BY StopReadingPuts
    <2>3. t.got = s.got
      BY StopReadingIs
    <2> HIDE DEF t
    <2>4. Pending(s) = 0
      BY <1>3, NoGetIsEmpty
    <2>5. Empty(t)
      BY <2>2, <2>4 DEF Empty, Pending
    <2> QED
      BY <2>1, <2>2, <2>3, <2>5
  <1> QED
    BY <1>1, <1>2, <1>3

\* What seekoff does for the caller: it goes to the offset, or refuses one before the start.
SeeksTo(s, t, p) ==
    /\ SameUse(s, t) /\ Content(t) = Content(s) /\ t.got = s.got
    /\ PutBack(t) = PutBack(s) \/ PutBack(t) = NoPutBack
    /\ p >= 0 => t.ok /\ Position(t) = p
    /\ ~(p >= 0) => ~t.ok /\ Position(t) = Position(s)
    /\ Empty(t)

SeekBase(s, dir) ==
    CASE dir = "beg" -> 0 [] dir = "cur" -> Position(s) [] dir = "end" -> Len(Content(s))

LEMMA RepositionSeeks ==
    ASSUME NEW s, Good(s), Empty(s), NEW p \in Int, NEW o, o.fault = "none"
    PROVE  SeeksTo(s, Reposition(s, p, o), p)
  <1> DEFINE t == Reposition(s, p, o)
             fails == o.fault = "position"
             g == FSeek(s.file, p, FALSE)
  <1>1. /\ t.get = s.get /\ t.put = s.put /\ t.got = s.got /\ SameShell(s, t)
        /\ SeekWorks(p, fails) => /\ t.file = FTell(g, o.fault = "tell")
                                  /\ (t.ok <=> o.fault # "tell")
        /\ ~SeekWorks(p, fails) => t.file = FSeek(s.file, p, fails) /\ ~t.ok
    BY RepositionIs
  <1>2. ~fails /\ o.fault # "tell" /\ ~(o.fault = "tell")
    OBVIOUS
  <1>3. s.file \in CFiles
    BY GoodFields
  <1>4. SeekWorks(p, fails) <=> p >= 0
    BY DEF SeekWorks
  <1>5. t.file.data = s.file.data /\ (p >= 0 => t.ok /\ t.file.pos = p)
        /\ (~(p >= 0) => ~t.ok /\ t.file.pos = s.file.pos)
    <2>1. CASE p >= 0
      <3>1. g.data = s.file.data /\ g.pos = p
        BY <1>3, <2>1, SeekTo
      <3>2. g \in CFiles
        BY <1>3, PositioningType
      <3> HIDE DEF t, g
      <3>3. t.file = FTell(g, o.fault = "tell") /\ t.ok
        BY <1>1, <1>2, <1>4, <2>1
      <3>4. t.file.data = g.data /\ t.file.pos = g.pos
        BY <3>2, <3>3, FTellIs
      <3> QED
        BY <2>1, <3>1, <3>3, <3>4
    <2>2. CASE ~(p >= 0)
      <3> HIDE DEF t, g
      <3>1. t.file = FSeek(s.file, p, fails) /\ ~t.ok
        BY <1>1, <1>4, <2>2
      <3>2. t.file.data = s.file.data /\ t.file.pos = s.file.pos
        BY <1>3, <1>4, <2>2, <3>1, FSeekIs
      <3> QED
        BY <2>2, <3>1, <3>2
    <2> QED
      BY <2>1, <2>2
  <1> HIDE DEF t, g
  <1>6. SameUse(s, t) /\ Empty(t) /\ t.put.chars = s.put.chars
    BY <1>1 DEF SameShell, SameUse, Empty, Pending
  <1>7. Content(s) = s.file.data /\ Position(s) = s.file.pos /\ s.put.chars = <<>>
    BY EmptyView
  <1>8. Content(t) = t.file.data
    BY <1>6, <1>7 DEF Content, Overwrite
  <1>9. Position(t) = t.file.pos
    <2>1. t.file.pos \in Nat
      BY <1>3, <1>5 DEF CFiles
    <2>2. Position(t) = t.file.pos - 0
      BY <1>6 DEF Empty, Position, Unread, NoGet
    <2> QED
      BY <2>1, <2>2
  <1>10. PutBack(t) = NoPutBack
    BY <1>6, NoGetPutBack DEF Empty
  <1> QED
    BY <1>1, <1>5, <1>6, <1>7, <1>8, <1>9, <1>10 DEF SeeksTo, t

LEMMA SeekOffSeeks ==
    ASSUME NEW s, Good(s), InPlace(s), s.isOpen, NEW off \in Int,
           NEW dir \in {"beg", "cur", "end"}, NEW o, o.fault = "none", o.wrote \in Nat
    PROVE  SeeksTo(s, SeekOff(s, off, dir, o), SeekBase(s, dir) + off)
  <1> DEFINE t == Sync(s, o)
             p == Base(t, dir) + off
             z == Reposition(t, p, o)
  <1>1. Puts(s, t, <<>>) /\ t.ok /\ t.got = s.got /\ Empty(t) /\ Good(t)
    BY SyncPuts, SyncGood
  <1>2. SeekOff(s, off, dir, o) = z
    BY <1>1 DEF SeekOff
  <1> HIDE DEF t
  <1>3. Content(t) = t.file.data /\ Position(t) = t.file.pos
        /\ Content(t) = Content(s) /\ Position(t) = Position(s)
    BY <1>1, EmptyView DEF Puts
  <1>4. Base(t, dir) = SeekBase(s, dir)
    BY <1>3 DEF Base, SeekBase
  <1>5. p \in Int
    BY <1>1, BaseType
  <1>6. SeeksTo(t, z, p)
    BY <1>1, <1>5, RepositionSeeks
  <1> HIDE DEF z, p
  <1>7. SeeksTo(s, z, p)
    BY <1>1, <1>3, <1>6 DEF SeeksTo, Puts, SameUse
  <1> QED
    BY <1>2, <1>4, <1>7 DEF p

LEMMA ClosePuts ==
    ASSUME NEW s, Good(s), InPlace(s), s.isOpen, NEW o, o.fault = "none", o.wrote \in Nat
    PROVE  LET t == Close(s, o)
           IN /\ ~t.isOpen /\ t.mode = {} /\ t.ok /\ t.got = s.got /\ Empty(t)
              /\ Content(t) = Content(s) /\ Position(t) = 0 /\ PutBack(t) = NoPutBack
  <1> DEFINE r == Sync(s, o)
             t == Close(s, o)
  <1>1. Puts(s, r, <<>>) /\ r.ok /\ r.got = s.got /\ Empty(r) /\ Good(r)
    BY SyncPuts, SyncGood
  <1>2. /\ t.get = NoGet /\ t.put = NoPut /\ t.got = r.got /\ ~t.isOpen /\ t.mode = {}
        /\ t.file = FClose(r.file, o.fault = "close")
        /\ (t.ok <=> r.ok /\ o.fault # "close")
    BY CloseIs
  <1>3. Good(t)
    BY CloseGood
  <1>4. r.file \in CFiles
    BY <1>1, GoodFields
  <1> HIDE DEF r, t
  <1>5. t.file.data = r.file.data /\ t.file.pos = 0
    BY <1>2, <1>4, FCloseIs
  <1>6. Content(r) = r.file.data /\ Content(r) = Content(s)
    BY <1>1, EmptyView DEF Puts
  <1>7. Empty(t)
    BY <1>2 DEF Empty, Pending, NoPut
  <1>8. Content(t) = t.file.data /\ Position(t) = t.file.pos
    BY <1>3, <1>7, EmptyView
  <1>9. PutBack(t) = NoPutBack
    BY <1>2, NoGetPutBack
  <1> QED
    BY <1>1, <1>2, <1>5, <1>6, <1>7, <1>8, <1>9 DEF t

\* Changing the buffer is not noticed if nothing is held in the old one.
LEMMA SetBufPuts ==
    ASSUME NEW s, Good(s), Empty(s), NEW b \in UserBufs \cup {Null}, NEW n \in Nat
    PROVE  LET t == SetBuf(s, b, n) IN Puts(s, t, <<>>) /\ t.ok /\ t.got = s.got /\ Empty(t)
  <1> DEFINE t == SetBuf(s, b, n)
  <1>1. /\ t.get = NoGet /\ t.put = NoPut /\ t.got = s.got /\ SameUse(s, t) /\ t.ok
        /\ t.file = s.file
    BY SetBufIs
  <1>2. Good(t)
    BY SetBufGood
  <1> HIDE DEF t
  <1>3. Empty(t)
    BY <1>1 DEF Empty, Pending, NoPut
  <1>4. Content(t) = Content(s) /\ Position(t) = Position(s) /\ PutBack(t) = NoPutBack
    BY <1>1, <1>2, <1>3, EmptyView, NoGetPutBack
  <1> QED
    BY <1>1, <1>3, <1>4, PutsNothing DEF t

----------------------------------------------------------------------------
\* Reading, when no C call fails.

\* What a read at offset p sees.
See(s, p) == IF p \in DOMAIN PutBack(s) THEN PutBack(s)[p] ELSE Content(s)[p + 1]

\* Between s and t the caller has read v, and nothing else has happened that it could notice;
\* what it put back may be forgotten only once it has read past it.
Gets(s, t, v) ==
    /\ SameUse(s, t) /\ Content(t) = Content(s)
    /\ Position(t) = Position(s) + Len(v)
    /\ v # <<>> => Position(t) <= Len(Content(s))
    /\ \A i \in 1..Len(v) : v[i] = See(s, Position(s) + i - 1)
    /\ \/ PutBack(t) = PutBack(s)
       \/ PutBack(t) = NoPutBack /\ \A p \in DOMAIN PutBack(s) : p < Position(t)

\* The offset in the file of the first character of the get area.
GetBase(s) == s.file.pos - Len(s.get.chars)

LEMMA GetTypes ==
    ASSUME NEW s, Good(s)
    PROVE  /\ s.get.chars \in Seq(Chars) /\ s.get.idx \in Nat /\ s.get.stale \in BOOLEAN
           /\ s.file.pos \in Nat /\ s.file.data \in Seq(Chars) /\ GetBase(s) \in Int
           /\ Unread(s) \in Nat /\ s.get.idx + Unread(s) = Len(s.get.chars)
           /\ s.get.mod \subseteq Nat
  <1>1. s.file \in CFiles /\ s.get \in GetAreas
    BY DEF Good, FileBufs
  <1>2. /\ s.get.chars \in Seq(Chars) /\ s.get.idx \in Nat /\ s.get.stale \in BOOLEAN
        /\ s.get.mod \subseteq Nat
    BY <1>1 DEF GetAreas
  <1>3. s.file.pos \in Nat /\ s.file.data \in Seq(Chars)
    BY <1>1 DEF CFiles
  <1>4. s.get.idx <= Len(s.get.chars)
    BY DEF Good, MemorySafe, GetInBlock
  <1> QED
    BY <1>2, <1>3, <1>4 DEF Unread, GetBase

LEMMA PutBackIs ==
    ASSUME NEW s, Good(s)
    PROVE  /\ \A p \in DOMAIN PutBack(s) : p \in Int /\ ~s.get.stale
           /\ ~s.get.stale =>
                 /\ DOMAIN PutBack(s) = {GetBase(s) + i - 1 : i \in s.get.mod}
                 /\ \A i \in s.get.mod : PutBack(s)[GetBase(s) + i - 1] = s.get.chars[i]
  <1> DEFINE base == s.file.pos - Len(s.get.chars)
  <1>1. base = GetBase(s) /\ base \in Int /\ s.get.mod \subseteq Nat
    BY GetTypes DEF GetBase
  <1>2. CASE s.get.stale
    <2>1. PutBack(s) = [p \in {} |-> Hole]
      BY <1>2 DEF PutBack
    <2> QED
      BY <1>2, <2>1
  <1>3. CASE ~s.get.stale
    <2>1. PutBack(s) = [p \in {base + i - 1 : i \in s.get.mod} |-> s.get.chars[p - base + 1]]
      BY <1>3 DEF PutBack
    <2> HIDE DEF base
    <2>2. DOMAIN PutBack(s) = {base + i - 1 : i \in s.get.mod}
      BY <2>1
    <2>3. ASSUME NEW i \in s.get.mod PROVE PutBack(s)[base + i - 1] = s.get.chars[i]
      <3>1. (base + i - 1) - base + 1 = i
        BY <1>1
      <3>2. PutBack(s)[base + i - 1] = s.get.chars[(base + i - 1) - base + 1]
        BY <2>1
      <3> QED
        BY <3>1, <3>2
    <2>4. \A p \in DOMAIN PutBack(s) : p \in Int
      BY <1>1, <2>2
    <2> QED
      BY <1>1, <1>3, <2>2, <2>3, <2>4
  <1> QED
    BY <1>2, <1>3

\* The get area shows the caller what it is to read.
LEMMA SeeIs ==
    ASSUME NEW s, Good(s), InPlace(s), ~s.get.stale, NEW i \in 1..Len(s.get.chars)
    PROVE  /\ See(s, GetBase(s) + i - 1) = s.get.chars[i]
           /\ GetBase(s) >= 0 /\ s.file.pos <= Len(s.file.data)
           /\ Pending(s) = 0 /\ Content(s) = s.file.data
  <1>1. GetBase(s) \in Int /\ s.get.mod \subseteq Nat /\ i \in Nat
    BY GetTypes
  <1>2. HasGet(s)
    <2>1. CASE ~HasGet(s)
      <3>1. s.get.chars = <<>>
        BY <2>1, NoGetIsEmpty DEF NoGet
      <3> QED
        BY <3>1
    <2> QED
      BY <2>1
  <1>3. ShowsFile(s)
    BY <1>2 DEF InPlace, Mirrors
  <1>4. Pending(s) = 0 /\ Content(s) = s.file.data
    BY <1>2, NoGetIsEmpty, ContentType
  <1>5. s.file.pos <= Len(s.file.data) /\ GetBase(s) >= 0
    <2>1. s.get.chars # <<>>
      OBVIOUS
    <2> QED
      BY <1>3, <2>1 DEF ShowsFile, GetBase
  <1>6. CASE i \in s.get.mod
    <2>1. GetBase(s) + i - 1 \in DOMAIN PutBack(s)
      BY <1>6, PutBackIs
    <2>2. PutBack(s)[GetBase(s) + i - 1] = s.get.chars[i]
      BY <1>6, PutBackIs
    <2> QED
      BY <1>4, <1>5, <2>1, <2>2 DEF See
  <1>7. CASE i \notin s.get.mod
    <2>1. GetBase(s) + i - 1 \notin DOMAIN PutBack(s)
      <3>1. DOMAIN PutBack(s) = {GetBase(s) + j - 1 : j \in s.get.mod}
        BY PutBackIs
      <3>2. \A j \in s.get.mod : GetBase(s) + j - 1 # GetBase(s) + i - 1
        BY <1>1, <1>7
      <3> QED
        BY <3>1, <3>2
    <2>2. s.get.chars[i] = s.file.data[s.file.pos - Len(s.get.chars) + i]
      BY <1>3, <1>7 DEF ShowsFile
    <2>3. GetBase(s) + i - 1 + 1 = s.file.pos - Len(s.get.chars) + i
      BY <1>1 DEF GetBase
    <2> QED
      BY <1>4, <1>5, <2>1, <2>2, <2>3 DEF See
  <1> QED
    BY <1>6, <1>7

LEMMA NoPutBackDomain == DOMAIN NoPutBack = {}
  BY DEF NoPutBack

LEMMA GetsChain ==
    ASSUME NEW s, Good(s), InPlace(s), NEW t, NEW u,
           NEW v \in Seq(Chars), NEW w \in Seq(Chars), Gets(s, t, v), Gets(t, u, w)
    PROVE  Gets(s, u, Join(v, w))
  <1> DEFINE x == Join(v, w)
  <1>1. Position(s) \in Nat /\ Len(v) \in Nat /\ Len(w) \in Nat
    BY PositionType, SeqLength
  <1>2. /\ x \in Seq(Chars) /\ Len(x) = Len(v) + Len(w)
        /\ \A i \in 1..Len(v) : x[i] = v[i]
        /\ \A i \in 1..Len(w) : x[Len(v) + i] = w[i]
        /\ v # <<>> \/ w # <<>> <=> x # <<>>
    BY JoinIs
  <1> HIDE DEF x
  <1>3. SameUse(s, u) /\ Content(u) = Content(s)
    BY DEF Gets, SameUse
  <1>4. Position(t) = Position(s) + Len(v) /\ Position(u) = Position(t) + Len(w)
    BY DEF Gets
  <1>5. Position(u) = Position(s) + Len(x)
    BY <1>1, <1>2, <1>4
  <1>6. x # <<>> => Position(u) <= Len(Content(s))
    <2>1. CASE w # <<>>
      BY <2>1 DEF Gets
    <2>2. CASE w = <<>> /\ v # <<>>
      <3>1. Len(w) = 0
        BY <2>2
      <3> QED
        BY <1>1, <1>4, <2>2, <3>1 DEF Gets
    <2> QED
      BY <1>2, <2>1, <2>2
  <1>7. \A p \in Int : p >= Position(t) => See(t, p) = See(s, p)
    <2>1. CASE PutBack(t) = PutBack(s)
      BY <2>1 DEF See, Gets
    <2>2. CASE PutBack(t) = NoPutBack /\ \A p \in DOMAIN PutBack(s) : p < Position(t)
      <3> TAKE p \in Int
      <3> HAVE p >= Position(t)
      <3>1. p \notin DOMAIN PutBack(s)
        BY <1>1, <1>4, <2>2
      <3>2. p \notin DOMAIN PutBack(t)
        BY <2>2, NoPutBackDomain
      <3>3. Content(t) = Content(s)
        BY DEF Gets
      <3> QED
        BY <3>1, <3>2, <3>3 DEF See
    <2> QED
      BY <2>1, <2>2 DEF Gets
  <1>8. ASSUME NEW i \in 1..Len(x) PROVE x[i] = See(s, Position(s) + i - 1)
    <2>1. CASE i <= Len(v)
      <3>1. i \in 1..Len(v)
        BY <1>1, <1>2, <2>1
      <3> QED
        BY <1>2, <3>1 DEF Gets
    <2>2. CASE i > Len(v)
      <3> DEFINE j == i - Len(v)
      <3>1. j \in 1..Len(w) /\ Len(v) + j = i
        BY <1>1, <1>2, <2>2
      <3>2. x[i] = w[j]
        BY <1>2, <3>1
      <3>3. w[j] = See(t, Position(t) + j - 1)
        BY <3>1 DEF Gets
      <3>4. Position(t) + j - 1 = Position(s) + i - 1 /\ Position(t) + j - 1 \in Int
            /\ Position(t) + j - 1 >= Position(t)
        BY <1>1, <1>4, <3>1
      <3> HIDE DEF j
      <3> QED
        BY <1>7, <3>2, <3>3, <3>4
    <2> QED
      BY <1>1, <1>2, <2>1, <2>2
  <1>9. \/ PutBack(u) = PutBack(s)
        \/ PutBack(u) = NoPutBack /\ \A p \in DOMAIN PutBack(s) : p < Position(u)
    <2>1. \A p \in DOMAIN PutBack(s) : p \in Int
      BY PutBackIs
    <2>2. Position(t) <= Position(u) /\ Position(t) \in Int /\ Position(u) \in Int
      BY <1>1, <1>4
    <2>3. CASE PutBack(t) = PutBack(s)
      BY <2>3 DEF Gets
    <2>4. CASE PutBack(t) = NoPutBack /\ \A p \in DOMAIN PutBack(s) : p < Position(t)
      <3>1. \A p \in DOMAIN PutBack(s) : p < Position(u)
        BY <2>1, <2>2, <2>4
      <3>2. PutBack(u) = NoPutBack
        BY <2>4 DEF Gets
      <3> QED
        BY <3>1, <3>2
    <2> QED
      BY <2>3, <2>4 DEF Gets
  <1>10. Gets(s, u, x)
    BY <1>3, <1>5, <1>6, <1>8, <1>9 DEF Gets
  <1> QED
    BY <1>10 DEF x

LEMMA GetsNothing ==
    ASSUME NEW s, Good(s), InPlace(s), NEW t, SameUse(s, t), Content(t) = Content(s),
           Position(t) = Position(s),
           \/ PutBack(t) = PutBack(s)
           \/ PutBack(t) = NoPutBack /\ \A p \in DOMAIN PutBack(s) : p < Position(t)
    PROVE  Gets(s, t, <<>>)
  <1>1. Position(s) + Len(<<>>) = Position(s)
    BY PositionType
  <1> QED
    BY <1>1 DEF Gets

LEMMA GetsFirst ==
    ASSUME NEW s, Good(s), InPlace(s), NEW t, NEW u, NEW w \in Seq(Chars),
           Gets(s, t, <<>>), Gets(t, u, w)
    PROVE  Gets(s, u, w)
  <1>1. <<>> \in Seq(Chars)
    OBVIOUS
  <1>2. Join(<<>>, w) = w
    BY <1>1, JoinIs
  <1>3. Gets(s, u, Join(<<>>, w))
    BY <1>1, GetsChain
  <1> QED
    BY <1>2, <1>3

LEMMA GetsLast ==
    ASSUME NEW s, Good(s), InPlace(s), NEW t, NEW u, NEW v \in Seq(Chars),
           Gets(s, t, v), Gets(t, u, <<>>)
    PROVE  Gets(s, u, v)
  <1>1. <<>> \in Seq(Chars)
    OBVIOUS
  <1>2. Join(v, <<>>) = v
    BY <1>1, JoinIs
  <1>3. Gets(s, u, Join(v, <<>>))
    BY <1>1, GetsChain
  <1> QED
    BY <1>2, <1>3

\* Handing out the next n characters of the get area.
LEMMA TakeGets ==
    ASSUME NEW s, Good(s), InPlace(s), NEW n \in Nat, n <= Unread(s)
    PROVE  LET t == Take(s, n)
               x == Part(s.get.chars, s.get.idx + 1, s.get.idx + n)
           IN /\ x \in Seq(Chars) /\ Len(x) = n /\ t.got = Join(s.got, x)
              /\ Gets(s, t, x) /\ Good(t) /\ InPlace(t) /\ Unread(t) = Unread(s) - n
              /\ t.ok /\ SameShell(s, t) /\ t.file = s.file
  <1> DEFINE t == Take(s, n)
             a == s.get.chars
             i0 == s.get.idx
             x == Part(a, i0 + 1, i0 + n)
  <1>1. /\ t.put = s.put /\ SameShell(s, t) /\ t.file = s.file /\ t.ok
        /\ t.got = Join(s.got, x)
        /\ t.get.at = s.get.at /\ t.get.chars = a /\ t.get.mod = s.get.mod
        /\ t.get.stale = s.get.stale /\ t.get.idx = i0 + n
    BY TakeIs
  <1>2. Good(t) /\ Mirrors(t)
    BY TakeGood, TakeMirrors DEF InPlace
  <1> HIDE DEF t
  <1>3. /\ a \in Seq(Chars) /\ i0 \in Nat /\ Unread(s) \in Nat /\ i0 + Unread(s) = Len(a)
        /\ s.file.pos \in Nat /\ GetBase(s) \in Int /\ s.get.stale \in BOOLEAN
    BY GetTypes
  <1> HIDE DEF a, i0
  <1>4. x \in Seq(Chars) /\ Len(x) = n /\ \A i \in 1..n : x[i] = a[i0 + i]
    <2>1. i0 + n <= Len(a) /\ Len(a) \in Nat
      BY <1>3
    <2> QED
      BY <1>3, <2>1 DEF Part
  <1> HIDE DEF x
  <1>5. Unread(t) = Unread(s) - n
    <2>1. Unread(t) = Len(a) - (i0 + n)
      BY <1>1 DEF Unread
    <2> QED
      BY <1>3, <2>1
  <1>6. InPlace(t)
    <2>1. t.get.stale => Unread(t) = 0
      <3>1. s.get.stale => Unread(s) = 0
        BY DEF InPlace
      <3> QED
        BY <1>1, <1>3, <1>5, <3>1
    <2> QED
      BY <1>2, <2>1 DEF InPlace
  <1>7. SameUse(s, t) /\ Content(t) = Content(s) /\ Pending(t) = Pending(s)
        /\ PutBack(t) = PutBack(s)
    <2>1. SameUse(s, t) /\ t.put.chars = s.put.chars
      BY <1>1 DEF SameShell, SameUse
    <2>2. t.get.chars = s.get.chars
      BY <1>1 DEF a
    <2> QED
      BY <1>1, <2>1, <2>2, SameView, SamePutBack
  <1>8. Gets(s, t, x)
    <2>1. CASE n = 0
      <3>1. x = <<>>
        BY <1>4, <2>1
      <3>2. Unread(t) = Unread(s)
        BY <1>3, <1>5, <2>1
      <3>3. Position(t) = Position(s)
        <4>1. t.put.chars = s.put.chars
          BY <1>1
        <4> QED
          BY <1>1, <1>7, <3>2, <4>1, SameView
      <3> QED
        BY <1>7, <3>1, <3>3, GetsNothing
    <2>2. CASE n # 0
      <3>1. ~s.get.stale
        BY <1>3, <2>2 DEF InPlace
      <3>2. \A i \in 1..n : i0 + i \in 1..Len(a)
        BY <1>3
      <3>3. \A i \in 1..n : See(s, GetBase(s) + (i0 + i) - 1) = a[i0 + i]
        BY <3>1, <3>2, SeeIs DEF a
      <3>4. Pending(s) = 0 /\ Content(s) = s.file.data /\ s.file.pos <= Len(s.file.data)
        <4>1. i0 + 1 \in 1..Len(a)
          BY <2>2, <3>2
        <4> QED
          BY <3>1, <4>1, SeeIs DEF a
      <3>5. Position(s) = s.file.pos - Unread(s) /\ Position(t) = s.file.pos - (Unread(s) - n)
        BY <1>1, <1>5, <1>7, <3>4 DEF Position
      <3>6. Position(s) = GetBase(s) + i0
        BY <1>3, <3>5 DEF GetBase, a
      <3>7. Position(t) = Position(s) + Len(x)
        BY <1>3, <1>4, <3>5
      <3>8. Position(t) <= Len(Content(s))
        <4>1. Len(s.file.data) \in Int
          BY GetTypes
        <4> QED
          BY <1>3, <3>4, <3>5, <4>1
      <3>9. ASSUME NEW i \in 1..Len(x) PROVE x[i] = See(s, Position(s) + i - 1)
        <4>1. i \in 1..n
          BY <1>4
        <4>2. Position(s) + i - 1 = GetBase(s) + (i0 + i) - 1
          BY <1>3, <3>6, <4>1
        <4> QED
          BY <1>4, <3>3, <4>1, <4>2
      <3> QED
        BY <1>7, <3>7, <3>8, <3>9 DEF Gets
    <2> QED
      BY <2>1, <2>2
  <1> QED
    BY <1>1, <1>2, <1>4, <1>5, <1>6, <1>8 DEF t, x, a, i0

\* stop_writing hands over what waits; the caller notices nothing.
LEMMA StopWritingGets ==
    ASSUME NEW s, Good(s), InPlace(s), NEW o, o.fault = "none", o.wrote \in Nat
    PROVE  LET t == StopWriting(s, o)
           IN /\ Gets(s, t, <<>>) /\ t.ok /\ Good(t) /\ InPlace(t) /\ t.get = s.get
              /\ ~HasPut(t) /\ SameShell(s, t) /\ t.got = s.got
  <1> DEFINE t == StopWriting(s, o)
             w == s.put.chars
             k == Accepted(w, o, "write")
  <1>1. /\ t.get = s.get /\ t.put = NoPut /\ t.got = s.got /\ SameShell(s, t)
        /\ w = <<>> => t.file = s.file /\ t.ok
        /\ w # <<>> => t.file = FWrite(s.file, w, k, AppendMode(s)) /\ (t.ok <=> k = Len(w))
    BY StopWritingIs
  <1>2. Good(t) /\ Mirrors(t)
    BY StopWritingGood, StopWritingMirrors DEF InPlace
  <1>3. w \in Seq(Chars) /\ s.file \in CFiles /\ k = Len(w)
    BY GoodFields, AllAccepted
  <1> HIDE DEF t, k
  <1>4. InPlace(t) /\ ~HasPut(t) /\ t.put.chars = <<>> /\ SameUse(s, t) /\ Pending(t) = 0
        /\ Unread(t) = Unread(s)
    BY <1>1, <1>2 DEF InPlace, Unread, HasPut, NoPut, SameShell, SameUse, Pending
  <1>5. CASE w = <<>>
    <2>1. t.file = s.file /\ t.ok
      BY <1>1, <1>5
    <2>2. Content(t) = Content(s) /\ Position(t) = Position(s) /\ PutBack(t) = PutBack(s)
      BY <1>1, <1>4, <1>5, <2>1, SameView, SamePutBack
    <2> QED
      BY <1>1, <1>2, <1>4, <2>1, <2>2, GetsNothing DEF t
  <1>6. CASE w # <<>>
    <2>1. t.file = FWrite(s.file, w, Len(w), AppendMode(s)) /\ t.ok
      BY <1>1, <1>3, <1>6
    <2>2. Pending(s) > 0 /\ Pending(s) = Len(w)
      BY <1>3, <1>6 DEF Pending
    <2>3. s.get = NoGet
      <3>1. HasPut(s)
        BY <2>2, NoGetIsEmpty
      <3> QED
        BY <3>1, NoGetIsEmpty
    <2>4. Unread(s) = 0 /\ PutBack(t) = NoPutBack /\ PutBack(s) = NoPutBack
      BY <1>1, <2>3, NoGetPutBack, NoGetIsEmpty
    <2>5. t.file.data = Content(s) /\ t.file.pos = PutAt(s)
      <3>1. /\ t.file.data = Overwrite(s.file.data, WritePos(s.file, AppendMode(s)), w)
            /\ t.file.pos = WritePos(s.file, AppendMode(s)) + Len(w)
        BY <1>3, <2>1, AllWritten
      <3>2. PutAt(s) = WritePos(s.file, AppendMode(s)) + Len(w)
        BY <2>2, <2>4, PutAtIs
      <3> QED
        BY <3>1, <3>2 DEF Content
    <2>6. <<>> \in Seq(Chars)
      OBVIOUS
    <2>7. Puts(s, t, <<>>)
      BY <1>4, <2>2, <2>4, <2>5, <2>6, UpToDatePuts
    <2>8. Content(t) = Content(s) /\ Position(t) = Position(s)
      BY <2>7 DEF Puts
    <2> QED
      BY <1>1, <1>2, <1>4, <2>1, <2>4, <2>8, GetsNothing DEF t
  <1> QED
    BY <1>5, <1>6

\* Everything put back lies before the position of the C stream.
LEMMA PutBackBefore ==
    ASSUME NEW s, Good(s), InPlace(s), NEW p \in DOMAIN PutBack(s)
    PROVE  p < s.file.pos
  <1>1. ~s.get.stale
    BY PutBackIs
  <1>2. PICK i \in s.get.mod : p = GetBase(s) + i - 1
    BY <1>1, PutBackIs
  <1>3. i \in 1..Len(s.get.chars) /\ s.get.chars \in Seq(Chars) /\ s.file.pos \in Nat
    <2>1. s.get.chars \in Seq(Chars) /\ s.file.pos \in Nat /\ DOMAIN s.get.chars = 1..Len(s.get.chars)
      BY GetTypes
    <2> QED
      BY <1>2, <2>1 DEF InPlace, Mirrors
  <1> QED
    BY <1>2, <1>3 DEF GetBase

\* Reading ahead: the get area is replaced by the next n characters.
LEMMA FilledGets ==
    ASSUME NEW s, Good(s), InPlace(s), ~HasPut(s), Unread(s) = 0, NEW n \in Nat \ {0}, NEW b,
           NEW t, SameUse(s, t), t.put = s.put, t.file = FRead(s.file, n),
           t.get = GetArea(b, BytesRead(s.file, n))
    PROVE  LET w == BytesRead(s.file, n)
           IN /\ Gets(s, t, <<>>) /\ InPlace(t) /\ Unread(t) = Len(w)
              /\ (w # <<>> <=> Position(s) < Len(Content(s)))
              /\ Len(w) < n => Position(t) + Unread(t) >= Len(Content(t))
              /\ Len(w) \in Nat
  <1> DEFINE w == BytesRead(s.file, n)
             d == s.file.data
             p == s.file.pos
  <1>1. s.file \in CFiles /\ p \in Nat /\ Len(d) \in Nat
    BY GoodFields, GetTypes
  <1>2. /\ w \in Seq(Chars)
        /\ Len(w) = IF p + n <= Len(d) THEN n ELSE IF p < Len(d) THEN Len(d) - p ELSE 0
    BY <1>1, BytesReadIs
  <1>3. Mirrors(t)
    BY FilledMirrors
  <1>4. t.file.data = d /\ t.file.pos = p + Len(w)
    BY <1>1, FReadIs
  <1>5. t.get.chars = w /\ t.get.idx = 0 /\ t.get.mod = {} /\ t.get.stale = FALSE
    BY DEF GetArea
  <1>6. Pending(s) = 0 /\ Pending(t) = 0 /\ t.put.chars = <<>> /\ s.put = NoPut
    BY NoGetIsEmpty DEF Pending, NoPut
  <1> HIDE DEF w
  <1>7. Unread(t) = Len(w) /\ Len(w) \in Nat
    BY <1>2, <1>5 DEF Unread
  <1>8. Content(s) = d /\ Content(t) = d
    <2>1. Content(t) = t.file.data
      BY <1>6 DEF Content, Overwrite
    <2> QED
      BY <1>4, <1>6, <2>1, ContentType
  <1>9. Position(s) = p /\ Position(t) = p
    BY <1>1, <1>4, <1>6, <1>7 DEF Position
  <1>10. PutBack(t) = NoPutBack
    BY <1>5 DEF PutBack, NoPutBack
  <1>11. \A q \in DOMAIN PutBack(s) : q < Position(t)
    BY <1>9, PutBackBefore
  <1>12. Gets(s, t, <<>>)
    BY <1>8, <1>9, <1>10, <1>11, GetsNothing
  <1>13. InPlace(t)
    BY <1>3, <1>5 DEF InPlace
  <1> HIDE DEF d, p
  <1>14. w # <<>> <=> p < Len(d)
    <2>1. w # <<>> <=> Len(w) # 0
      BY <1>2
    <2> QED
      BY <1>1, <1>2, <2>1
  <1>15. Len(w) < n => p + Len(w) >= Len(d)
    BY <1>1, <1>2
  <1> QED
    BY <1>7, <1>8, <1>9, <1>12, <1>13, <1>14, <1>15 DEF w

\* What one call of the C library fetches.
ReadSize(s) == IF s.unbuffered THEN 1 ELSE s.size

\* Between s and t more was read ahead: nothing the caller notices, but that there is
\* something to read unless the file ends there.
Filled(s, t) ==
    /\ Gets(s, t, <<>>) /\ Good(t) /\ InPlace(t) /\ t.got = s.got
    /\ t.ok <=> Position(s) < Len(Content(s))
    /\ t.ok <=> Unread(t) > 0
    /\ Unread(t) < ReadSize(s) => Position(t) + Unread(t) >= Len(Content(t))

LEMMA FillLastFills ==
    ASSUME NEW s, Good(s), InPlace(s), s.isOpen, CanRead(s), ~HasPut(s), Unread(s) = 0,
           s.unbuffered
    PROVE  Filled(s, FillLast(s))
  <1> DEFINE t == FillLast(s)
             w == BytesRead(s.file, 1)
  <1>1. /\ t.put = s.put /\ t.got = s.got /\ SameShell(s, t)
        /\ t.get = IF w = <<>> THEN s.get ELSE GetArea(Last, w)
        /\ t.file = FRead(s.file, 1) /\ (t.ok <=> w # <<>>)
    BY FillLastIs
  <1>2. Good(t) /\ SameUse(s, t)
    BY FillLastGood DEF SameShell, SameUse
  <1>3. s.file \in CFiles /\ s.file.pos \in Nat /\ Len(s.file.data) \in Nat
    BY GoodFields, GetTypes
  <1>4. w \in Seq(Chars) /\ Len(w) = IF s.file.pos + 1 <= Len(s.file.data) THEN 1
                         ELSE IF s.file.pos < Len(s.file.data) THEN Len(s.file.data) - s.file.pos
                         ELSE 0
    BY <1>3, BytesReadIs
  <1> HIDE DEF t
  <1>5. CASE w = <<>>
    <2>1. t.get = s.get /\ ~t.ok
      BY <1>1, <1>5
    <2>2. t.file.data = s.file.data /\ t.file.pos = s.file.pos
      BY <1>1, <1>3, <1>5, FReadIs
    <2>3. Unread(t) = 0
      BY <2>1 DEF Unread
    <2>4. Content(t) = Content(s) /\ Position(t) = Position(s) /\ PutBack(t) = PutBack(s)
      BY <1>1, <1>2, <2>1, <2>2, <2>3, SameView, SamePutBack
    <2>5. Gets(s, t, <<>>) /\ InPlace(t)
      BY <1>2, <2>1, <2>2, <2>4, GetsNothing, SameInPlace
    <2>6. Position(s) = s.file.pos /\ Content(s) = s.file.data
      <3>1. Pending(s) = 0
        BY NoGetIsEmpty
      <3> QED
        BY <1>3, <3>1, ContentType DEF Position
    <2>7. s.file.pos >= Len(s.file.data)
      BY <1>3, <1>4, <1>5
    <2> QED
      BY <1>1, <1>2, <1>3, <2>1, <2>3, <2>4, <2>5, <2>6, <2>7 DEF Filled, t
  <1>6. CASE w # <<>>
    <2>1. t.get = GetArea(Last, w) /\ t.ok
      BY <1>1, <1>6
    <2>2. /\ Gets(s, t, <<>>) /\ InPlace(t) /\ Unread(t) = Len(w)
          /\ (w # <<>> <=> Position(s) < Len(Content(s)))
          /\ Len(w) < 1 => Position(t) + Unread(t) >= Len(Content(t))
          /\ Len(w) \in Nat
      BY <1>1, <1>2, <2>1, FilledGets
    <2>3. Len(w) > 0 /\ ReadSize(s) = 1
      BY <1>4, <1>6 DEF ReadSize
    <2> QED
      BY <1>1, <1>2, <1>6, <2>1, <2>2, <2>3 DEF Filled, t
  <1> QED
    BY <1>5, <1>6

LEMMA FillBufferFills ==
    ASSUME NEW s, Good(s), InPlace(s), s.isOpen, CanRead(s), ~HasPut(s), Unread(s) = 0,
           s.mem # Null, s.size > 0, ~s.unbuffered
    PROVE  Filled(s, FillBuffer(s))
  <1> DEFINE t == FillBuffer(s)
             w == BytesRead(s.file, s.size)
  <1>1. /\ t.put = s.put /\ t.got = s.got /\ SameShell(s, t)
        /\ t.get = GetArea(s.mem, w)
        /\ t.file = FRead(s.file, s.size) /\ (t.ok <=> w # <<>>)
    BY FillBufferIs
  <1>2. Good(t) /\ SameUse(s, t)
    BY FillBufferGood DEF SameShell, SameUse
  <1>3. s.file \in CFiles /\ s.size \in Nat
    BY DEF Good, FileBufs
  <1>4. w \in Seq(Chars)
    BY <1>3, BytesReadIs
  <1> HIDE DEF t
  <1>5. s.size \in Nat \ {0}
    BY <1>3
  <1>6. /\ Gets(s, t, <<>>) /\ InPlace(t) /\ Unread(t) = Len(w)
        /\ (w # <<>> <=> Position(s) < Len(Content(s)))
        /\ Len(w) < s.size => Position(t) + Unread(t) >= Len(Content(t))
        /\ Len(w) \in Nat
    BY <1>1, <1>2, <1>5, FilledGets
  <1>7. w # <<>> <=> Len(w) > 0
    BY <1>4
  <1>8. ReadSize(s) = s.size
    BY DEF ReadSize
  <1> QED
    BY <1>1, <1>2, <1>6, <1>7, <1>8 DEF Filled, t

\* Filled after a step the caller does not notice.
LEMMA FilledAfter ==
    ASSUME NEW s, Good(s), InPlace(s), NEW t, NEW u, Gets(s, t, <<>>), Filled(t, u),
           t.got = s.got, ReadSize(t) = ReadSize(s)
    PROVE  Filled(s, u)
  <1>1. <<>> \in Seq(Chars)
    OBVIOUS
  <1>2. Gets(t, u, <<>>)
    BY DEF Filled
  <1>3. Gets(s, u, <<>>)
    BY <1>1, <1>2, GetsFirst
  <1>4. Content(t) = Content(s) /\ Position(t) = Position(s)
    <2>1. Position(t) = Position(s) + Len(<<>>) /\ Position(s) \in Nat
      BY PositionType DEF Gets
    <2>2. Content(t) = Content(s)
      BY DEF Gets
    <2> QED
      BY <2>1, <2>2
  <1> QED
    BY <1>3, <1>4 DEF Filled

\* make_buffer: nothing the caller notices.
LEMMA MakeBufferGets ==
    ASSUME NEW s, Good(s), InPlace(s), s.isOpen
    PROVE  LET t == MakeBuffer(s)
           IN /\ Gets(s, t, <<>>) /\ Good(t) /\ InPlace(t) /\ t.got = s.got
              /\ ReadSize(t) = ReadSize(s) /\ t.put = s.put /\ Unread(t) = Unread(s)
              /\ t.isOpen = s.isOpen /\ t.mode = s.mode /\ t.unbuffered = s.unbuffered
              /\ t.size = s.size /\ (s.size > 0 => t.mem # Null)
  <1> DEFINE t == MakeBuffer(s)
  <1>1. /\ Good(t) /\ t.get = s.get /\ t.put = s.put
        /\ t.isOpen = s.isOpen /\ t.mode = s.mode /\ t.unbuffered = s.unbuffered
        /\ t.size = s.size /\ t.file = s.file /\ t.got = s.got
        /\ s.size > 0 => t.mem # Null
    BY MakeBufferGood
  <1> HIDE DEF t
  <1>2. SameUse(s, t) /\ Unread(t) = Unread(s) /\ InPlace(t) /\ ReadSize(t) = ReadSize(s)
    BY <1>1, SameInPlace DEF SameUse, Unread, ReadSize
  <1>3. Content(t) = Content(s) /\ Position(t) = Position(s) /\ PutBack(t) = PutBack(s)
    BY <1>1, <1>2, SameView, SamePutBack
  <1>4. Gets(s, t, <<>>)
    BY <1>2, <1>3, GetsNothing
  <1> QED
    BY <1>1, <1>2, <1>4 DEF t

LEMMA UnderflowFills ==
    ASSUME NEW s, Good(s), InPlace(s), CanRead(s), Unread(s) = 0,
           NEW o, o.fault = "none", o.wrote \in Nat
    PROVE  Filled(s, Underflow(s, o))
  <1> DEFINE t == StopWriting(s, o)
             u == MakeBuffer(t)
  <1>1. /\ Gets(s, t, <<>>) /\ t.ok /\ Good(t) /\ InPlace(t) /\ t.get = s.get
        /\ ~HasPut(t) /\ SameShell(s, t) /\ t.got = s.got
    BY StopWritingGets
  <1>2. s.isOpen
    BY DEF Good, MemorySafe, ClosedIsClean, CanRead
  <1>3. Underflow(s, o) = IF s.unbuffered THEN FillLast(t) ELSE FillBuffer(u)
    BY <1>1 DEF Underflow
  <1> HIDE DEF t
  <1>4. /\ t.isOpen /\ CanRead(t) /\ Unread(t) = 0 /\ t.unbuffered = s.unbuffered
        /\ t.size = s.size /\ ReadSize(t) = ReadSize(s)
    BY <1>1, <1>2 DEF SameShell, CanRead, Unread, ReadSize
  <1>5. CASE s.unbuffered
    <2>1. Filled(t, FillLast(t))
      BY <1>1, <1>4, <1>5, FillLastFills
    <2> QED
      BY <1>1, <1>3, <1>4, <1>5, <2>1, FilledAfter
  <1>6. CASE ~s.unbuffered
    <2>1. t.size > 0
      BY <1>1, <1>4, <1>6 DEF Good, MemorySafe, BufferedIsBinary
    <2>2. /\ Gets(t, u, <<>>) /\ Good(u) /\ InPlace(u) /\ u.got = t.got
          /\ ReadSize(u) = ReadSize(t) /\ u.put = t.put /\ Unread(u) = Unread(t)
          /\ u.isOpen = t.isOpen /\ u.mode = t.mode /\ u.unbuffered = t.unbuffered
          /\ u.size = t.size /\ u.mem # Null
      BY <1>1, <1>4, <2>1, MakeBufferGets
    <2> HIDE DEF u
    <2>3. u.isOpen /\ CanRead(u) /\ ~HasPut(u)
      BY <1>1, <1>4, <2>2 DEF CanRead, HasPut
    <2>4. Filled(u, FillBuffer(u))
      BY <1>4, <1>6, <2>1, <2>2, <2>3, FillBufferFills
    <2>5. Filled(t, FillBuffer(u))
      BY <1>1, <2>2, <2>4, FilledAfter
    <2>6. Filled(s, FillBuffer(u))
      BY <1>1, <1>4, <2>5, FilledAfter
    <2> QED
      BY <1>3, <1>6, <2>6
  <1> QED
    BY <1>5, <1>6

\* Between s and t the caller was handed w, the next characters of the file.
Hands(s, t, w) ==
    /\ Gets(s, t, w) /\ w \in Seq(Chars) /\ t.got = Join(s.got, w)
    /\ Good(t) /\ InPlace(t)

\* Join keeps brackets apart from what is joined.
LEMMA JoinTwice ==
    ASSUME NEW u \in Seq(Chars), NEW v \in Seq(Chars), NEW w \in Seq(Chars)
    PROVE  Join(Join(u, v), w) = Join(u, Join(v, w))
  BY DEF Join

LEMMA GotType ==
    ASSUME NEW s, Good(s)
    PROVE  s.got \in Seq(Chars)
  BY DEF Good, FileBufs

LEMMA HandsChain ==
    ASSUME NEW s, Good(s), InPlace(s), NEW t, NEW u, NEW v, NEW w, Hands(s, t, v), Hands(t, u, w)
    PROVE  Hands(s, u, Join(v, w)) /\ Len(Join(v, w)) = Len(v) + Len(w)
  <1>1. v \in Seq(Chars) /\ w \in Seq(Chars) /\ s.got \in Seq(Chars)
    BY GotType DEF Hands
  <1>2. Join(v, w) \in Seq(Chars) /\ Len(Join(v, w)) = Len(v) + Len(w)
    BY <1>1, JoinIs
  <1>3. Gets(s, t, v) /\ Gets(t, u, w)
    BY DEF Hands
  <1>4. Gets(s, u, Join(v, w))
    BY <1>1, <1>3, GetsChain
  <1>5. u.got = Join(s.got, Join(v, w))
    <2>1. u.got = Join(Join(s.got, v), w)
      BY DEF Hands
    <2> QED
      BY <1>1, <2>1, JoinTwice
  <1> QED
    BY <1>2, <1>4, <1>5 DEF Hands

LEMMA NothingHanded ==
    ASSUME NEW s, Good(s), NEW t, Gets(s, t, <<>>), Good(t), InPlace(t), t.got = s.got
    PROVE  Hands(s, t, <<>>)
  <1>1. <<>> \in Seq(Chars) /\ s.got \in Seq(Chars)
    BY GotType
  <1>2. Join(s.got, <<>>) = s.got
    BY <1>1, JoinIs
  <1> QED
    BY <1>1, <1>2 DEF Hands

\* A step that hands out nothing, before or after one that does.
LEMMA HandsAfter ==
    ASSUME NEW s, Good(s), InPlace(s), NEW t, NEW u, NEW w, Hands(s, t, <<>>), Hands(t, u, w)
    PROVE  Hands(s, u, w)
  <1>1. w \in Seq(Chars) /\ <<>> \in Seq(Chars)
    BY DEF Hands
  <1>2. Join(<<>>, w) = w
    BY <1>1, JoinIs
  <1>3. Hands(s, u, Join(<<>>, w))
    BY HandsChain
  <1> QED
    BY <1>2, <1>3

LEMMA HandsBefore ==
    ASSUME NEW s, Good(s), InPlace(s), NEW t, NEW u, NEW w, Hands(s, t, w), Hands(t, u, <<>>)
    PROVE  Hands(s, u, w)
  <1>1. w \in Seq(Chars) /\ <<>> \in Seq(Chars)
    BY DEF Hands
  <1>2. Join(w, <<>>) = w
    BY <1>1, JoinIs
  <1>3. Hands(s, u, Join(w, <<>>))
    BY HandsChain
  <1> QED
    BY <1>2, <1>3

LEMMA FilledHands ==
    ASSUME NEW s, Good(s), NEW t, Filled(s, t)
    PROVE  /\ Hands(s, t, <<>>) /\ Position(t) = Position(s) + 0 /\ Content(t) = Content(s)
           /\ SameUse(s, t)
  <1>1. Len(<<>>) = 0
    OBVIOUS
  <1> QED
    BY <1>1, NothingHanded DEF Filled, Gets

\* What is in the get area is in the file.
LEMMA UnreadIsThere ==
    ASSUME NEW s, Good(s), InPlace(s), Unread(s) > 0
    PROVE  Position(s) < Len(Content(s))
  <1>1. /\ s.get.chars \in Seq(Chars) /\ s.get.idx \in Nat /\ s.get.stale \in BOOLEAN
        /\ s.file.pos \in Nat /\ s.file.data \in Seq(Chars)
        /\ Unread(s) \in Nat /\ s.get.idx + Unread(s) = Len(s.get.chars)
    BY GetTypes
  <1>2. ~s.get.stale
    BY <1>1 DEF InPlace
  <1>3. s.get.idx + 1 \in 1..Len(s.get.chars)
    BY <1>1
  <1>4. s.file.pos <= Len(s.file.data) /\ Pending(s) = 0 /\ Content(s) = s.file.data
    BY <1>2, <1>3, SeeIs
  <1>5. Position(s) = s.file.pos - Unread(s)
    BY <1>4 DEF Position
  <1>6. Len(s.file.data) \in Nat
    BY <1>1
  <1> QED
    BY <1>1, <1>4, <1>5, <1>6

LEMMA TakeUpToHands ==
    ASSUME NEW s, Good(s), InPlace(s), NEW n \in Nat
    PROVE  LET t == TakeUpTo(s, n)
           IN \E w : /\ Hands(s, t, w) /\ Len(w) = Least(n, Unread(s))
                     /\ t.ok /\ SameShell(s, t) /\ Unread(t) = Unread(s) - Len(w)
  <1> DEFINE k == Least(n, Unread(s))
             t == Take(s, k)
             x == Part(s.get.chars, s.get.idx + 1, s.get.idx + k)
  <1>1. Unread(s) \in Nat
    BY GetTypes
  <1>2. k \in Nat /\ k <= Unread(s)
    BY <1>1 DEF Least
  <1> HIDE DEF k
  <1>3. /\ x \in Seq(Chars) /\ Len(x) = k /\ t.got = Join(s.got, x)
        /\ Gets(s, t, x) /\ Good(t) /\ InPlace(t) /\ Unread(t) = Unread(s) - k
        /\ t.ok /\ SameShell(s, t)
    BY <1>2, TakeGets
  <1> HIDE DEF t, x
  <1>4. Hands(s, t, x)
    BY <1>3 DEF Hands
  <1>5. TakeUpTo(s, n) = t
    BY DEF TakeUpTo, t, k
  <1> QED
    BY <1>3, <1>4, <1>5 DEF k

\* What a read of n characters does.
ReadsUpTo(s, t, n, w) ==
    /\ Hands(s, t, w) /\ Len(w) <= n
    /\ t.ok <=> Len(w) = n
    /\ ~t.ok => Position(t) >= Len(Content(s))

LEMMA RefillGets ==
    ASSUME NEW s, Good(s), InPlace(s), CanRead(s), NEW o, o.fault = "none", o.wrote \in Nat
    PROVE  LET t == Refill(s, o)
           IN /\ Hands(s, t, <<>>) /\ Position(t) = Position(s) /\ Content(t) = Content(s)
              /\ t.ok <=> Position(s) < Len(Content(s))
              /\ t.ok <=> Unread(t) > 0
  <1>1. Unread(s) \in Nat /\ Position(s) \in Nat
    BY PositionType
  <1>2. CASE Unread(s) > 0
    <2> DEFINE t == Result(s, TRUE)
    <2>1. Refill(s, o) = t
      BY <1>2 DEF Refill
    <2>2. /\ t.get = s.get /\ t.put = s.put /\ t.got = s.got /\ t.file = s.file
          /\ SameShell(s, t) /\ t.ok
      BY ResultIs
    <2>3. Good(t)
      BY ResultGood
    <2> HIDE DEF t
    <2>4. SameUse(s, t) /\ Unread(t) = Unread(s) /\ InPlace(t)
      BY <2>2, SameInPlace DEF SameUse, SameShell, Unread
    <2>5. Content(t) = Content(s) /\ Position(t) = Position(s) /\ PutBack(t) = PutBack(s)
      BY <2>2, <2>4, SameView, SamePutBack
    <2>6. Gets(s, t, <<>>)
      BY <2>4, <2>5, GetsNothing
    <2>7. Hands(s, t, <<>>)
      BY <2>2, <2>3, <2>4, <2>6, NothingHanded
    <2>8. Position(s) < Len(Content(s))
      BY <1>2, UnreadIsThere
    <2> QED
      BY <1>2, <2>1, <2>2, <2>4, <2>5, <2>7, <2>8
  <1>3. CASE Unread(s) = 0
    <2>1. Refill(s, o) = Underflow(s, o)
      BY <1>3 DEF Refill
    <2>2. Filled(s, Underflow(s, o))
      BY <1>3, UnderflowFills
    <2>3. /\ Hands(s, Underflow(s, o), <<>>) /\ Position(Underflow(s, o)) = Position(s) + 0
          /\ Content(Underflow(s, o)) = Content(s)
      BY <2>2, FilledHands
    <2> QED
      BY <1>1, <2>1, <2>2, <2>3 DEF Filled
  <1> QED
    BY <1>1, <1>2, <1>3

LEMMA BumpCharReads ==
    ASSUME NEW s, Good(s), InPlace(s), CanRead(s), NEW o, o.fault = "none", o.wrote \in Nat
    PROVE  \E w : ReadsUpTo(s, BumpChar(s, o), 1, w)
  <1> DEFINE t == Refill(s, o)
             u == Take(t, 1)
             x == Part(t.get.chars, t.get.idx + 1, t.get.idx + 1)
  <1>1. /\ Hands(s, t, <<>>) /\ Position(t) = Position(s) /\ Content(t) = Content(s)
        /\ t.ok <=> Position(s) < Len(Content(s))
        /\ t.ok <=> Unread(t) > 0
    BY RefillGets
  <1>2. BumpChar(s, o) = IF t.ok THEN u ELSE t
    BY DEF BumpChar
  <1> HIDE DEF t
  <1>3. Good(t) /\ InPlace(t) /\ Unread(t) \in Nat
    BY <1>1, GetTypes DEF Hands
  <1>4. CASE t.ok
    <2>1. 1 \in Nat /\ 1 <= Unread(t)
      BY <1>1, <1>3, <1>4
    <2>2. /\ x \in Seq(Chars) /\ Len(x) = 1 /\ u.got = Join(t.got, x)
          /\ Gets(t, u, x) /\ Good(u) /\ InPlace(u) /\ u.ok
      BY <1>3, <2>1, TakeGets
    <2> HIDE DEF u, x
    <2>3. Hands(t, u, x)
      BY <2>2 DEF Hands
    <2>4. Hands(s, u, x)
      BY <1>1, <2>3, HandsAfter
    <2>5. ReadsUpTo(s, u, 1, x)
      BY <2>2, <2>4 DEF ReadsUpTo
    <2> QED
      BY <1>2, <1>4, <2>5
  <1>5. CASE ~t.ok
    <2>1. Len(<<>>) = 0
      OBVIOUS
    <2>2. Position(t) >= Len(Content(s))
      <3>1. Position(s) \in Nat /\ Content(s) \in Seq(Chars)
        BY PositionType, ContentType
      <3>2. Len(Content(s)) \in Nat
        BY <3>1, SeqLength
      <3> QED
        BY <1>1, <1>5, <3>1, <3>2
    <2>3. ReadsUpTo(s, t, 1, <<>>)
      BY <1>1, <1>5, <2>1, <2>2 DEF ReadsUpTo
    <2> QED
      BY <1>2, <1>5, <2>3
  <1> QED
    BY <1>4, <1>5

\* What looking at the next character does.
PeeksAt(s, t) ==
    /\ Gets(s, t, <<>>) /\ Good(t) /\ InPlace(t)
    /\ t.ok <=> Position(s) < Len(Content(s))
    /\ t.ok => t.got = <<See(s, Position(s))>>
    /\ ~t.ok => t.got = s.got

LEMMA PeekCharPeeks ==
    ASSUME NEW s, Good(s), InPlace(s), CanRead(s), NEW o, o.fault = "none", o.wrote \in Nat
    PROVE  PeeksAt(s, PeekChar(s, o))
  <1> DEFINE t == Refill(s, o)
             c == t.get.chars[t.get.idx + 1]
             p == [t EXCEPT !.got = <<c>>]
             u == Take(t, 1)
             x == Part(t.get.chars, t.get.idx + 1, t.get.idx + 1)
  <1>1. /\ Hands(s, t, <<>>) /\ Position(t) = Position(s) /\ Content(t) = Content(s)
        /\ t.ok <=> Position(s) < Len(Content(s))
        /\ t.ok <=> Unread(t) > 0
    BY RefillGets
  <1>2. PeekChar(s, o) = IF t.ok THEN p ELSE t
    BY DEF PeekChar
  <1> HIDE DEF t
  <1>3. Good(t) /\ InPlace(t) /\ Unread(t) \in Nat /\ t.got = s.got /\ Gets(s, t, <<>>)
    <2>1. s.got \in Seq(Chars) /\ <<>> \in Seq(Chars)
      BY GotType
    <2>2. t.got = s.got
      BY <1>1, <2>1, JoinIs DEF Hands
    <2> QED
      BY <1>1, <2>2, GetTypes DEF Hands
  <1>4. CASE t.ok
    <2>1. 1 \in Nat /\ 1 <= Unread(t)
      BY <1>1, <1>3, <1>4
    <2>2. /\ x \in Seq(Chars) /\ Len(x) = 1 /\ u.got = Join(t.got, x)
          /\ Gets(t, u, x) /\ Good(u) /\ InPlace(u)
      BY <1>3, <2>1, TakeGets
    <2>3. x[1] = c
      <3>1. /\ t.get.chars \in Seq(Chars) /\ t.get.idx \in Nat
            /\ t.get.idx + Unread(t) = Len(t.get.chars)
        BY <1>3, GetTypes
      <3> QED
        BY <1>3, <2>1, <3>1 DEF Part
    <2> HIDE DEF u, x
    <2>4. Hands(t, u, x)
      BY <2>2 DEF Hands
    <2>5. Gets(s, u, x)
      BY <1>1, <2>4, HandsAfter DEF Hands
    <2>6. x[1] = See(s, Position(s) + 1 - 1)
      BY <2>2, <2>5 DEF Gets
    <2>7. c = See(s, Position(s))
      <3>1. Position(s) + 1 - 1 = Position(s)
        BY PositionType
      <3> QED
        BY <2>3, <2>6, <3>1
    <2>8. /\ p.got = <<c>> /\ p.get = t.get /\ p.put = t.put /\ p.file = t.file
          /\ p.ok = t.ok /\ SameUse(t, p)
      BY <1>3 DEF Good, FileBufs, SameUse
    <2>9. Good(p)
      BY <1>2, <1>4, PeekCharGood
    <2> HIDE DEF p
    <2>10. Unread(p) = Unread(t) /\ InPlace(p)
      BY <1>3, <2>8, SameInPlace DEF Unread
    <2>11. Content(p) = Content(t) /\ Position(p) = Position(t) /\ PutBack(p) = PutBack(t)
      BY <2>8, <2>10, SameView, SamePutBack
    <2>12. Gets(t, p, <<>>)
      BY <1>3, <2>8, <2>11, GetsNothing
    <2>13. Gets(s, p, <<>>)
      <3>1. <<>> \in Seq(Chars)
        OBVIOUS
      <3> QED
        BY <1>3, <2>12, <3>1, GetsFirst
    <2>14. PeeksAt(s, p)
      BY <1>1, <1>4, <2>7, <2>8, <2>9, <2>10, <2>13 DEF PeeksAt
    <2> QED
      BY <1>2, <1>4, <2>14
  <1>5. CASE ~t.ok
    <2>1. PeeksAt(s, t)
      BY <1>1, <1>3, <1>5 DEF PeeksAt
    <2> QED
      BY <1>2, <1>5, <2>1
  <1> QED
    BY <1>4, <1>5

LEMMA GetSmallReads ==
    ASSUME NEW s, Good(s), InPlace(s), CanRead(s), s.got = <<>>,
           NEW n \in Nat, n <= ReadSize(s), NEW o, o.fault = "none", o.wrote \in Nat
    PROVE  \E w : ReadsUpTo(s, GetSmall(s, n, o), n, w)
  <1> DEFINE t == TakeUpTo(s, n)
             u == Underflow(t, o)
             v == TakeUpTo(u, n - Len(t.got))
             z == Underflow(v, o)
  <1>1. GetSmall(s, n, o) = IF Len(t.got) = n THEN t ELSE IF ~u.ok THEN u
                            ELSE IF Len(v.got) = n THEN v ELSE z
    BY DEF GetSmall
  <1>2. PICK w1 : /\ Hands(s, t, w1) /\ Len(w1) = Least(n, Unread(s))
                  /\ t.ok /\ SameShell(s, t) /\ Unread(t) = Unread(s) - Len(w1)
    BY TakeUpToHands
  <1> HIDE DEF t
  <1>3. t.got = w1 /\ w1 \in Seq(Chars) /\ Good(t) /\ InPlace(t) /\ CanRead(t)
        /\ ReadSize(t) = ReadSize(s)
    <2>1. w1 \in Seq(Chars) /\ <<>> \in Seq(Chars) /\ t.got = Join(<<>>, w1) /\ Good(t) /\ InPlace(t)
      BY <1>2 DEF Hands
    <2>2. t.got = w1
      BY <2>1, JoinIs
    <2> QED
      BY <1>2, <2>1, <2>2 DEF SameShell, CanRead, ReadSize
  <1>4. Len(w1) \in Nat /\ Len(w1) <= n /\ Unread(s) \in Nat
    <2>1. Unread(s) \in Nat /\ Len(w1) \in Nat
      BY <1>3, GetTypes, SeqLength
    <2> QED
      BY <1>2, <2>1 DEF Least
  <1>5. CASE Len(w1) = n
    <2>1. ReadsUpTo(s, t, n, w1)
      BY <1>2, <1>4, <1>5 DEF ReadsUpTo
    <2> QED
      BY <1>1, <1>3, <1>5, <2>1
  <1>6. CASE Len(w1) # n
    <2>1. Unread(t) = 0
      BY <1>2, <1>4, <1>6 DEF Least
    <2>2. Filled(t, u)
      BY <1>3, <2>1, UnderflowFills
    <2> HIDE DEF u
    <2>3. /\ Hands(t, u, <<>>) /\ Position(u) = Position(t) + 0 /\ Content(u) = Content(t)
          /\ SameUse(t, u)
      BY <1>3, <2>2, FilledHands
    <2>4. Hands(s, u, w1)
      BY <1>2, <2>3, HandsBefore
    <2>5. /\ Good(u) /\ InPlace(u) /\ u.got = w1 /\ CanRead(u) /\ Position(t) \in Nat
          /\ Content(t) = Content(s) /\ Position(u) = Position(t)
      <3>1. Position(t) \in Nat
        BY <1>3, PositionType
      <3>2. Content(t) = Content(s)
        BY <1>2 DEF Hands, Gets
      <3> QED
        BY <1>3, <2>2, <2>3, <3>1, <3>2 DEF Filled, SameUse, CanRead
    <2>6. Len(Content(s)) \in Nat
      <3>1. Content(s) \in Seq(Chars)
        BY ContentType
      <3> QED
        BY <3>1, SeqLength
    <2>7. CASE ~u.ok
      <3>1. Position(u) >= Len(Content(s))
        BY <2>2, <2>5, <2>6, <2>7 DEF Filled
      <3>2. ReadsUpTo(s, u, n, w1)
        BY <1>4, <1>6, <2>4, <2>7, <3>1 DEF ReadsUpTo
      <3> QED
        BY <1>1, <1>3, <1>6, <2>7, <3>2
    <2>8. CASE u.ok
      <3>1. n - Len(t.got) \in Nat
        BY <1>3, <1>4
      <3>2. PICK w2 : /\ Hands(u, v, w2) /\ Len(w2) = Least(n - Len(t.got), Unread(u))
                      /\ v.ok /\ SameShell(u, v) /\ Unread(v) = Unread(u) - Len(w2)
        BY <2>5, <3>1, TakeUpToHands
      <3> HIDE DEF v
      <3> DEFINE w == Join(w1, w2)
      <3>3. Hands(s, v, w) /\ Len(w) = Len(w1) + Len(w2)
        BY <2>4, <3>2, HandsChain
      <3>4. v.got = w /\ Good(v) /\ InPlace(v) /\ CanRead(v) /\ w2 \in Seq(Chars)
        <4>1. v.got = w /\ Good(v) /\ InPlace(v) /\ w2 \in Seq(Chars)
          BY <2>5, <3>2 DEF Hands
        <4> QED
          BY <2>5, <3>2, <4>1 DEF SameShell, CanRead
      <3>5. Len(w2) \in Nat /\ Unread(u) \in Nat /\ Len(w2) <= n - Len(w1) /\ Len(w2) <= Unread(u)
            /\ (Len(w2) < n - Len(w1) => Len(w2) = Unread(u))
        <4>1. Len(w2) \in Nat /\ Unread(u) \in Nat
          BY <2>5, <3>4, GetTypes, SeqLength
        <4> QED
          BY <1>3, <1>4, <3>1, <3>2, <4>1 DEF Least
      <3> HIDE DEF w
      <3>6. Len(w) <= n
        BY <1>4, <3>3, <3>5
      <3>7. CASE Len(w) = n
        <4>1. ReadsUpTo(s, v, n, w)
          BY <3>2, <3>3, <3>6, <3>7 DEF ReadsUpTo
        <4> QED
          BY <1>1, <1>3, <1>6, <2>8, <3>4, <3>7, <4>1
      <3>8. CASE Len(w) # n
        <4>1. Len(w2) = Unread(u) /\ Unread(v) = 0
          BY <1>4, <3>2, <3>3, <3>5, <3>8
        <4>2. Unread(u) < ReadSize(t)
          <5>1. ReadSize(s) \in Nat
            BY DEF ReadSize, Good, FileBufs
          <5> QED
            BY <1>3, <1>4, <3>3, <3>5, <3>8, <4>1, <5>1
        <4>3. Position(u) + Unread(u) >= Len(Content(u))
          BY <2>2, <4>2 DEF Filled
        <4>4. Filled(v, z)
          BY <3>4, <4>1, UnderflowFills
        <4> HIDE DEF z
        <4>5. Position(v) = Position(u) + Len(w2) /\ Content(v) = Content(u) /\ Position(v) \in Nat
          <5>1. Position(v) \in Nat
            BY <3>4, PositionType
          <5> QED
            BY <3>2, <5>1 DEF Hands, Gets
        <4>6. Position(v) >= Len(Content(s))
          BY <2>3, <2>5, <4>1, <4>3, <4>5
        <4>7. ~z.ok
          BY <2>3, <2>5, <2>6, <4>4, <4>5, <4>6 DEF Filled
        <4>8. Hands(v, z, <<>>) /\ Position(z) = Position(v) + 0
          BY <3>4, <4>4, FilledHands
        <4>9. Hands(s, z, w)
          BY <3>3, <4>8, HandsBefore
        <4>10. Position(z) >= Len(Content(s))
          BY <4>5, <4>6, <4>8
        <4>11. ReadsUpTo(s, z, n, w)
          BY <3>6, <3>8, <4>7, <4>9, <4>10 DEF ReadsUpTo
        <4> QED
          BY <1>1, <1>3, <1>6, <2>8, <3>4, <3>8, <4>11
      <3> QED
        BY <3>7, <3>8
    <2> QED
      BY <2>7, <2>8
  <1> QED
    BY <1>5, <1>6

LEMMA ReadThroughReads ==
    ASSUME NEW s, Good(s), InPlace(s), ~HasPut(s), Unread(s) = 0, NEW n \in Nat \ {0}
    PROVE  \E w : ReadsUpTo(s, ReadThrough(s, n), n, w)
  <1> DEFINE t == ReadThrough(s, n)
             w == BytesRead(s.file, n)
             d == s.file.data
             p == s.file.pos
  <1>1. /\ t.put = s.put /\ SameShell(s, t) /\ t.file = FRead(s.file, n)
        /\ (t.ok <=> Len(w) = n) /\ t.got = Join(s.got, w)
        /\ t.get.at = s.get.at /\ t.get.chars = s.get.chars /\ t.get.mod = s.get.mod
        /\ HasGet(s) /\ w # <<>> => t.get.stale
        /\ ~HasGet(s) \/ w = <<>> => t.get.stale = s.get.stale
        /\ t.get.idx = s.get.idx
    BY ReadThroughIs
  <1>2. Good(t) /\ Mirrors(t)
    BY ReadThroughGood, ReadThroughMirrors DEF InPlace
  <1>3. s.file \in CFiles /\ p \in Nat /\ d \in Seq(Chars)
    BY GoodFields, GetTypes
  <1>4. /\ w \in Seq(Chars)
        /\ Len(w) = IF p + n <= Len(d) THEN n ELSE IF p < Len(d) THEN Len(d) - p ELSE 0
        /\ \A i \in 1..Len(w) : w[i] = d[p + i]
    BY <1>3, BytesReadIs
  <1>5. FRead(s.file, n).data = d /\ FRead(s.file, n).pos = p + Len(w)
    BY <1>3, FReadIs
  <1> HIDE DEF t, w
  <1>6. t.file.data = d /\ t.file.pos = p + Len(w)
    BY <1>1, <1>5
  <1>7. Unread(t) = 0 /\ InPlace(t) /\ SameUse(s, t)
    <2>1. Unread(t) = 0
      BY <1>1 DEF Unread
    <2> QED
      BY <1>1, <1>2, <2>1 DEF InPlace, SameShell, SameUse
  <1>8. Pending(s) = 0 /\ Pending(t) = 0 /\ Content(t) = d /\ Content(s) = d
    <2>1. Pending(s) = 0
      BY NoGetIsEmpty
    <2>2. Pending(t) = 0
      BY <1>1, <2>1 DEF Pending
    <2> QED
      BY <1>2, <1>6, <2>1, <2>2, ContentType
  <1>9. Position(s) = p /\ Position(t) = p + Len(w) /\ Len(w) \in Nat /\ Len(d) \in Nat
    <2>1. Len(w) \in Nat /\ Len(d) \in Nat
      BY <1>3, <1>4
    <2> QED
      BY <1>3, <1>6, <1>7, <1>8, <2>1 DEF Position
  <1>10. w # <<>> <=> Len(w) > 0
    BY <1>4
  <1>11. \/ PutBack(t) = PutBack(s)
         \/ PutBack(t) = NoPutBack /\ \A q \in DOMAIN PutBack(s) : q < Position(t)
    <2>1. CASE w = <<>>
      <3>1. t.file.pos = s.file.pos /\ t.get.stale = s.get.stale
        BY <1>1, <1>3, <1>6, <1>9, <1>10, <2>1 DEF p
      <3>2. t.get.chars = s.get.chars /\ t.get.mod = s.get.mod
        BY <1>1
      <3> QED
        BY <3>1, <3>2, SamePutBack
    <2>2. CASE w # <<>>
      <3>1. PutBack(t) = NoPutBack
        <4>1. CASE HasGet(s)
          <5>1. t.get.stale
            BY <1>1, <2>2, <4>1
          <5> QED
            BY <5>1 DEF PutBack, NoPutBack
        <4>2. CASE ~HasGet(s)
          <5>1. s.get = NoGet
            BY <4>2, NoGetIsEmpty
          <5>2. s.get.mod = {} /\ s.get.stale = FALSE
            BY <5>1 DEF NoGet
          <5>3. t.get.mod = {} /\ t.get.stale = FALSE
            BY <1>1, <4>2, <5>2
          <5> QED
            BY <5>3 DEF PutBack, NoPutBack
        <4> QED
          BY <4>1, <4>2
      <3>2. ASSUME NEW q \in DOMAIN PutBack(s) PROVE q < Position(t)
        <4>1. q < p
          BY PutBackBefore DEF p
        <4>2. q \in Int
          BY PutBackIs
        <4> QED
          BY <1>3, <1>9, <4>1, <4>2
      <3> QED
        BY <3>1, <3>2
    <2> QED
      BY <2>1, <2>2
  <1>12. ASSUME NEW i \in 1..Len(w) PROVE w[i] = See(s, Position(s) + i - 1)
    <2>1. i \in Int /\ i >= 1
      BY <1>9
    <2>2. p + i - 1 \notin DOMAIN PutBack(s)
      <3>1. SUFFICES ASSUME p + i - 1 \in DOMAIN PutBack(s) PROVE FALSE
        OBVIOUS
      <3>2. p + i - 1 < p
        BY <3>1, PutBackBefore DEF p
      <3> QED
        BY <1>3, <2>1, <3>2
    <2>3. (p + i - 1) + 1 = p + i
      BY <1>3, <2>1
    <2>4. See(s, p + i - 1) = d[p + i]
      BY <1>8, <2>2, <2>3 DEF See
    <2> QED
      BY <1>4, <1>9, <2>4
  <1>13. w # <<>> => Position(t) <= Len(Content(s))
    BY <1>3, <1>4, <1>8, <1>9, <1>10
  <1>14. Gets(s, t, w)
    BY <1>7, <1>8, <1>9, <1>11, <1>12, <1>13 DEF Gets
  <1>15. Hands(s, t, w)
    BY <1>1, <1>2, <1>4, <1>7, <1>14 DEF Hands
  <1>16. Len(w) <= n /\ (Len(w) # n => p + Len(w) >= Len(d))
    BY <1>3, <1>4, <1>9
  <1>17. ReadsUpTo(s, t, n, w)
    BY <1>1, <1>8, <1>9, <1>15, <1>16 DEF ReadsUpTo
  <1> QED
    BY <1>17 DEF t

LEMMA GetDirectReads ==
    ASSUME NEW s, Good(s), InPlace(s), CanRead(s), s.got = <<>>,
           NEW n \in Nat, NEW o, o.fault = "none", o.wrote \in Nat
    PROVE  \E w : ReadsUpTo(s, GetDirect(s, n, o), n, w)
  <1> DEFINE t == StopWriting(s, o)
             u == TakeUpTo(t, n)
             v == [u EXCEPT !.ok = t.ok]
             z == ReadThrough(u, n - Len(u.got))
  <1>1. /\ Gets(s, t, <<>>) /\ t.ok /\ Good(t) /\ InPlace(t) /\ t.get = s.get
        /\ ~HasPut(t) /\ SameShell(s, t) /\ t.got = s.got
    BY StopWritingGets
  <1>2. GetDirect(s, n, o) = IF Len(u.got) = n THEN v ELSE z
    BY <1>1 DEF GetDirect
  <1>3. Hands(s, t, <<>>)
    BY <1>1, NothingHanded
  <1> HIDE DEF t
  <1>4. PICK w : /\ Hands(t, u, w) /\ Len(w) = Least(n, Unread(t))
                 /\ u.ok /\ SameShell(t, u) /\ Unread(u) = Unread(t) - Len(w)
    BY <1>1, TakeUpToHands
  <1>5. u.put = t.put
    BY <1>1, TakeUpToGood
  <1> HIDE DEF u
  <1>6. Hands(s, u, w)
    BY <1>3, <1>4, HandsAfter
  <1>7. u.got = w /\ w \in Seq(Chars) /\ Good(u) /\ InPlace(u) /\ ~HasPut(u)
    <2>1. w \in Seq(Chars) /\ <<>> \in Seq(Chars) /\ u.got = Join(<<>>, w) /\ Good(u) /\ InPlace(u)
      BY <1>6 DEF Hands
    <2>2. u.got = w
      BY <2>1, JoinIs
    <2> QED
      BY <1>1, <1>5, <2>1, <2>2 DEF HasPut
  <1>8. Len(w) \in Nat /\ Len(w) <= n /\ Unread(t) \in Nat
    <2>1. Unread(t) \in Nat /\ Len(w) \in Nat
      BY <1>1, <1>7, GetTypes, SeqLength
    <2> QED
      BY <1>4, <2>1 DEF Least
  <1>9. CASE Len(w) = n
    <2>1. v = u
      <3>1. u.ok = t.ok
        BY <1>1, <1>4, <1>7 DEF Good, FileBufs
      <3> QED
        BY <1>7, <3>1 DEF Good, FileBufs
    <2>2. ReadsUpTo(s, u, n, w)
      BY <1>4, <1>6, <1>8, <1>9 DEF ReadsUpTo
    <2> QED
      BY <1>2, <1>7, <1>9, <2>1, <2>2
  <1>10. CASE Len(w) # n
    <2> DEFINE k == n - Len(w)
    <2>1. Unread(u) = 0 /\ k \in Nat \ {0}
      BY <1>4, <1>8, <1>10 DEF Least
    <2>2. z = ReadThrough(u, k)
      BY <1>7
    <2> HIDE DEF z, k
    <2>3. PICK x : ReadsUpTo(u, ReadThrough(u, k), k, x)
      BY <1>7, <2>1, ReadThroughReads
    <2>4. Hands(u, z, x) /\ Len(x) <= k /\ (z.ok <=> Len(x) = k)
          /\ (~z.ok => Position(z) >= Len(Content(u)))
      BY <2>2, <2>3 DEF ReadsUpTo
    <2>5. Hands(s, z, Join(w, x)) /\ Len(Join(w, x)) = Len(w) + Len(x)
      BY <1>6, <2>4, HandsChain
    <2>6. Len(x) \in Nat
      BY <2>4, SeqLength DEF Hands
    <2>7. Content(u) = Content(s)
      BY <1>6 DEF Hands, Gets
    <2>8. Len(Join(w, x)) <= n /\ (Len(Join(w, x)) = n <=> Len(x) = k)
      BY <1>8, <2>4, <2>5, <2>6 DEF k
    <2>9. ReadsUpTo(s, z, n, Join(w, x))
      BY <2>4, <2>5, <2>7, <2>8 DEF ReadsUpTo
    <2> QED
      BY <1>2, <1>7, <1>10, <2>9
  <1> QED
    BY <1>9, <1>10

LEMMA XsgetnReads ==
    ASSUME NEW s, Good(s), InPlace(s), CanRead(s), s.got = <<>>,
           NEW n \in Nat, NEW o, o.fault = "none", o.wrote \in Nat
    PROVE  \E w : ReadsUpTo(s, Xsgetn(s, n, o), n, w)
  <1>1. Xsgetn(s, n, o) = IF n <= ReadSize(s) THEN GetSmall(s, n, o) ELSE GetDirect(s, n, o)
    BY DEF Xsgetn, ReadSize
  <1> QED
    BY <1>1, GetSmallReads, GetDirectReads

\* Reading where the file is not open for it: refused, and nothing the caller notices.
LEMMA NoReadingGets ==
    ASSUME NEW s, Good(s), InPlace(s), ~CanRead(s), s.got = <<>>, NEW o
    PROVE  /\ PeekChar(s, o) = Result(s, FALSE)
           /\ BumpChar(s, o) = Result(s, FALSE)
           /\ \A n \in Nat \ {0} : Xsgetn(s, n, o) = Result(s, FALSE)
           /\ Xsgetn(s, 0, o) = Result(s, TRUE)
  <1> DEFINE r == Result(s, FALSE)
  <1>1. ~r.ok
    BY ResultIs
  <1>2. Underflow(s, o) = r
    BY DEF Underflow
  <1>3. s.get = NoGet /\ Unread(s) = 0
    BY NoGetIsEmpty
  <1>4. Refill(s, o) = r
    BY <1>2, <1>3 DEF Refill
  <1>5. PeekChar(s, o) = r /\ BumpChar(s, o) = r
    BY <1>1, <1>4 DEF PeekChar, BumpChar
  <1>6. ASSUME NEW n \in Nat
        PROVE  TakeUpTo(s, n) = Result(s, TRUE) /\ Len(TakeUpTo(s, n).got) = 0
    <2>1. Least(n, Unread(s)) = 0
      BY <1>3 DEF Least
    <2>2. SubSeq(s.get.chars, s.get.idx + 1, s.get.idx + 0) = <<>>
      BY <1>3 DEF NoGet
    <2>3. Take(s, 0) = Result(s, TRUE)
      <3>1. s.got \o <<>> = s.got /\ s.get.idx + 0 = s.get.idx
        BY <1>3 DEF NoGet
      <3> QED
        BY <2>2, <3>1 DEF Take, Result, Good, FileBufs, GetAreas
    <2>4. Result(s, TRUE).got = <<>>
      BY ResultIs
    <2>5. TakeUpTo(s, n) = Take(s, 0)
      BY <2>1 DEF TakeUpTo
    <2> DEFINE q == Result(s, TRUE)
    <2>6. TakeUpTo(s, n) = q /\ q.got = <<>>
      BY <2>3, <2>4, <2>5
    <2> HIDE DEF q
    <2>7. Len(TakeUpTo(s, n).got) = 0
      BY <2>6
    <2> QED
      BY <2>6, <2>7 DEF q
  <1>7. ASSUME NEW n \in Nat \ {0} PROVE Xsgetn(s, n, o) = r
    <2>1. GetDirect(s, n, o) = r
      BY DEF GetDirect
    <2>2. GetSmall(s, n, o) = r
      <3> DEFINE t == TakeUpTo(s, n)
      <3>1. t = Result(s, TRUE) /\ Len(t.got) # n
        BY <1>6
      <3>2. Underflow(t, o) = Result(s, FALSE)
        <4>1. t.mode = s.mode
          BY <3>1, ResultIs DEF SameShell
        <4>2. Result(t, FALSE) = Result(s, FALSE)
          BY <3>1 DEF Result
        <4> QED
          BY <4>1, <4>2 DEF Underflow, CanRead
      <3> HIDE DEF t
      <3> QED
        BY <1>1, <3>1, <3>2 DEF GetSmall, t
    <2> QED
      BY <2>1, <2>2 DEF Xsgetn
  <1>8. Xsgetn(s, 0, o) = Result(s, TRUE)
    <2>1. 0 <= (IF s.unbuffered THEN 1 ELSE s.size) /\ 0 \in Nat
      BY DEF Good, FileBufs
    <2>2. GetSmall(s, 0, o) = TakeUpTo(s, 0)
      BY <1>6, <2>1 DEF GetSmall
    <2> QED
      BY <1>6, <2>1, <2>2 DEF Xsgetn
  <1> QED
    BY <1>5, <1>7, <1>8

\* What was put back, with x at p.
PutBackAlso(s, p, x) ==
    [q \in DOMAIN PutBack(s) \cup {p} |-> IF q = p THEN x ELSE PutBack(s)[q]]

\* Between s and t the caller has stepped back over a character, which is x from now on.
Ungets(s, t, x) ==
    /\ SameUse(s, t) /\ Content(t) = Content(s)
    /\ Position(s) > 0 /\ Position(t) = Position(s) - 1
    /\ t.ok /\ t.got = <<x>>
    /\ x = See(s, Position(s) - 1) => PutBack(t) = PutBack(s)
    /\ x # See(s, Position(s) - 1) => PutBack(t) = PutBackAlso(s, Position(s) - 1, x)

LEMMA PbackFailUngets ==
    ASSUME NEW s, Good(s), InPlace(s), ~s.get.stale, s.get.idx # 0, NEW c \in OneChar
    PROVE  /\ CanRead(s) /\ s.isOpen
           /\ \E x \in Chars : /\ Ungets(s, PbackFail(s, c), x)
                               /\ c = <<>> => x = See(s, Position(s) - 1)
  <1> DEFINE t == PbackFail(s, c)
             i == s.get.idx
             a == s.get.chars
             p == GetBase(s) + i - 1
  <1>1. /\ t.put = s.put /\ SameShell(s, t) /\ t.file = s.file /\ t.ok
        /\ t.get.at = s.get.at /\ t.get.stale = s.get.stale /\ t.get.idx = i - 1
        /\ PutsBackSame(s, c) => /\ t.got = <<a[i]>> /\ t.get.chars = a
                                 /\ t.get.mod = s.get.mod
        /\ ~PutsBackSame(s, c) => /\ t.got = c /\ t.get.mod = s.get.mod \cup {i}
                                  /\ t.get.chars = [a EXCEPT ![i] = c[1]]
    BY PbackFailIs
  <1>2. Good(t)
    BY PbackFailGood
  <1> HIDE DEF t
  <1>3. /\ a \in Seq(Chars) /\ i \in Nat /\ GetBase(s) \in Int /\ Unread(s) \in Nat
        /\ i + Unread(s) = Len(a) /\ s.file.pos \in Nat /\ GetBase(s) = s.file.pos - Len(a)
        /\ Len(a) \in Nat /\ DOMAIN a = 1..Len(a)
    BY GetTypes DEF GetBase
  <1>4. HasGet(s) /\ CanRead(s) /\ s.isOpen
    BY NoGetIsEmpty DEF NoGet
  <1> HIDE DEF a, i
  <1>5. i \in 1..Len(a)
    BY <1>3 DEF i
  <1>6. /\ See(s, p) = a[i] /\ GetBase(s) >= 0 /\ s.file.pos <= Len(s.file.data)
        /\ Pending(s) = 0 /\ Content(s) = s.file.data
    BY <1>5, SeeIs DEF a
  <1>7. Position(s) = s.file.pos - Unread(s) /\ Position(s) - 1 = p /\ Position(s) > 0
    <2>1. Position(s) = s.file.pos - Unread(s)
      BY <1>6 DEF Position
    <2> QED
      BY SMTT(30), <1>3, <1>5, <1>6, <2>1
  <1>8. Len(t.get.chars) = Len(a) /\ Unread(t) = Unread(s) + 1
    <2>1. t.get.chars = a \/ \E x : t.get.chars = [a EXCEPT ![i] = x]
      BY <1>1
    <2>2. \A x : Len([a EXCEPT ![i] = x]) = Len(a)
      BY <1>3
    <2>3. Len(t.get.chars) = Len(a)
      BY <2>1, <2>2
    <2>4. Unread(t) = Len(t.get.chars) - t.get.idx
      BY DEF Unread
    <2>5. t.get.idx = i - 1
      BY <1>1
    <2> QED
      BY <1>3, <2>3, <2>4, <2>5
  <1>9. SameUse(s, t) /\ Pending(t) = 0 /\ Content(t) = Content(s) /\ Position(t) = Position(s) - 1
    <2>1. SameUse(s, t) /\ t.put.chars = s.put.chars /\ Pending(t) = 0
      BY <1>1, <1>6 DEF SameShell, SameUse, Pending
    <2>2. Content(t) = Content(s)
      BY <1>1, <2>1, SameView
    <2>3. Position(t) = s.file.pos - Unread(t)
      BY <1>1, <2>1 DEF Position
    <2> QED
      BY <1>3, <1>7, <1>8, <2>1, <2>2, <2>3
  <1>10. CASE PutsBackSame(s, c)
    <2>1. t.got = <<a[i]>> /\ PutBack(t) = PutBack(s)
      BY <1>1, <1>10, SamePutBack DEF a
    <2>2. a[i] \in Chars
      BY <1>3, <1>5
    <2>3. Ungets(s, t, a[i])
      BY <1>1, <1>6, <1>7, <1>9, <2>1 DEF Ungets
    <2> QED
      BY <1>4, <1>6, <1>7, <2>2, <2>3 DEF t
  <1>11. CASE ~PutsBackSame(s, c)
    <2>1. c \in Seq(Chars) /\ Len(c) = 1 /\ c # <<>>
      <3>1. c \in Seq(Chars) /\ Len(c) <= 1
        BY DEF OneChar
      <3>2. c # <<>>
        BY <1>11 DEF PutsBackSame
      <3>3. Len(c) \in Nat /\ Len(c) > 0
        BY <3>1, <3>2, SeqLength
      <3>4. Len(c) = 1
        <4>1. \A n \in Nat : n > 0 /\ n <= 1 => n = 1
          OBVIOUS
        <4> QED
          BY <3>1, <3>3, <4>1, Zenon
      <3> QED
        BY <3>1, <3>2, <3>4, Zenon
    <2> DEFINE x == c[1]
    <2>2. x \in Chars /\ c = <<x>> /\ x # a[i]
      BY <1>11, <2>1 DEF PutsBackSame, a, i
    <2> HIDE DEF x
    <2>3. t.got = <<x>> /\ t.get.mod = s.get.mod \cup {i} /\ t.get.chars = [a EXCEPT ![i] = x]
      BY <1>1, <1>11, <2>2 DEF x
    <2>4. ~t.get.stale /\ GetBase(t) = GetBase(s)
      BY <1>1, <1>8 DEF GetBase, a
    <2>5. s.get.mod \subseteq DOMAIN a
      BY DEF InPlace, Mirrors, a
    <2>6. /\ DOMAIN PutBack(s) = {GetBase(s) + j - 1 : j \in s.get.mod}
          /\ \A j \in s.get.mod : PutBack(s)[GetBase(s) + j - 1] = a[j]
      BY PutBackIs DEF a
    <2>7. /\ DOMAIN PutBack(t) = {GetBase(t) + j - 1 : j \in t.get.mod}
          /\ \A j \in t.get.mod : PutBack(t)[GetBase(t) + j - 1] = t.get.chars[j]
      BY <1>2, <2>4, PutBackIs
    <2> DEFINE D == DOMAIN PutBack(s) \cup {p}
    <2>8. DOMAIN PutBack(t) = D
      <3>1. DOMAIN PutBack(t) = {GetBase(s) + j - 1 : j \in s.get.mod \cup {i}}
        BY <2>3, <2>4, <2>7
      <3>2. {GetBase(s) + j - 1 : j \in s.get.mod \cup {i}}
            = {GetBase(s) + j - 1 : j \in s.get.mod} \cup {GetBase(s) + i - 1}
        OBVIOUS
      <3> QED
        BY <2>6, <3>1, <3>2
    <2>9. ASSUME NEW q \in D PROVE PutBack(t)[q] = IF q = p THEN x ELSE PutBack(s)[q]
      <3>1. PICK j \in s.get.mod \cup {i} : q = GetBase(s) + j - 1
        BY <2>6
      <3>2. j \in 1..Len(a)
        BY <1>3, <1>5, <2>5, <3>1
      <3>3. PutBack(t)[q] = t.get.chars[j]
        BY <2>3, <2>4, <2>7, <3>1
      <3>4. CASE j = i
        <4>1. t.get.chars[j] = x
          BY <1>3, <1>5, <2>3, <3>4
        <4> QED
          BY <3>1, <3>3, <3>4, <4>1
      <3>5. CASE j # i
        <4>1. q # p
          <5>1. GetBase(s) \in Int /\ i \in Int /\ j \in Int
            BY <1>3, <3>2
          <5>2. \A g, m, n \in Int : m # n => g + m - 1 # g + n - 1
            OBVIOUS
          <5> QED
            BY <3>1, <3>5, <5>1, <5>2, Zenon
        <4>2. t.get.chars[j] = a[j]
          BY <1>3, <1>5, <2>3, <3>2, <3>5
        <4>3. PutBack(s)[q] = a[j]
          BY <2>6, <3>1, <3>5
        <4> QED
          BY <3>3, <4>1, <4>2, <4>3
      <3> QED
        BY <3>4, <3>5
    <2>10. PutBack(t) = [q \in DOMAIN PutBack(t) |-> PutBack(t)[q]]
      BY <2>4 DEF PutBack
    <2>11. PutBack(t) = PutBackAlso(s, p, x)
      <3>1. PutBack(t) = [q \in D |-> IF q = p THEN x ELSE PutBack(s)[q]]
        BY <2>8, <2>9, <2>10
      <3> QED
        BY <3>1 DEF PutBackAlso
    <2>12. Ungets(s, t, x)
      BY <1>1, <1>6, <1>7, <1>9, <2>2, <2>3, <2>11 DEF Ungets
    <2> QED
      BY <1>4, <2>1, <2>2, <2>12 DEF t
  <1> QED
    BY <1>10, <1>11

\* Open: a new use of the file.
Opens(s, t, m) ==
    /\ t.isOpen /\ t.mode = m \ {"ate"} /\ t.ok /\ t.got = s.got /\ Empty(t)
    /\ Content(t) = IF GetMode(m) \in {"w", "w+"} THEN <<>> ELSE Content(s)
    /\ Position(t) = IF "ate" \in m THEN Len(Content(t)) ELSE 0
    /\ PutBack(t) = NoPutBack

LEMMA OpenOpens ==
    ASSUME NEW s, Good(s), ~s.isOpen, NEW m \in SUBSET Flags, GetMode(m) # "none",
           NEW o, o.fault = "none"
    PROVE  Opens(s, Open(s, m, o), m)
  <1> DEFINE t == Open(s, m, o)
             tr == GetMode(m) \in {"w", "w+"}
             f == FOpen(s.file, tr)
  <1>1. t = Opened(s, m, o)
    BY DEF Open
  <1>2. OpenedWell(s, m, "ate" \in m /\ o.fault = "end", Opened(s, m, o))
    BY OpenedIs
  <1>3. Good(t)
    BY OpenGood
  <1> HIDE DEF t
  <1>4. /\ t.get = NoGet /\ t.put = NoPut /\ t.got = s.got
        /\ t.isOpen /\ t.mode = m \ {"ate"} /\ t.ok /\ t.file = OpenedFile(s, m)
    <2>1. ~("ate" \in m /\ o.fault = "end")
      OBVIOUS
    <2> QED
      BY <1>1, <1>2, <2>1 DEF OpenedWell
  <1>5. Empty(t) /\ Unread(t) = 0
    BY <1>4 DEF Empty, Pending, NoPut, Unread, NoGet
  <1>6. Content(t) = t.file.data /\ Position(t) = t.file.pos
    BY <1>3, <1>5, EmptyView
  <1>7. PutBack(t) = NoPutBack
    BY <1>4, NoGetPutBack
  <1>8. Content(s) = s.file.data
    <2>1. s.put = NoPut
      BY NoGetIsEmpty
    <2> QED
      BY <2>1 DEF Content, NoPut, Overwrite
  <1>9. s.file \in CFiles
    BY GoodFields
  <1>10. f.pos = 0 /\ f.data = IF tr THEN <<>> ELSE s.file.data
    BY <1>9, FOpenIs
  <1>11. f \in CFiles
    <2>1. tr \in BOOLEAN
      OBVIOUS
    <2> HIDE DEF tr
    <2> QED
      BY <1>9, <2>1, CCallType
  <1> HIDE DEF f, tr
  <1>12. t.file = IF "ate" \in m THEN FSeek(f, Len(f.data), FALSE) ELSE f
    BY <1>4 DEF OpenedFile, f, tr
  <1>13. t.file.data = f.data /\ t.file.pos = IF "ate" \in m THEN Len(f.data) ELSE 0
    <2>1. Len(f.data) >= 0
      BY <1>11 DEF CFiles
    <2>2. FSeek(f, Len(f.data), FALSE).data = f.data /\ FSeek(f, Len(f.data), FALSE).pos = Len(f.data)
      BY <1>11, <2>1, SeekTo
    <2> QED
      BY <1>10, <1>12, <2>2
  <1>14. Content(t) = IF tr THEN <<>> ELSE Content(s)
    BY <1>6, <1>8, <1>10, <1>13
  <1>15. Position(t) = IF "ate" \in m THEN Len(Content(t)) ELSE 0
    BY <1>6, <1>13
  <1> QED
    BY <1>4, <1>5, <1>7, <1>14, <1>15 DEF Opens, t, tr

\* The current call starts from what the caller sees.
LEMMA EntryView ==
    ASSUME Good(fb), InPlace(fb)
    PROVE  /\ Good(Entry) /\ InPlace(Entry) /\ Entry.got = <<>>
           /\ SameUse(fb, Entry) /\ Content(Entry) = Content(fb)
           /\ Position(Entry) = Position(fb) /\ PutBack(Entry) = PutBack(fb)
           /\ Entry.get = fb.get /\ Pending(Entry) = Pending(fb)
  <1>1. Good(Entry) /\ Entry.got = <<>>
    BY EntryGood
  <1>2. Entry.get = fb.get /\ Entry.put = fb.put /\ Entry.file = fb.file /\ SameUse(fb, Entry)
    BY DEF Entry, Good, FileBufs, SameUse
  <1>3. InPlace(Entry)
    BY <1>2, SameInPlace
  <1>4. Unread(Entry) = Unread(fb)
    BY <1>2 DEF Unread
  <1>5. /\ Content(Entry) = Content(fb) /\ Position(Entry) = Position(fb)
        /\ PutBack(Entry) = PutBack(fb) /\ Pending(Entry) = Pending(fb)
    BY <1>2, <1>4, SameView, SamePutBack
  <1> QED
    BY <1>1, <1>2, <1>3, <1>5

LEMMA ViewStep ==
    ASSUME NEW s, fb' = s
    PROVE  /\ Content(fb)' = Content(s) /\ Position(fb)' = Position(s)
           /\ PutBack(fb)' = PutBack(s)
           /\ fb.isOpen' = s.isOpen /\ fb.mode' = s.mode /\ fb.got' = s.got /\ fb.ok' = s.ok
  BY DEF Content, Position, PutBack, Pending, Unread, WritePos, AppendMode

LEMMA ForgetStep ==
    ASSUME NEW s, fb' = s, PutBack(s) = PutBack(fb) \/ PutBack(s) = NoPutBack
    PROVE  Abstract!Forget
  <1>1. PutBack(fb)' = PutBack(s)
    BY ViewStep
  <1>2. PutBack(fb) = [p \in DOMAIN PutBack(fb) |-> PutBack(fb)[p]]
    BY DEF PutBack
  <1>3. NoPutBack = [p \in {} |-> PutBack(fb)[p]]
    BY DEF NoPutBack
  <1>4. \E S \in SUBSET DOMAIN PutBack(fb) : PutBack(fb)' = [p \in S |-> PutBack(fb)[p]]
    BY <1>1, <1>2, <1>3
  <1> QED
    BY <1>4 DEF Abstract!Forget

\* What the abstract file sees at an offset.
LEMMA ViewIsSee ==
    ASSUME Good(fb), InPlace(fb), NEW p
    PROVE  See(Entry, p) = Abstract!View(p)
  BY EntryView DEF See, Abstract!View

\* A call that writes nothing maps to a call that settles, or that is refused.
LEMMA SettleStep ==
    ASSUME Good(fb), InPlace(fb), NEW s, fb' = s, NEW name, call' = name,
           Puts(Entry, s, <<>>), Good(s), s.ok, s.got = <<>>
    PROVE  Abstract!Settle(name)
  <1>1. /\ SameUse(Entry, s) /\ Content(s) = Content(Entry) /\ Position(s) = Position(Entry)
        /\ PutBack(s) = PutBack(Entry) \/ PutBack(s) = NoPutBack
    BY DEF Puts
  <1>2. Abstract!Forget
    BY <1>1, EntryView, ForgetStep
  <1>3. s.ok = TRUE
    BY GoodFields
  <1>4. Abstract!Return(name, <<>>, TRUE)
    BY <1>3, ViewStep DEF Abstract!Return
  <1>5. UNCHANGED Abstract!file
    BY <1>1, EntryView, ViewStep DEF Abstract!file, SameUse
  <1> QED
    BY <1>2, <1>4, <1>5 DEF Abstract!Settle

LEMMA RefuseStep ==
    ASSUME Good(fb), InPlace(fb), NEW s, fb' = s, NEW name, call' = name,
           Puts(Entry, s, <<>>), Good(s), ~s.ok, s.got = <<>>, Abstract!MayRefuse(name)
    PROVE  Abstract!Refuse(name)
  <1>1. /\ SameUse(Entry, s) /\ Content(s) = Content(Entry) /\ Position(s) = Position(Entry)
        /\ PutBack(s) = PutBack(Entry) \/ PutBack(s) = NoPutBack
    BY DEF Puts
  <1>2. Abstract!Forget
    BY <1>1, EntryView, ForgetStep
  <1>3. s.ok = FALSE
    BY GoodFields
  <1>4. Abstract!Return(name, <<>>, FALSE)
    BY <1>3, ViewStep DEF Abstract!Return
  <1>5. UNCHANGED Abstract!file
    BY <1>1, EntryView, ViewStep DEF Abstract!file, SameUse
  <1> QED
    BY <1>2, <1>4, <1>5 DEF Abstract!Refuse

\* Who can read or write has a file open for it.
LEMMA Directions ==
    ASSUME Good(fb), InPlace(fb)
    PROVE  /\ CanRead(Entry) <=> Abstract!Readable
           /\ CanWrite(Entry) <=> Abstract!Writable
           /\ AppendMode(Entry) <=> "app" \in fb.mode
  <1>1. SameUse(fb, Entry)
    BY EntryView
  <1>2. ~fb.isOpen => fb.mode = {}
    BY DEF Good, MemorySafe, ClosedIsClean
  <1>3. fb.isOpen \in BOOLEAN
    BY DEF Good, FileBufs
  <1> QED
    BY <1>1, <1>2, <1>3 DEF SameUse, CanRead, CanWrite, AppendMode, Abstract!Readable, Abstract!Writable

LEMMA WriteStep ==
    ASSUME Good(fb), InPlace(fb), NEW s, fb' = s, NEW name, call' = name,
           NEW w \in Seq(Chars), w # <<>>, CanWrite(Entry),
           Puts(Entry, s, w), Good(s), s.ok, s.got = <<>>
    PROVE  Abstract!Write(name, w)
  <1> DEFINE c == Content(fb)
             at == IF "app" \in fb.mode THEN Len(c) ELSE Position(fb)
             end == at + Len(w)
  <1>1. /\ SameUse(Entry, s) /\ Content(s) = Overwrite(Content(Entry), PutAt(Entry), w)
        /\ Position(s) = PutAt(Entry) + Len(w)
        /\ PutBack(s) = PutBack(Entry) \/ PutBack(s) = NoPutBack
    BY DEF Puts
  <1>2. Abstract!Forget
    BY <1>1, EntryView, ForgetStep
  <1>3. s.ok = TRUE
    BY GoodFields
  <1>4. Abstract!Return(name, <<>>, TRUE)
    BY <1>3, ViewStep DEF Abstract!Return
  <1>5. PutAt(Entry) = at
    BY EntryView, Directions DEF PutAt
  <1>6. at \in Nat /\ Len(w) \in Nat /\ Len(c) \in Nat
    <2>1. c \in Seq(Chars) /\ Position(fb) \in Nat
      BY ContentType, PositionType
    <2> QED
      BY <2>1, SeqLength
  <1>7. Content(fb)' = Overwrite(c, at, w) /\ Position(fb)' = end
    BY <1>1, <1>5, EntryView, ViewStep
  <1>8. Abstract!Writable
    BY Directions
  <1>9. fb.isOpen' = fb.isOpen /\ fb.mode' = fb.mode
    BY <1>1, EntryView, ViewStep DEF SameUse
  <1> HIDE DEF c
  <1>10. Content(fb)' = [i \in 1..(IF end > Len(c) THEN end ELSE Len(c)) |->
                          IF i > at /\ i <= end THEN w[i - at]
                          ELSE IF i <= Len(c) THEN c[i] ELSE Hole]
    <2>1. Greatest(Len(c), end) = IF end > Len(c) THEN end ELSE Len(c)
      BY <1>6 DEF Greatest
    <2> HIDE DEF at
    <2>2. Content(fb)' = [i \in 1..Greatest(Len(c), end) |->
                          IF i > at /\ i <= end THEN w[i - at]
                          ELSE IF i <= Len(c) THEN c[i] ELSE Hole]
      BY <1>7 DEF Overwrite
    <2> QED
      BY <2>1, <2>2
  <1> QED
    BY <1>2, <1>4, <1>7, <1>8, <1>9, <1>10 DEF Abstract!Write, c

\* How many of n characters from offset p on there are.
ThereAre(n, p, len) == IF p + n <= len THEN n ELSE IF p < len THEN len - p ELSE 0

LEMMA ReadLength ==
    ASSUME NEW n \in Nat, NEW p \in Nat, NEW len \in Nat, NEW k \in Nat, k <= n,
           k > 0 => p + k <= len, k < n => p + k >= len
    PROVE  k = ThereAre(n, p, len)
  BY DEF ThereAre

LEMMA ReadStep ==
    ASSUME Good(fb), InPlace(fb), NEW s, fb' = s, NEW name, call' = name,
           NEW n \in Nat, CanRead(Entry), NEW w, ReadsUpTo(Entry, s, n, w)
    PROVE  Abstract!Read(name, n)
  <1> DEFINE p == Position(fb)
             c == Content(fb)
             k == ThereAre(n, p, Len(c))
  <1>1. /\ Gets(Entry, s, w) /\ w \in Seq(Chars) /\ s.got = Join(Entry.got, w) /\ Good(s)
        /\ Len(w) <= n /\ (s.ok <=> Len(w) = n)
        /\ (~s.ok => Position(s) >= Len(Content(Entry)))
    BY DEF ReadsUpTo, Hands
  <1>2. s.got = w
    <2>1. Entry.got = <<>> /\ <<>> \in Seq(Chars)
      BY EntryView
    <2> QED
      BY ZenonT(30), <1>1, <2>1, JoinIs
  <1>3. /\ SameUse(Entry, s) /\ Content(s) = c /\ Position(s) = p + Len(w)
        /\ w # <<>> => Position(s) <= Len(c)
        /\ \A i \in 1..Len(w) : w[i] = See(Entry, p + i - 1)
        /\ PutBack(s) = PutBack(Entry) \/ PutBack(s) = NoPutBack
    BY <1>1, EntryView DEF Gets
  <1>4. p \in Nat /\ Len(c) \in Nat /\ Len(w) \in Nat /\ (w # <<>> <=> Len(w) > 0)
    <2>1. p \in Nat /\ c \in Seq(Chars)
      BY PositionType, ContentType
    <2> QED
      BY <1>1, <2>1, SeqLength
  <1> HIDE DEF p, c
  <1>5. Len(w) = k
    <2>1. Len(w) > 0 => p + Len(w) <= Len(c)
      BY <1>3, <1>4
    <2>2. Len(w) < n => p + Len(w) >= Len(c)
      <3>1. Content(Entry) = c
        BY EntryView DEF c
      <3> QED
        BY <1>1, <1>3, <1>4, <3>1
    <2> QED
      BY <1>1, <1>4, <2>1, <2>2, ReadLength
  <1>6. Abstract!Available(n) = k
    BY DEF Abstract!Available, ThereAre, p, c
  <1> HIDE DEF k
  <1>7. w = [i \in 1..k |-> Abstract!View(p + i - 1)]
    <2>1. w = [i \in 1..Len(w) |-> w[i]]
      BY <1>1
    <2>2. \A i \in 1..Len(w) : w[i] = Abstract!View(p + i - 1)
      BY <1>3, ViewIsSee
    <2> QED
      BY <1>5, <2>1, <2>2
  <1>8. w = Abstract!Ahead(k)
    BY <1>7 DEF Abstract!Ahead, p
  <1>9. s.ok = (k = n)
    BY <1>1, <1>5, GoodFields
  <1>10. Abstract!Return(name, Abstract!Ahead(Abstract!Available(n)), Abstract!Available(n) = n)
    BY <1>2, <1>6, <1>8, <1>9, ViewStep DEF Abstract!Return
  <1>11. Abstract!Readable
    BY Directions
  <1>12. Position(fb)' = Position(fb) + Abstract!Available(n)
    BY <1>3, <1>5, <1>6, ViewStep DEF p
  <1>13. fb.isOpen' = fb.isOpen /\ fb.mode' = fb.mode /\ Content(fb)' = Content(fb)
    BY <1>3, EntryView, ViewStep DEF SameUse, c
  <1>14. Abstract!Forget
    BY <1>3, EntryView, ForgetStep
  <1> QED
    BY <1>10, <1>11, <1>12, <1>13, <1>14 DEF Abstract!Read

LEMMA PeekStep ==
    ASSUME Good(fb), InPlace(fb), NEW s, fb' = s, call' = "sgetc",
           CanRead(Entry), PeeksAt(Entry, s)
    PROVE  Abstract!Peek
  <1> DEFINE p == Position(fb)
             c == Content(fb)
             k == ThereAre(1, p, Len(c))
  <1>1. /\ Gets(Entry, s, <<>>) /\ Good(s)
        /\ s.ok <=> p < Len(c)
        /\ s.ok => s.got = <<See(Entry, p)>>
        /\ ~s.ok => s.got = <<>>
    BY EntryView DEF PeeksAt
  <1>2. p \in Nat /\ Len(c) \in Nat
    <2>1. p \in Nat /\ c \in Seq(Chars)
      BY PositionType, ContentType
    <2> QED
      BY <2>1, SeqLength
  <1>3. /\ SameUse(Entry, s) /\ Content(s) = c /\ Position(s) = p
        /\ PutBack(s) = PutBack(Entry) \/ PutBack(s) = NoPutBack
    <2>1. Position(s) = p + Len(<<>>)
      BY <1>1, EntryView DEF Gets
    <2>2. Position(s) = p
      BY <1>2, <2>1
    <2> QED
      BY <1>1, <2>2, EntryView DEF Gets
  <1> HIDE DEF p, c
  <1>4. (s.ok => k = 1) /\ (~s.ok => k = 0)
    BY <1>1, <1>2 DEF ThereAre
  <1>5. Abstract!Available(1) = k
    BY DEF Abstract!Available, ThereAre, p, c
  <1> HIDE DEF k
  <1>6. s.got = Abstract!Ahead(k)
    <2>1. CASE s.ok
      <3>1. p + 1 - 1 = p
        BY <1>2
      <3>2. See(Entry, p) = Abstract!View(p)
        BY ViewIsSee
      <3>3. Abstract!Ahead(1) = [i \in 1..1 |-> Abstract!View(p + i - 1)]
        BY DEF Abstract!Ahead, p
      <3> DEFINE x == Abstract!View(p)
                 F == [i \in 1..1 |-> Abstract!View(p + i - 1)]
      <3>4. F[1] = x /\ DOMAIN F = 1..1
        BY <3>1
      <3>5. F = [i \in 1..1 |-> x]
        <4>1. \A i \in 1..1 : Abstract!View(p + i - 1) = x
          BY <3>1
        <4> QED
          BY <4>1
      <3> HIDE DEF F, x
      <3>6. F = <<x>>
        BY <3>5
      <3> QED
        BY <1>1, <1>4, <2>1, <3>2, <3>3, <3>6 DEF F, x
    <2>2. CASE ~s.ok
      <3>1. Abstract!Ahead(0) = [i \in 1..0 |-> Abstract!View(p + i - 1)]
        BY DEF Abstract!Ahead, p
      <3>2. [i \in 1..0 |-> Abstract!View(p + i - 1)] = <<>>
        OBVIOUS
      <3> QED
        BY <1>1, <1>4, <2>2, <3>1, <3>2
    <2> QED
      BY <2>1, <2>2
  <1>7. s.ok = (k = 1)
    BY <1>1, <1>4, GoodFields
  <1>8. Abstract!Return("sgetc", Abstract!Ahead(Abstract!Available(1)), Abstract!Available(1) = 1)
    BY <1>5, <1>6, <1>7, ViewStep DEF Abstract!Return
  <1>9. Abstract!Readable
    BY Directions
  <1>10. UNCHANGED Abstract!file
    BY <1>3, EntryView, ViewStep DEF Abstract!file, SameUse, p, c
  <1>11. Abstract!Forget
    BY <1>3, EntryView, ForgetStep
  <1> QED
    BY <1>8, <1>9, <1>10, <1>11 DEF Abstract!Peek

LEMMA UngetStep ==
    ASSUME Good(fb), InPlace(fb), NEW s, fb' = s, NEW name, call' = name, Good(s),
           CanRead(Entry), NEW x \in Chars, Ungets(Entry, s, x)
    PROVE  /\ Abstract!Unget(name, x)
           /\ See(Entry, Position(Entry) - 1) = Abstract!View(Position(fb) - 1)
  <1> DEFINE p == Position(fb) - 1
  <1>1. /\ SameUse(Entry, s) /\ Content(s) = Content(fb)
        /\ Position(fb) > 0 /\ Position(s) = p
        /\ s.ok /\ s.got = <<x>>
        /\ x = See(Entry, p) => PutBack(s) = PutBack(Entry)
        /\ x # See(Entry, p) => PutBack(s) = PutBackAlso(Entry, p, x)
    BY EntryView DEF Ungets
  <1>2. See(Entry, p) = Abstract!View(p)
    BY ViewIsSee
  <1>3. s.ok = TRUE
    BY <1>1, GoodFields
  <1>4. Abstract!Return(name, <<x>>, TRUE)
    BY <1>1, <1>3, ViewStep DEF Abstract!Return
  <1>5. Abstract!Readable
    BY Directions
  <1>6. x # Abstract!View(p) =>
            PutBack(fb)' = [q \in DOMAIN PutBack(fb) \cup {p} |->
                                IF q = p THEN x ELSE PutBack(fb)[q]]
    BY <1>1, <1>2, EntryView, ViewStep DEF PutBackAlso
  <1>7. x = Abstract!View(p) => PutBack(fb)' = PutBack(fb)
    BY <1>1, <1>2, EntryView, ViewStep
  <1>8. /\ Position(fb)' = p /\ Content(fb)' = Content(fb)
        /\ fb.isOpen' = fb.isOpen /\ fb.mode' = fb.mode
    BY <1>1, EntryView, ViewStep DEF SameUse
  <1>9. Abstract!Unget(name, x)
    BY <1>1, <1>4, <1>5, <1>6, <1>7, <1>8 DEF Abstract!Unget
  <1> QED
    BY <1>2, <1>9, EntryView

\* get_mode and the combinations of flags that can be opened.
LEMMA ModeIsValid ==
    ASSUME NEW m \in SUBSET Flags
    PROVE  /\ GetMode(m) # "none" <=> Abstract!ValidMode(m)
           /\ GetMode(m) # "none" => (GetMode(m) \in {"w", "w+"} <=> Abstract!Truncates(m))
  <1> DEFINE f == m \ {"binary", "ate"}
             i == "in" \in f
             o == "out" \in f
             a == "app" \in f
             t == "trunc" \in f
  <1>1. f \in SUBSET {"in", "out", "app", "trunc"}
    BY DEF Flags
  <1>2. "trunc" \in m <=> t
    OBVIOUS
  <1>3. GetMode(m) = CASE f \in {{"out"}, {"out", "trunc"}} -> "w"
                       [] f \in {{"app"}, {"out", "app"}} -> "a"
                       [] f = {"in"} -> "r"
                       [] f = {"in", "out"} -> "r+"
                       [] f = {"in", "out", "trunc"} -> "w+"
                       [] f \in {{"in", "app"}, {"in", "out", "app"}} -> "a+"
                       [] OTHER -> "none"
    BY DEF GetMode
  <1>4. Abstract!ValidMode(m) <=> \/ f \in (SUBSET {"in", "out", "app"}) \ {{}}
                                  \/ f \in {{"out", "trunc"}, {"in", "out", "trunc"}}
    BY DEF Abstract!ValidMode
  <1>5. Abstract!Truncates(m) <=> t \/ f = {"out"}
    BY <1>2 DEF Abstract!Truncates
  <1> HIDE DEF f
  <1> DEFINE w == f \in {{"out"}, {"out", "trunc"}}
             aa == f \in {{"app"}, {"out", "app"}}
             r == f = {"in"}
             rr == f = {"in", "out"}
             ww == f = {"in", "out", "trunc"}
             aaa == f \in {{"in", "app"}, {"in", "out", "app"}}
             v == f \in (SUBSET {"in", "out", "app"}) \ {{}}
             vv == f \in {{"out", "trunc"}, {"in", "out", "trunc"}}
             tt == f = {"out"}
  <1>6. w <=> o /\ ~i /\ ~a
    BY <1>1
  <1>7. aa <=> a /\ ~i /\ ~t
    BY <1>1
  <1>8. r <=> i /\ ~o /\ ~a /\ ~t
    BY <1>1
  <1>9. rr <=> i /\ o /\ ~a /\ ~t
    BY <1>1
  <1>10. ww <=> i /\ o /\ ~a /\ t
    BY <1>1
  <1>11. aaa <=> i /\ a /\ ~t
    BY <1>1
  <1>12. v <=> ~t /\ (i \/ o \/ a)
    <2>1. f # {} <=> i \/ o \/ a \/ t
      BY <1>1
    <2>2. f \subseteq {"in", "out", "app"} <=> ~t
      BY <1>1
    <2>3. v <=> f \subseteq {"in", "out", "app"} /\ f # {}
      OBVIOUS
    <2> HIDE DEF i, o, a, t, v
    <2> QED
      BY <2>1, <2>2, <2>3
  <1>13. vv <=> t /\ o /\ ~a
    <2>1. f = {"out", "trunc"} <=> ~i /\ o /\ ~a /\ t
      <3>1. f = {"out", "trunc"} => ~i /\ o /\ ~a /\ t
        OBVIOUS
      <3>2. ASSUME ~i, o, ~a, t PROVE f = {"out", "trunc"}
        <4>1. f \subseteq {"out", "trunc"}
          BY <1>1, <3>2
        <4>2. {"out", "trunc"} \subseteq f
          BY <3>2
        <4> QED
          BY <4>1, <4>2
      <3> QED
        BY <3>1, <3>2
    <2>2. vv <=> f = {"out", "trunc"} \/ ww
      OBVIOUS
    <2> HIDE DEF i, o, a, t, vv, ww
    <2> QED
      BY <1>10, <2>1, <2>2
  <1>14. tt <=> o /\ ~i /\ ~a /\ ~t
    BY <1>1
  <1>15. GetMode(m) = CASE w -> "w" [] aa -> "a" [] r -> "r" [] rr -> "r+" [] ww -> "w+"
                        [] aaa -> "a+" [] OTHER -> "none"
    BY <1>3
  <1>16. (Abstract!ValidMode(m) <=> v \/ vv) /\ (Abstract!Truncates(m) <=> t \/ tt)
    BY <1>4, <1>5
  <1> HIDE DEF i, o, a, t, w, aa, r, rr, ww, aaa, v, vv, tt
  <1>17. /\ w => GetMode(m) = "w"
         /\ aa => GetMode(m) = "a"
         /\ r => GetMode(m) = "r"
         /\ rr => GetMode(m) = "r+"
         /\ ww => GetMode(m) = "w+"
         /\ aaa => GetMode(m) = "a+"
         /\ ~w /\ ~aa /\ ~r /\ ~rr /\ ~ww /\ ~aaa => GetMode(m) = "none"
    BY <1>6, <1>7, <1>8, <1>9, <1>10, <1>11, <1>15
  <1> QED
    BY <1>6, <1>7, <1>8, <1>9, <1>10, <1>11, <1>12, <1>13, <1>14, <1>16, <1>17

LEMMA OpenStep ==
    ASSUME Good(fb), InPlace(fb), NEW s, fb' = s, call' = "open", Good(s),
           ~fb.isOpen, NEW m \in SUBSET Flags, GetMode(m) # "none", Opens(Entry, s, m)
    PROVE  Abstract!Open(m)
  <1>1. /\ s.isOpen /\ s.mode = m \ {"ate"} /\ s.ok /\ s.got = <<>>
        /\ Content(s) = IF GetMode(m) \in {"w", "w+"} THEN <<>> ELSE Content(fb)
        /\ Position(s) = IF "ate" \in m THEN Len(Content(s)) ELSE 0
        /\ PutBack(s) = NoPutBack
    BY EntryView DEF Opens
  <1>2. s.ok = TRUE /\ s.isOpen = TRUE
    BY <1>1, GoodFields DEF Good, FileBufs
  <1>3. Abstract!Return("open", <<>>, TRUE)
    BY <1>1, <1>2, ViewStep DEF Abstract!Return
  <1>4. Abstract!Forget
    BY <1>1, ForgetStep
  <1>5. Abstract!ValidMode(m) /\ (GetMode(m) \in {"w", "w+"} <=> Abstract!Truncates(m))
    BY ModeIsValid
  <1>6. fb.isOpen' = TRUE /\ fb.mode' = m \ {"ate"}
    BY <1>1, <1>2, ViewStep
  <1>7. Content(fb)' = IF Abstract!Truncates(m) THEN <<>> ELSE Content(fb)
    BY <1>1, <1>5, ViewStep
  <1>8. Position(fb)' = IF "ate" \in m THEN Len(Content(fb)') ELSE 0
    BY <1>1, ViewStep
  <1> QED
    BY <1>3, <1>4, <1>5, <1>6, <1>7, <1>8 DEF Abstract!Open

LEMMA CloseStep ==
    ASSUME Good(fb), InPlace(fb), NEW s, fb' = s, call' = "close", Good(s), fb.isOpen,
           ~s.isOpen, s.mode = {}, s.ok, s.got = <<>>, Content(s) = Content(fb),
           Position(s) = 0, PutBack(s) = NoPutBack
    PROVE  Abstract!Close
  <1>1. s.ok = TRUE /\ s.isOpen = FALSE
    BY GoodFields DEF Good, FileBufs
  <1>2. Abstract!Return("close", <<>>, TRUE)
    BY <1>1, ViewStep DEF Abstract!Return
  <1>3. Abstract!Forget
    BY ForgetStep
  <1> QED
    BY <1>1, <1>2, <1>3, ViewStep DEF Abstract!Close

LEMMA SeekStep ==
    ASSUME Good(fb), InPlace(fb), NEW s, fb' = s, call' = "pubseekoff", Good(s), fb.isOpen,
           NEW off \in Offsets, NEW dir \in {"beg", "cur", "end"},
           SeeksTo(Entry, s, SeekBase(Entry, dir) + off)
    PROVE  Abstract!Seek(dir, off) \/ Abstract!Refuse("pubseekoff")
  <1> DEFINE p == SeekBase(Entry, dir) + off
  <1>1. p = Abstract!Target(dir, off) /\ p \in Int
    <2>1. Position(fb) \in Nat /\ Len(Content(fb)) \in Nat
      <3>1. Content(fb) \in Seq(Chars)
        BY ContentType
      <3> QED
        BY <3>1, PositionType, SeqLength
    <2>2. off \in Int
      BY DataAssumption
    <2>3. SeekBase(Entry, dir) = CASE dir = "beg" -> 0 [] dir = "cur" -> Position(fb)
                                   [] dir = "end" -> Len(Content(fb))
      BY EntryView DEF SeekBase
    <2>4. Abstract!Target(dir, off) =
              off + (CASE dir = "beg" -> 0 [] dir = "cur" -> Position(fb)
                       [] dir = "end" -> Len(Content(fb)))
      BY DEF Abstract!Target
    <2>5. SeekBase(Entry, dir) \in Nat
      BY <2>1, <2>3
    <2> QED
      BY <2>2, <2>3, <2>4, <2>5
  <1> HIDE DEF p
  <1>2. /\ SameUse(Entry, s) /\ Content(s) = Content(Entry) /\ s.got = Entry.got
        /\ PutBack(s) = PutBack(Entry) \/ PutBack(s) = NoPutBack
        /\ p >= 0 => s.ok /\ Position(s) = p
        /\ ~(p >= 0) => ~s.ok /\ Position(s) = Position(Entry)
    BY DEF SeeksTo, p
  <1>3. s.got = <<>>
    BY <1>2, EntryView
  <1>4. Abstract!Forget
    BY <1>2, EntryView, ForgetStep
  <1>5. CASE p >= 0
    <2>1. s.ok = TRUE
      BY <1>2, <1>5, GoodFields
    <2>2. Abstract!Return("pubseekoff", <<>>, TRUE)
      BY <1>3, <2>1, ViewStep DEF Abstract!Return
    <2>3. /\ fb.isOpen' = fb.isOpen /\ fb.mode' = fb.mode /\ Content(fb)' = Content(fb)
          /\ Position(fb)' = p
      BY <1>2, <1>5, EntryView, ViewStep DEF SameUse
    <2> QED
      BY <1>1, <1>4, <1>5, <2>2, <2>3 DEF Abstract!Seek
  <1>6. CASE ~(p >= 0)
    <2>1. Puts(Entry, s, <<>>)
      BY <1>2, <1>6 DEF Puts
    <2>2. Abstract!Target(dir, off) < 0
      BY <1>1, <1>6
    <2>3. Abstract!MayRefuse("pubseekoff")
      BY <2>2 DEF Abstract!MayRefuse
    <2>4. ~s.ok
      BY <1>2, <1>6
    <2> QED
      BY <1>3, <2>1, <2>3, <2>4, RefuseStep
  <1> QED
    BY <1>5, <1>6

\* Nothing is said of a result but that it succeeded or not.
LEMMA ResultInPlace ==
    ASSUME NEW s, Good(s), InPlace(s), NEW b \in BOOLEAN
    PROVE  LET t == Result(s, b)
           IN Good(t) /\ InPlace(t) /\ t.got = s.got /\ (t.ok <=> b) /\ Puts(s, t, <<>>)
              /\ (Empty(s) => Empty(t)) /\ t.isOpen = s.isOpen
  <1> DEFINE t == Result(s, b)
  <1>1. /\ t.get = s.get /\ t.put = s.put /\ t.got = s.got /\ t.file = s.file
        /\ SameShell(s, t) /\ (t.ok <=> b)
    BY ResultIs
  <1>2. Good(t) /\ Puts(s, t, <<>>)
    BY ResultGood, ResultPuts
  <1> HIDE DEF t
  <1>3. InPlace(t)
    BY <1>1, SameInPlace
  <1>4. Empty(s) => Empty(t)
    BY <1>1 DEF Empty, Pending
  <1>5. t.isOpen = s.isOpen
    BY <1>1 DEF SameShell
  <1> QED
    BY <1>1, <1>2, <1>3, <1>4, <1>5 DEF t

\* An empty get area is in place.
LEMMA EmptyInPlace ==
    ASSUME NEW s, Good(s), Empty(s)
    PROVE  InPlace(s)
  <1>1. ~HasGet(s)
    BY NoGetIsEmpty DEF Empty
  <1> QED
    BY <1>1, NoGetInPlace

\* Looking at a character.
LEMMA SgetcRefines ==
    ASSUME Good(fb), InPlace(fb), NEW o, o.fault = "none", o.wrote \in Nat,
           fb' = PeekChar(Entry, o), call' = "sgetc"
    PROVE  Abstract!Next /\ InPlace(PeekChar(Entry, o))
  <1> DEFINE e == Entry
             s == PeekChar(e, o)
  <1>1. Good(e) /\ InPlace(e) /\ e.got = <<>>
    BY EntryView
  <1> HIDE DEF e
  <1>2. CASE CanRead(e)
    <2>1. PeeksAt(e, s)
      BY <1>1, <1>2, PeekCharPeeks
    <2>2. fb' = s /\ CanRead(Entry) /\ PeeksAt(Entry, s)
      BY <1>2, <2>1 DEF e
    <2> HIDE DEF s
    <2>3. Abstract!Peek
      BY <2>2, PeekStep
    <2>4. InPlace(s)
      BY <2>1 DEF PeeksAt
    <2> QED
      BY <2>3, <2>4 DEF Abstract!Next, s, e
  <1>3. CASE ~CanRead(e)
    <2> DEFINE r == Result(e, FALSE)
    <2>1. s = r
      BY <1>1, <1>3, NoReadingGets
    <2>2. Good(r) /\ InPlace(r) /\ r.got = <<>> /\ ~r.ok /\ Puts(e, r, <<>>)
      BY <1>1, ResultInPlace
    <2>3. fb' = s
      BY DEF e
    <2> HIDE DEF r, s
    <2>4. fb' = r /\ Puts(Entry, r, <<>>)
      BY <2>1, <2>2, <2>3 DEF e
    <2>5. ~Abstract!Readable
      BY <1>3, Directions DEF e
    <2>6. Abstract!MayRefuse("sgetc")
      BY <2>5 DEF Abstract!MayRefuse
    <2>7. Abstract!Refuse("sgetc")
      BY <2>2, <2>4, <2>6, RefuseStep
    <2> QED
      BY <2>1, <2>2, <2>7 DEF Abstract!Next, s, e
  <1> QED
    BY <1>2, <1>3

LEMMA SbumpcRefines ==
    ASSUME Good(fb), InPlace(fb), NEW o, o.fault = "none", o.wrote \in Nat,
           fb' = BumpChar(Entry, o), call' = "sbumpc"
    PROVE  Abstract!Next /\ InPlace(BumpChar(Entry, o))
  <1> DEFINE e == Entry
             s == BumpChar(e, o)
  <1>1. Good(e) /\ InPlace(e) /\ e.got = <<>>
    BY EntryView
  <1> HIDE DEF e
  <1>2. CASE CanRead(e)
    <2>1. PICK w : ReadsUpTo(e, s, 1, w)
      BY <1>1, <1>2, BumpCharReads
    <2>2. fb' = s /\ CanRead(Entry) /\ ReadsUpTo(Entry, s, 1, w)
      BY <1>2, <2>1 DEF e
    <2> HIDE DEF s
    <2>3. 1 \in Nat
      OBVIOUS
    <2>4. Abstract!Read("sbumpc", 1)
      BY <2>2, <2>3, ReadStep
    <2>5. InPlace(s)
      BY <2>1 DEF ReadsUpTo, Hands
    <2> QED
      BY <2>4, <2>5 DEF Abstract!Next, s, e
  <1>3. CASE ~CanRead(e)
    <2> DEFINE r == Result(e, FALSE)
    <2>1. s = r
      BY <1>1, <1>3, NoReadingGets
    <2>2. Good(r) /\ InPlace(r) /\ r.got = <<>> /\ ~r.ok /\ Puts(e, r, <<>>)
      BY <1>1, ResultInPlace
    <2>3. fb' = s
      BY DEF e
    <2> HIDE DEF r, s
    <2>4. fb' = r /\ Puts(Entry, r, <<>>)
      BY <2>1, <2>2, <2>3 DEF e
    <2>5. ~Abstract!Readable
      BY <1>3, Directions DEF e
    <2>6. Abstract!MayRefuse("sbumpc")
      BY <2>5 DEF Abstract!MayRefuse
    <2>7. Abstract!Refuse("sbumpc")
      BY <2>2, <2>4, <2>6, RefuseStep
    <2> QED
      BY <2>1, <2>2, <2>7 DEF Abstract!Next, s, e
  <1> QED
    BY <1>2, <1>3

\* Reading nothing leaves everything as it is.
LEMMA SgetnRefines ==
    ASSUME Good(fb), InPlace(fb), NEW o, o.fault = "none", o.wrote \in Nat,
           NEW n \in Counts, fb' = Xsgetn(Entry, n, o), call' = "sgetn"
    PROVE  Abstract!Next /\ InPlace(Xsgetn(Entry, n, o))
  <1> DEFINE e == Entry
             s == Xsgetn(e, n, o)
  <1>1. Good(e) /\ InPlace(e) /\ e.got = <<>> /\ n \in Nat
    BY EntryView, DataAssumption
  <1> HIDE DEF e
  <1>2. CASE CanRead(e)
    <2>1. PICK w : ReadsUpTo(e, s, n, w)
      BY <1>1, <1>2, XsgetnReads
    <2>2. fb' = s /\ CanRead(Entry) /\ ReadsUpTo(Entry, s, n, w)
      BY <1>2, <2>1 DEF e
    <2> HIDE DEF s
    <2>3. InPlace(s)
      BY <2>1 DEF ReadsUpTo, Hands
    <2>4. CASE n # 0
      <3>1. Abstract!Read("sgetn", n)
        BY <1>1, <2>2, ReadStep
      <3>2. n \in Counts \ {0}
        BY <2>4
      <3> QED
        BY <2>3, <3>1, <3>2 DEF Abstract!Next, s, e
    <2>5. CASE n = 0
      <3>1. w \in Seq(Chars) /\ Gets(e, s, w) /\ Len(w) <= 0 /\ s.got = Join(e.got, w)
            /\ (s.ok <=> Len(w) = 0) /\ Good(s)
        BY <2>1, <2>5 DEF ReadsUpTo, Hands
      <3>2. Len(w) = 0 /\ w = <<>>
        <4>1. Len(w) \in Nat /\ (w # <<>> => Len(w) > 0)
          BY <3>1, SeqLength
        <4> QED
          BY <3>1, <4>1
      <3>3. s.ok /\ s.got = <<>>
        <4>1. <<>> \in Seq(Chars)
          OBVIOUS
        <4>2. Join(<<>>, w) = w
          BY <3>1, <4>1, JoinIs
        <4> QED
          BY <1>1, <3>1, <3>2, <4>2
      <3>4. Puts(e, s, <<>>)
        <4>1. Position(s) = Position(e) + Len(w)
          BY <3>1 DEF Gets
        <4>2. Position(s) = Position(e)
          BY <1>1, <3>2, <4>1, PositionType
        <4> QED
          BY <3>1, <4>2 DEF Gets, Puts
      <3>5. Abstract!Settle("sgetn")
        BY <2>2, <3>1, <3>3, <3>4, SettleStep DEF e
      <3> QED
        BY <2>3, <2>5, <3>5 DEF Abstract!Next, Abstract!Nothing, s, e
    <2> QED
      BY <2>4, <2>5
  <1>3. CASE ~CanRead(e)
    <2>1. ~Abstract!Readable
      BY <1>3, Directions DEF e
    <2>2. fb' = s
      BY DEF e
    <2>3. CASE n # 0
      <3> DEFINE r == Result(e, FALSE)
      <3>1. s = r
        <4>1. n \in Nat \ {0}
          BY <1>1, <2>3
        <4> QED
          BY <1>1, <1>3, <4>1, NoReadingGets
      <3>2. Good(r) /\ InPlace(r) /\ r.got = <<>> /\ ~r.ok /\ Puts(e, r, <<>>)
        BY <1>1, ResultInPlace
      <3> HIDE DEF r, s
      <3>3. fb' = r /\ Puts(Entry, r, <<>>)
        BY <2>2, <3>1, <3>2 DEF e
      <3>4. Abstract!MayRefuse("sgetn")
        BY <2>1 DEF Abstract!MayRefuse
      <3>5. Abstract!Refuse("sgetn")
        BY <3>2, <3>3, <3>4, RefuseStep
      <3> QED
        BY <3>1, <3>2, <3>5 DEF Abstract!Next, s, e
    <2>4. CASE n = 0
      <3> DEFINE r == Result(e, TRUE)
      <3>1. s = r
        BY <1>1, <1>3, <2>4, NoReadingGets
      <3>2. Good(r) /\ InPlace(r) /\ r.got = <<>> /\ r.ok /\ Puts(e, r, <<>>)
        BY <1>1, ResultInPlace
      <3> HIDE DEF r, s
      <3>3. fb' = r /\ Puts(Entry, r, <<>>)
        BY <2>2, <3>1, <3>2 DEF e
      <3>4. Abstract!Settle("sgetn")
        BY <3>2, <3>3, SettleStep
      <3> QED
        BY <2>4, <3>1, <3>2, <3>4 DEF Abstract!Next, Abstract!Nothing, s, e
    <2> QED
      BY <2>3, <2>4
  <1> QED
    BY <1>2, <1>3

\* A call that is refused at once.
LEMMA RefusedAtOnce ==
    ASSUME Good(fb), InPlace(fb), fb' = Result(Entry, FALSE), NEW name, call' = name,
           Abstract!MayRefuse(name)
    PROVE  Abstract!Refuse(name) /\ InPlace(Result(Entry, FALSE)) /\ ~Result(Entry, FALSE).ok
  <1> DEFINE e == Entry
             r == Result(e, FALSE)
  <1>1. Good(e) /\ InPlace(e) /\ e.got = <<>>
    BY EntryView
  <1> HIDE DEF e
  <1>2. Good(r) /\ InPlace(r) /\ r.got = <<>> /\ ~r.ok /\ Puts(e, r, <<>>)
    BY <1>1, ResultInPlace
  <1>3. fb' = r
    BY DEF e
  <1> HIDE DEF r
  <1>4. Puts(Entry, r, <<>>)
    BY <1>2 DEF e
  <1>5. Abstract!Refuse(name)
    BY <1>2, <1>3, <1>4, RefuseStep
  <1> QED
    BY <1>2, <1>5 DEF r, e

LEMMA SputcRefines ==
    ASSUME Good(fb), InPlace(fb), NEW o, o.fault = "none", o.wrote \in Nat,
           NEW c \in Chars, fb' = PutChar(Entry, c, o), call' = "sputc"
    PROVE  Abstract!Next /\ InPlace(PutChar(Entry, c, o))
  <1> DEFINE e == Entry
             s == PutChar(e, c, o)
  <1>1. Good(e) /\ InPlace(e) /\ e.got = <<>>
    BY EntryView
  <1> HIDE DEF e
  <1>2. InPlace(s) /\ Good(s) /\ s.got = <<>>
    BY <1>1, PutCharInPlace, PutCharGood
  <1>3. fb' = s
    BY DEF e
  <1>4. CASE CanWrite(e)
    <2>1. Puts(e, s, <<c>>) /\ s.ok
      BY <1>1, <1>4, PutCharPuts
    <2> HIDE DEF s
    <2>2. Puts(Entry, s, <<c>>) /\ CanWrite(Entry)
      BY <1>4, <2>1 DEF e
    <2>3. <<c>> \in Seq(Chars) /\ <<c>> # <<>>
      OBVIOUS
    <2>4. Abstract!Write("sputc", <<c>>)
      BY <1>2, <1>3, <2>1, <2>2, <2>3, WriteStep
    <2> QED
      BY <1>2, <2>4 DEF Abstract!Next, s, e
  <1>5. CASE ~CanWrite(e)
    <2>1. Puts(e, s, <<>>) /\ ~s.ok
      BY <1>1, <1>5, NoWritingPuts
    <2> HIDE DEF s
    <2>2. Puts(Entry, s, <<>>)
      BY <2>1 DEF e
    <2>3. ~Abstract!Writable
      BY <1>5, Directions DEF e
    <2>4. Abstract!MayRefuse("sputc")
      BY <2>3 DEF Abstract!MayRefuse
    <2>5. Abstract!Refuse("sputc")
      BY <1>2, <1>3, <2>1, <2>2, <2>4, RefuseStep
    <2> QED
      BY <1>2, <2>5 DEF Abstract!Next, s, e
  <1> QED
    BY <1>4, <1>5

LEMMA SputnRefines ==
    ASSUME Good(fb), InPlace(fb), NEW o, o.fault = "none", o.wrote \in Nat,
           NEW w \in Strings, fb' = Xsputn(Entry, w, o), call' = "sputn"
    PROVE  Abstract!Next /\ InPlace(Xsputn(Entry, w, o))
  <1> DEFINE e == Entry
             s == Xsputn(e, w, o)
  <1>1. Good(e) /\ InPlace(e) /\ e.got = <<>> /\ w \in Seq(Chars)
    BY EntryView, DataAssumption
  <1> HIDE DEF e
  <1>2. InPlace(s) /\ Good(s) /\ s.got = <<>>
    BY <1>1, XsputnInPlace, XsputnGood
  <1>3. fb' = s
    BY DEF e
  <1>4. CASE w = <<>>
    <2>1. Puts(e, s, <<>>) /\ s.ok
      BY <1>1, <1>4, XsputnPuts, NoWritingPuts
    <2> HIDE DEF s
    <2>2. Puts(Entry, s, <<>>)
      BY <2>1 DEF e
    <2>3. Abstract!Settle("sputn")
      BY <1>2, <1>3, <2>1, <2>2, SettleStep
    <2> QED
      BY <1>2, <1>4, <2>3 DEF Abstract!Next, Abstract!Nothing, s, e
  <1>5. CASE w # <<>> /\ CanWrite(e)
    <2>1. Puts(e, s, w) /\ s.ok
      BY <1>1, <1>5, XsputnPuts
    <2> HIDE DEF s
    <2>2. Puts(Entry, s, w) /\ CanWrite(Entry)
      BY <1>5, <2>1 DEF e
    <2>3. Abstract!Write("sputn", w)
      BY <1>1, <1>2, <1>3, <1>5, <2>1, <2>2, WriteStep
    <2>4. w \in Strings \ {<<>>}
      BY <1>5
    <2> QED
      BY <1>2, <2>3, <2>4 DEF Abstract!Next, s, e
  <1>6. CASE w # <<>> /\ ~CanWrite(e)
    <2>1. Puts(e, s, <<>>) /\ ~s.ok
      BY <1>1, <1>6, NoWritingPuts
    <2> HIDE DEF s
    <2>2. Puts(Entry, s, <<>>)
      BY <2>1 DEF e
    <2>3. ~Abstract!Writable
      BY <1>6, Directions DEF e
    <2>4. Abstract!MayRefuse("sputn")
      BY <2>3 DEF Abstract!MayRefuse
    <2>5. Abstract!Refuse("sputn")
      BY <1>2, <1>3, <2>1, <2>2, <2>4, RefuseStep
    <2> QED
      BY <1>2, <2>5 DEF Abstract!Next, s, e
  <1> QED
    BY <1>4, <1>5, <1>6

LEMMA UngetRefines ==
    ASSUME Good(fb), InPlace(fb), ~fb.get.stale, NEW c \in OneChar,
           fb' = PbackFail(Entry, c), NEW name, call' = name,
           (name = "sungetc" /\ c = <<>>) \/ name = "sputbackc"
    PROVE  Abstract!Next /\ InPlace(PbackFail(Entry, c))
  <1> DEFINE e == Entry
             s == PbackFail(e, c)
  <1>1. Good(e) /\ InPlace(e) /\ e.got = <<>> /\ ~e.get.stale
    BY EntryView
  <1>2. fb' = s
    OBVIOUS
  <1> HIDE DEF e
  <1>3. CASE e.get.idx = 0
    <2>1. s = Result(e, FALSE)
      BY <1>3 DEF PbackFail
    <2>2. fb' = Result(Entry, FALSE)
      BY <1>2, <2>1 DEF e
    <2>3. Abstract!MayRefuse(name)
      BY DEF Abstract!MayRefuse
    <2>4. Abstract!Refuse(name) /\ InPlace(Result(Entry, FALSE))
      BY <2>2, <2>3, RefusedAtOnce
    <2>5. Abstract!Next
      BY <2>4 DEF Abstract!Next
    <2> QED
      BY <2>1, <2>4, <2>5 DEF e
  <1>4. CASE e.get.idx # 0
    <2>1. PICK x \in Chars : Ungets(e, s, x) /\ (c = <<>> => x = See(e, Position(e) - 1))
      BY <1>1, <1>4, PbackFailUngets
    <2>2. CanRead(e)
      BY <1>1, <1>4, PbackFailUngets
    <2>3. Good(s) /\ Mirrors(s)
      BY <1>1, PbackFailGood, PbackFailMirrors DEF InPlace
    <2>4. ~s.get.stale
      <3>1. PbackFail(e, c).get.stale = e.get.stale
        BY <1>1, <1>4, PbackFailIs
      <3> HIDE DEF s
      <3>2. s.get.stale = e.get.stale
        BY <3>1 DEF s
      <3> QED
        BY <1>1, <3>2
    <2>5. InPlace(s)
      BY <2>3, <2>4 DEF InPlace
    <2> HIDE DEF s
    <2>6. Ungets(Entry, s, x) /\ CanRead(Entry)
      BY <2>1, <2>2 DEF e
    <2>7. /\ Abstract!Unget(name, x)
          /\ See(Entry, Position(Entry) - 1) = Abstract!View(Position(fb) - 1)
      BY <1>2, <2>3, <2>6, UngetStep
    <2>8. name = "sungetc" => x = Abstract!View(Position(fb) - 1)
      BY <2>1, <2>7 DEF e
    <2>9. name \in {"sungetc", "sputbackc"}
      OBVIOUS
    <2>10. Abstract!Next
      BY <2>7, <2>8, <2>9 DEF Abstract!Next
    <2> QED
      BY <2>5, <2>10 DEF s, e
  <1> QED
    BY <1>3, <1>4

LEMMA PubsyncRefines ==
    ASSUME Good(fb), InPlace(fb), NEW o, o.fault = "none", o.wrote \in Nat,
           fb' = Sync(Entry, o), call' = "pubsync"
    PROVE  Abstract!Next /\ InPlace(Sync(Entry, o)) /\ Empty(Sync(Entry, o))
  <1> DEFINE e == Entry
             s == Sync(e, o)
  <1>1. Good(e) /\ InPlace(e) /\ e.got = <<>>
    BY EntryView
  <1>2. fb' = s
    OBVIOUS
  <1> HIDE DEF e
  <1>3. Puts(e, s, <<>>) /\ s.ok /\ s.got = <<>> /\ Empty(s)
    BY <1>1, SyncPuts
  <1>4. Good(s)
    BY <1>1, SyncGood
  <1> HIDE DEF s
  <1>5. Puts(Entry, s, <<>>)
    BY <1>3 DEF e
  <1>6. Abstract!Settle("pubsync")
    BY <1>2, <1>3, <1>4, <1>5, SettleStep
  <1>7. InPlace(s)
    BY <1>3, <1>4, EmptyInPlace
  <1> QED
    BY <1>3, <1>6, <1>7 DEF Abstract!Next, s, e

LEMMA PubsetbufRefines ==
    ASSUME Good(fb), InPlace(fb), Empty(fb), NEW b \in UserBufs \cup {Null}, NEW n \in Nat,
           fb' = SetBuf(Entry, b, n), call' = "pubsetbuf"
    PROVE  Abstract!Next /\ InPlace(SetBuf(Entry, b, n)) /\ Empty(SetBuf(Entry, b, n))
  <1> DEFINE e == Entry
             s == SetBuf(e, b, n)
  <1>1. Good(e) /\ InPlace(e) /\ e.got = <<>> /\ Empty(e)
    BY EntryView DEF Empty
  <1>2. fb' = s
    OBVIOUS
  <1> HIDE DEF e
  <1>3. Puts(e, s, <<>>) /\ s.ok /\ s.got = <<>> /\ Empty(s)
    BY <1>1, SetBufPuts
  <1>4. Good(s)
    BY <1>1, SetBufGood
  <1> HIDE DEF s
  <1>5. Puts(Entry, s, <<>>)
    BY <1>3 DEF e
  <1>6. Abstract!Settle("pubsetbuf")
    BY <1>2, <1>3, <1>4, <1>5, SettleStep
  <1>7. InPlace(s)
    BY <1>3, <1>4, EmptyInPlace
  <1> QED
    BY <1>3, <1>6, <1>7 DEF Abstract!Next, s, e

LEMMA CloseRefines ==
    ASSUME Good(fb), InPlace(fb), NEW o, o.fault = "none", o.wrote \in Nat,
           fb' = Close(Entry, o), call' = "close"
    PROVE  Abstract!Next /\ InPlace(Close(Entry, o))
  <1> DEFINE e == Entry
             s == Close(e, o)
  <1>1. Good(e) /\ InPlace(e) /\ e.got = <<>> /\ e.isOpen = fb.isOpen
        /\ Content(e) = Content(fb)
    BY EntryView DEF SameUse
  <1>2. fb' = s
    OBVIOUS
  <1> HIDE DEF e
  <1>3. CASE fb.isOpen
    <2>1. /\ ~s.isOpen /\ s.mode = {} /\ s.ok /\ s.got = <<>> /\ Empty(s)
          /\ Content(s) = Content(fb) /\ Position(s) = 0 /\ PutBack(s) = NoPutBack
      BY <1>1, <1>3, ClosePuts
    <2>2. Good(s)
      BY <1>1, CloseGood
    <2> HIDE DEF s
    <2>3. Abstract!Close
      BY <1>2, <1>3, <2>1, <2>2, CloseStep
    <2>4. InPlace(s)
      BY <2>1, <2>2, EmptyInPlace
    <2> QED
      BY <2>3, <2>4 DEF Abstract!Next, s, e
  <1>4. CASE ~fb.isOpen
    <2>1. s = Result(e, FALSE)
      BY <1>1, <1>4 DEF Close
    <2>2. fb' = Result(Entry, FALSE)
      BY <1>2, <2>1 DEF e
    <2>3. Abstract!MayRefuse("close")
      BY <1>4 DEF Abstract!MayRefuse
    <2>4. Abstract!Refuse("close") /\ InPlace(Result(Entry, FALSE))
      BY <2>2, <2>3, RefusedAtOnce
    <2>5. Abstract!Next
      BY <2>4 DEF Abstract!Next
    <2> QED
      BY <2>1, <2>4, <2>5 DEF e
  <1> QED
    BY <1>3, <1>4

LEMMA OpenRefines ==
    ASSUME Good(fb), InPlace(fb), NEW o, o.fault = "none", o.wrote \in Nat,
           NEW m \in Modes, fb' = Open(Entry, m, o), call' = "open"
    PROVE  LET s == Open(Entry, m, o)
           IN Abstract!Next /\ InPlace(s) /\ (s.ok => Empty(s))
  <1> DEFINE e == Entry
             s == Open(e, m, o)
  <1>1. Good(e) /\ InPlace(e) /\ e.got = <<>> /\ e.isOpen = fb.isOpen /\ m \in SUBSET Flags
    BY EntryView, ModesAssumption DEF SameUse
  <1>2. fb' = s
    OBVIOUS
  <1> HIDE DEF e
  <1>3. CASE ~fb.isOpen /\ GetMode(m) # "none"
    <2>1. Opens(e, s, m)
      BY <1>1, <1>3, OpenOpens
    <2>2. Good(s)
      BY <1>1, OpenGood
    <2> HIDE DEF s
    <2>3. Opens(Entry, s, m) /\ Empty(s)
      BY <2>1 DEF e, Opens
    <2>4. Abstract!Open(m)
      BY <1>1, <1>2, <1>3, <2>2, <2>3, OpenStep
    <2>5. InPlace(s)
      BY <2>2, <2>3, EmptyInPlace
    <2> QED
      BY <2>3, <2>4, <2>5 DEF Abstract!Next, s, e
  <1>4. CASE fb.isOpen \/ GetMode(m) = "none"
    <2>1. s = Result(e, FALSE)
      BY <1>1, <1>4 DEF Open
    <2>2. fb' = Result(Entry, FALSE)
      BY <1>2, <2>1 DEF e
    <2>3. GetMode(m) = "none" => ~Abstract!ValidMode(m)
      BY <1>1, ModeIsValid
    <2>4. Abstract!MayRefuse("open")
      BY <1>4, <2>3 DEF Abstract!MayRefuse
    <2>5. Abstract!Refuse("open") /\ InPlace(Result(Entry, FALSE)) /\ ~Result(Entry, FALSE).ok
      BY <2>2, <2>4, RefusedAtOnce
    <2>6. Abstract!Next
      BY <2>5 DEF Abstract!Next
    <2> QED
      BY <2>1, <2>5, <2>6 DEF e
  <1> QED
    BY <1>3, <1>4

LEMMA SeekRefines ==
    ASSUME Good(fb), InPlace(fb), NEW o, o.fault = "none", o.wrote \in Nat,
           NEW off \in Offsets, NEW dir \in {"beg", "cur", "end"},
           fb' = SeekOff(Entry, off, dir, o), call' = "pubseekoff"
    PROVE  LET s == SeekOff(Entry, off, dir, o)
           IN Abstract!Next /\ InPlace(s) /\ (s.ok => Empty(s))
  <1> DEFINE e == Entry
             s == SeekOff(e, off, dir, o)
  <1>1. Good(e) /\ InPlace(e) /\ e.got = <<>> /\ e.isOpen = fb.isOpen /\ off \in Int
    BY EntryView, DataAssumption DEF SameUse
  <1>2. fb' = s
    OBVIOUS
  <1> HIDE DEF e
  <1>3. CASE fb.isOpen
    <2>1. SeeksTo(e, s, SeekBase(e, dir) + off)
      BY <1>1, <1>3, SeekOffSeeks
    <2>2. Good(s)
      BY <1>1, SeekOffGood
    <2> HIDE DEF s
    <2>3. SeeksTo(Entry, s, SeekBase(Entry, dir) + off) /\ Empty(s)
      BY <2>1 DEF e, SeeksTo
    <2>4. Abstract!Seek(dir, off) \/ Abstract!Refuse("pubseekoff")
      BY <1>2, <1>3, <2>2, <2>3, SeekStep
    <2>5. InPlace(s)
      BY <2>2, <2>3, EmptyInPlace
    <2> QED
      BY <2>3, <2>4, <2>5 DEF Abstract!Next, s, e
  <1>4. CASE ~fb.isOpen
    <2>1. s = Result(e, FALSE)
      BY <1>1, <1>4 DEF SeekOff
    <2>2. fb' = Result(Entry, FALSE)
      BY <1>2, <2>1 DEF e
    <2>3. Abstract!MayRefuse("pubseekoff")
      BY <1>4 DEF Abstract!MayRefuse
    <2>4. Abstract!Refuse("pubseekoff") /\ InPlace(Result(Entry, FALSE)) /\ ~Result(Entry, FALSE).ok
      BY <2>2, <2>3, RefusedAtOnce
    <2>5. Abstract!Next
      BY <2>4 DEF Abstract!Next
    <2> QED
      BY <2>1, <2>4, <2>5 DEF e
  <1> QED
    BY <1>3, <1>4

\* What makes a step of the filebuf a step of the file: its members are in order, what it read
\* ahead belongs where it is, and when the caller may change the buffer nothing is held back.
RefInv == Inv /\ InPlace(fb) /\ (Settled => Empty(fb))

LEMMA Faultless ==
    ASSUME MaxErrs = 0, Good(fb), NEW o, MayFail(o)
    PROVE  o.fault = "none"
  <1>1. fb.file.errs \in Nat
    BY DEF Good, FileBufs, CFiles
  <1> QED
    BY <1>1 DEF MayFail

\* The caller's view of the state after a step is that of the filebuf the step yields.
LEMMA StepRefInv ==
    ASSUME NEW s, fb' = s, InPlace(s)
    PROVE  InPlace(fb)' /\ (Empty(s) => Empty(fb)')
  BY DEF InPlace, Mirrors, ShowsFile, HasGet, Unread, Empty, Pending

LEMMA ClosedIsEmpty ==
    ASSUME NEW s, Good(s), ~s.isOpen
    PROVE  Empty(s)
  <1>1. s.get = NoGet /\ s.put = NoPut
    BY DEF Good, MemorySafe, GetInBlock, PutInBlock, ClosedIsClean, HasGet, HasPut
  <1> QED
    BY <1>1 DEF Empty, Pending, NoPut

\* The invariant and the step after a call that does not let the caller change the buffer next,
LEMMA BusyStep ==
    ASSUME RefInv, NEW s, fb' = s, Inv', InPlace(s), Abstract!Next,
           call' \notin {"pubsync", "pubseekoff", "open", "pubsetbuf"}
    PROVE  Abstract!Next /\ RefInv'
  <1>1. InPlace(fb)'
    BY StepRefInv
  <1>2. ~s.isOpen => Empty(s)
    <2>1. Good(fb)'
      BY DEF Inv
    <2>2. Good(s)
      BY <2>1 DEF Good, MemorySafe, OwnsItsBlock, OneArea, GetInBlock, PutInBlock,
                  AreasNeedFile, ClosedIsClean, BufferedIsBinary, FileBufs
    <2> QED
      BY <2>2, ClosedIsEmpty
  <1>3. ~s.isOpen => Empty(fb)'
    BY <1>2, StepRefInv
  <1>4. Settled' => ~s.isOpen
    BY DEF Settled
  <1> QED
    BY <1>1, <1>3, <1>4 DEF RefInv

\* and after one that does.
LEMMA QuietStep ==
    ASSUME RefInv, NEW s, fb' = s, Inv', InPlace(s), Abstract!Next, s.ok => Empty(s)
    PROVE  Abstract!Next /\ RefInv'
  <1>1. InPlace(fb)' /\ (s.ok => Empty(fb)')
    BY StepRefInv
  <1>2. ~s.isOpen => Empty(fb)'
    <2>1. Good(fb)'
      BY DEF Inv
    <2>2. Good(s)
      BY <2>1 DEF Good, MemorySafe, OwnsItsBlock, OneArea, GetInBlock, PutInBlock,
                  AreasNeedFile, ClosedIsClean, BufferedIsBinary, FileBufs
    <2>3. ~s.isOpen => Empty(s)
      BY <2>2, ClosedIsEmpty
    <2> QED
      BY <2>3, StepRefInv
  <1>3. Settled' => ~s.isOpen \/ s.ok
    BY DEF Settled
  <1> QED
    BY <1>1, <1>2, <1>3 DEF RefInv

LEMMA InitRefines == Init => RefInv /\ Abstract!Init
  <1> SUFFICES ASSUME Init PROVE RefInv /\ Abstract!Init
    OBVIOUS
  <1>1. PICK d \in Contents : fb = NewFileBuf(NewFile(d))
    BY DEF Init
  <1>2. Inv
    BY InitInv
  <1>3. ~fb.isOpen /\ fb.get = NoGet /\ fb.put = NoPut /\ fb.mode = {} /\ fb.ok = TRUE
        /\ fb.isOpen = FALSE /\ fb.got = <<>> /\ fb.file = NewFile(d) /\ call = "none"
    BY <1>1 DEF NewFileBuf, Init
  <1>4. Good(fb) /\ Empty(fb)
    BY <1>2, <1>3, ClosedIsEmpty DEF Inv
  <1>5. RefInv
    BY <1>2, <1>4, EmptyInPlace DEF RefInv
  <1>6. Content(fb) \in Contents
    <2>1. Pending(fb) = 0
      BY <1>4 DEF Empty
    <2>2. Content(fb) = fb.file.data
      BY <1>4, <2>1, ContentType
    <2>3. fb.file.data = d
      BY <1>3 DEF NewFile
    <2> QED
      BY <2>2, <2>3
  <1>7. Position(fb) = 0
    <2>1. Unread(fb) = 0 /\ fb.file.pos = 0
      BY <1>3 DEF Unread, NoGet, NewFile
    <2>2. Pending(fb) = 0
      BY <1>4 DEF Empty
    <2> QED
      BY <2>1, <2>2 DEF Position
  <1>8. PutBack(fb) = NoPutBack
    BY <1>3 DEF PutBack, NoGet, NoPutBack
  <1> QED
    BY <1>3, <1>5, <1>6, <1>7, <1>8 DEF Abstract!Init, NoPutBack

LEMMA NextRefines ==
    ASSUME RefInv, MaxErrs = 0, UngetDirect = FALSE, Next
    PROVE  Abstract!Next /\ RefInv'
  <1>0. Good(fb) /\ InPlace(fb) /\ Inv'
    BY NextInv DEF RefInv, Inv
  <1>1. CASE OpenFile
    <2>1. PICK m \in Modes, o \in Outcomes({"open", "end"}) :
              MayFail(o) /\ fb' = Open(Entry, m, o) /\ call' = "open"
      BY <1>1 DEF OpenFile
    <2>2. o.fault = "none" /\ o.wrote \in Nat
      BY <1>0, <2>1, Faultless, OutcomeType
    <2> DEFINE s == Open(Entry, m, o)
    <2>3. Abstract!Next /\ InPlace(s) /\ (s.ok => Empty(s))
      BY <1>0, <2>1, <2>2, OpenRefines
    <2>4. fb' = s
      BY <2>1
    <2> HIDE DEF s
    <2> QED
      BY <1>0, <2>3, <2>4, QuietStep
  <1>2. CASE CloseFile
    <2>1. PICK o \in Outcomes(SyncCalls \cup {"close"}) :
              MayFail(o) /\ fb' = Close(Entry, o) /\ call' = "close"
      BY <1>2 DEF CloseFile
    <2>2. o.fault = "none" /\ o.wrote \in Nat
      BY <1>0, <2>1, Faultless, OutcomeType
    <2>3. Abstract!Next /\ InPlace(Close(Entry, o))
      BY <1>0, <2>1, <2>2, CloseRefines
    <2> QED
      BY <1>0, <2>1, <2>3, BusyStep
  <1>3. CASE Pubsetbuf
    <2>1. PICK b \in UserBufs \cup {Null}, n \in Sizes :
              fb' = SetBuf(Entry, b, n) /\ call' = "pubsetbuf"
      BY <1>3 DEF Pubsetbuf
    <2>2. Empty(fb) /\ n \in Nat
      BY <1>3, SizesAssumption DEF Pubsetbuf, RefInv
    <2> DEFINE s == SetBuf(Entry, b, n)
    <2>3. Abstract!Next /\ InPlace(s) /\ Empty(s)
      BY <1>0, <2>1, <2>2, PubsetbufRefines
    <2>4. fb' = s
      BY <2>1
    <2> HIDE DEF s
    <2> QED
      BY <1>0, <2>3, <2>4, QuietStep
  <1>4. CASE Pubsync
    <2>1. PICK o \in Outcomes(SyncCalls) :
              MayFail(o) /\ fb' = Sync(Entry, o) /\ call' = "pubsync"
      BY <1>4 DEF Pubsync
    <2>2. o.fault = "none" /\ o.wrote \in Nat
      BY <1>0, <2>1, Faultless, OutcomeType
    <2> DEFINE s == Sync(Entry, o)
    <2>3. Abstract!Next /\ InPlace(s) /\ Empty(s)
      BY <1>0, <2>1, <2>2, PubsyncRefines
    <2>4. fb' = s
      BY <2>1
    <2> HIDE DEF s
    <2> QED
      BY <1>0, <2>3, <2>4, QuietStep
  <1>5. CASE Pubseekoff
    <2>1. PICK off \in Offsets, dir \in {"beg", "cur", "end"},
               o \in Outcomes(SyncCalls \cup {"position", "tell"}) :
              MayFail(o) /\ fb' = SeekOff(Entry, off, dir, o) /\ call' = "pubseekoff"
      BY <1>5 DEF Pubseekoff
    <2>2. o.fault = "none" /\ o.wrote \in Nat
      BY <1>0, <2>1, Faultless, OutcomeType
    <2> DEFINE s == SeekOff(Entry, off, dir, o)
    <2>3. Abstract!Next /\ InPlace(s) /\ (s.ok => Empty(s))
      BY <1>0, <2>1, <2>2, SeekRefines
    <2>4. fb' = s
      BY <2>1
    <2> HIDE DEF s
    <2> QED
      BY <1>0, <2>3, <2>4, QuietStep
  <1>6. CASE Sgetc
    <2>1. PICK o \in Outcomes({"write"}) :
              MayFail(o) /\ fb' = PeekChar(Entry, o) /\ call' = "sgetc"
      BY <1>6 DEF Sgetc, Reads
    <2>2. o.fault = "none" /\ o.wrote \in Nat
      BY <1>0, <2>1, Faultless, OutcomeType
    <2>3. Abstract!Next /\ InPlace(PeekChar(Entry, o))
      BY <1>0, <2>1, <2>2, SgetcRefines
    <2> QED
      BY <1>0, <2>1, <2>3, BusyStep
  <1>7. CASE Sbumpc
    <2>1. PICK o \in Outcomes({"write"}) :
              MayFail(o) /\ fb' = BumpChar(Entry, o) /\ call' = "sbumpc"
      BY <1>7 DEF Sbumpc, Reads
    <2>2. o.fault = "none" /\ o.wrote \in Nat
      BY <1>0, <2>1, Faultless, OutcomeType
    <2>3. Abstract!Next /\ InPlace(BumpChar(Entry, o))
      BY <1>0, <2>1, <2>2, SbumpcRefines
    <2> QED
      BY <1>0, <2>1, <2>3, BusyStep
  <1>8. CASE Sgetn
    <2>1. PICK n \in Counts, o \in Outcomes({"write"}) :
              MayFail(o) /\ fb' = Xsgetn(Entry, n, o) /\ call' = "sgetn"
      BY <1>8 DEF Sgetn, Reads
    <2>2. o.fault = "none" /\ o.wrote \in Nat
      BY <1>0, <2>1, Faultless, OutcomeType
    <2>3. Abstract!Next /\ InPlace(Xsgetn(Entry, n, o))
      BY <1>0, <2>1, <2>2, SgetnRefines
    <2> QED
      BY <1>0, <2>1, <2>3, BusyStep
  <1>9. CASE Sungetc
    <2>1. ~fb.get.stale /\ fb' = PbackFail(Entry, <<>>) /\ call' = "sungetc"
      BY <1>9 DEF Sungetc, MayUnget
    <2>2. <<>> \in OneChar
      BY OneCharType
    <2>3. Abstract!Next /\ InPlace(PbackFail(Entry, <<>>))
      BY <1>0, <2>1, <2>2, UngetRefines
    <2> QED
      BY <1>0, <2>1, <2>3, BusyStep
  <1>10. CASE Sputbackc
    <2>1. ~fb.get.stale /\ call' = "sputbackc"
      BY <1>10 DEF Sputbackc, MayUnget
    <2>2. PICK c \in Chars : fb' = PbackFail(Entry, <<c>>)
      BY <1>10 DEF Sputbackc
    <2>3. <<c>> \in OneChar
      BY OneCharType
    <2> DEFINE w == <<c>>
    <2>4. w \in OneChar /\ fb' = PbackFail(Entry, w)
      BY <2>2, <2>3
    <2> HIDE DEF w
    <2>5. Abstract!Next /\ InPlace(PbackFail(Entry, w))
      BY <1>0, <2>1, <2>4, UngetRefines
    <2> QED
      BY <1>0, <2>1, <2>4, <2>5, BusyStep
  <1>11. CASE Sputc
    <2>1. PICK c \in Chars, o \in Outcomes(OutputCalls) :
              MayFail(o) /\ fb' = PutChar(Entry, c, o) /\ call' = "sputc"
      BY <1>11 DEF Sputc, Writes
    <2>2. o.fault = "none" /\ o.wrote \in Nat
      BY <1>0, <2>1, Faultless, OutcomeType
    <2>3. Abstract!Next /\ InPlace(PutChar(Entry, c, o))
      BY <1>0, <2>1, <2>2, SputcRefines
    <2> QED
      BY <1>0, <2>1, <2>3, BusyStep
  <1>12. CASE Sputn
    <2>1. PICK w \in Strings, o \in Outcomes(OutputCalls) :
              MayFail(o) /\ fb' = Xsputn(Entry, w, o) /\ call' = "sputn"
      BY <1>12 DEF Sputn, Writes
    <2>2. o.fault = "none" /\ o.wrote \in Nat
      BY <1>0, <2>1, Faultless, OutcomeType
    <2>3. Abstract!Next /\ InPlace(Xsputn(Entry, w, o))
      BY <1>0, <2>1, <2>2, SputnRefines
    <2> QED
      BY <1>0, <2>1, <2>3, BusyStep
  <1> QED
    BY <1>1, <1>2, <1>3, <1>4, <1>5, <1>6, <1>7, <1>8, <1>9, <1>10, <1>11, <1>12 DEF Next

LEMMA StutterRefines ==
    ASSUME RefInv, UNCHANGED vars
    PROVE  UNCHANGED Abstract!vars /\ RefInv'
  <1>1. fb' = fb /\ call' = call
    BY DEF vars
  <1>2. Inv'
    BY NextInv DEF RefInv
  <1>3. InPlace(fb)' /\ (Empty(fb) => Empty(fb)')
    BY <1>1, StepRefInv DEF RefInv
  <1>4. Settled' = Settled
    BY <1>1 DEF Settled
  <1>5. RefInv'
    BY <1>2, <1>3, <1>4 DEF RefInv
  <1>6. /\ Content(fb)' = Content(fb) /\ Position(fb)' = Position(fb)
        /\ PutBack(fb)' = PutBack(fb) /\ fb.isOpen' = fb.isOpen /\ fb.mode' = fb.mode
        /\ fb.got' = fb.got /\ fb.ok' = fb.ok
    BY <1>1, ViewStep
  <1> QED
    BY <1>1, <1>5, <1>6 DEF Abstract!vars, Abstract!file

\* Whatever the sizes of the buffers, the open modes, the pieces in which the caller reads and
\* writes and the order of its calls: while no C call fails, and unless the caller ungets right
\* after a bulk read (which moves the C stream away from the get area), every step of the filebuf
\* is a step of a file with one position, or changes nothing the caller could notice.
THEOREM BufferingIsInvisible ==
    ASSUME MaxErrs = 0, UngetDirect = FALSE
    PROVE  Spec => ImplementsSeekableFile
  <1>1. Init => RefInv /\ Abstract!Init
    BY InitRefines
  <1>2. RefInv /\ [Next]_vars => [Abstract!Next]_(Abstract!vars) /\ RefInv'
    BY NextRefines, StutterRefines
  <1> QED
    BY <1>1, <1>2, PTL DEF Spec, ImplementsSeekableFile, Abstract!Spec
=============================================================================
