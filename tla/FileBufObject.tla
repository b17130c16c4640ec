--------------------------- MODULE FileBufObject ---------------------------
(***************************************************************************)
(* basic_filebuf<char> of include/boost/nowide/filebuf.hpp as an object:   *)
(* one stream buffer over one C stream.                                    *)
(*                                                                         *)
(* Its state is a record:                                                  *)
(*   isOpen      file_ # nullptr                                           *)
(*   mode        mode_, a set of openmode flags                            *)
(*   mem         buffer_: Null, Heap or one of the caller's buffers        *)
(*   size        buffer_size_                                              *)
(*   owned       owns_buffer_                                              *)
(*   unbuffered  unbuffered_read_                                          *)
(*   get         the get area: the block it lies in, its characters, how   *)
(*               many of them gptr has passed, which of them a putback has *)
(*               changed, and whether the stream was read past it since    *)
(*   put         the put area: the block it lies in, the offset of pbase   *)
(*               in it, the characters between pbase and pptr, and the     *)
(*               room between pptr and epptr                               *)
(*   allocs      blocks from new[] not yet given to delete[]               *)
(*   file        the C stream (module CFile)                               *)
(*   ok          whether the innermost function that ran succeeded         *)
(*   got         the characters handed to the caller by the current call   *)
(*                                                                         *)
(* Each member function is an operator from such a record to such a        *)
(* record.  The last argument of most is the outcome o of the C calls      *)
(* made: o.fault names the call that fails, o.wrote the bytes a failing    *)
(* write accepts.                                                          *)
(***************************************************************************)
EXTENDS CFile, FiniteSets

CONSTANTS Null, Last, Heap,   \* no block, last_char_, the block from new[]
          UserBufs,           \* blocks a caller may pass to pubsetbuf
          BufSiz,             \* BUFSIZ, the initial buffer size
          MaxPartial          \* bound on the bytes a failing write accepts

ASSUME BlocksAssumption ==
    /\ Null # Last /\ Null # Heap /\ Last # Heap
    /\ {Null, Last, Heap} \cap UserBufs = {}
ASSUME SizeAssumption == BufSiz \in Nat
ASSUME PartialAssumption == MaxPartial \in Nat

Flags == {"in", "out", "app", "trunc", "binary", "ate"}

\* The outcomes of a call that makes the C calls F: all of them succeed or one fails.
Outcomes(F) == [fault : F \cup {"none"}, wrote : {0}]
               \cup [fault : F \cap {"write", "direct"}, wrote : 1..MaxPartial]
----------------------------------------------------------------------------
\* The get and put areas.

NoGet == [at |-> Null, chars |-> <<>>, idx |-> 0, mod |-> {}, stale |-> FALSE]
NoPut == [at |-> Null, off |-> 0, chars |-> <<>>, room |-> 0]

\* setg(b, b, b + Len(w)) over a block that holds w.
GetArea(b, w) == [at |-> b, chars |-> w, idx |-> 0, mod |-> {}, stale |-> FALSE]
\* setp(b, b + n)
PutArea(b, n) == [at |-> b, off |-> 0, chars |-> <<>>, room |-> n]
\* setp(last_char_, last_char_): empty, but not null.
Marker == PutArea(Last, 0)

HasGet(s) == s.get.at # Null                 \* gptr()
HasPut(s) == s.put.at # Null                 \* pptr()
Unread(s) == Len(s.get.chars) - s.get.idx    \* egptr() - gptr()
Pending(s) == Len(s.put.chars)               \* pptr() - pbase()

\* Mutant: only pending characters count as written, so last_char_ as a marker does not.
HasPrevWrite_OnlyPending(s) == Pending(s) > 0

\* Whether pptr has left the start of buffer_: something was written, if HasPut(s).
HasPrevWrite(s) == ~(s.put.at = s.mem /\ s.put.off + Pending(s) = 0)

CanRead(s) == "in" \in s.mode
CanWrite(s) == "out" \in s.mode \/ "app" \in s.mode
AppendMode(s) == "app" \in s.mode

Result(s, b) == [s EXCEPT !.ok = b]

\* The bytes of w the C library takes when the write may be the one that fails.
Accepted(w, o, fault) ==
    IF o.fault = fault THEN Least(o.wrote, Len(w) - 1) ELSE Len(w)
----------------------------------------------------------------------------
\* Private helpers.

\* make_buffer
MakeBuffer(s) ==
    IF s.mem # Null \/ s.size = 0
    THEN s
    ELSE [s EXCEPT !.mem = Heap, !.owned = TRUE, !.allocs = @ + 1]

\* set_unbuffered_read
SetUnbufferedRead(s) ==
    [s EXCEPT !.unbuffered = "binary" \notin s.mode \/ s.size = 0]

\* Mutant: delete[] without clearing owns_buffer_.
FreeOwned_StillOwned(s) ==
    IF s.owned THEN [s EXCEPT !.mem = Null, !.allocs = @ - 1] ELSE s

\* if(owns_buffer_) delete[] buffer_
FreeOwned(s) ==
    IF s.owned THEN [s EXCEPT !.mem = Null, !.owned = FALSE, !.allocs = @ - 1] ELSE s

\* Mutant: the unread characters are dropped without seeking back over them.
StopReading_NoSeek(s, o) == [s EXCEPT !.get = NoGet, !.ok = TRUE]

\* stop_reading: forget the get area and seek back over what was not read.
StopReading(s, o) ==
    IF ~HasGet(s) \/ Unread(s) = 0
    THEN [s EXCEPT !.get = NoGet, !.ok = TRUE]
    ELSE LET back == s.file.pos - Unread(s)
         IN [s EXCEPT !.get = NoGet,
                      !.file = FSeek(@, back, o.fault = "seek"),
                      !.ok = SeekWorks(back, o.fault = "seek")]

\* stop_writing: forget the put area and hand its characters to the C stream.
StopWriting(s, o) ==
    LET w == s.put.chars
        k == Accepted(w, o, "write")
    IN IF w = <<>>
       THEN [s EXCEPT !.put = NoPut, !.ok = TRUE]
       ELSE [s EXCEPT !.put = NoPut,
                      !.file = FWrite(@, w, k, AppendMode(s)),
                      !.ok = k = Len(w)]
----------------------------------------------------------------------------
\* Output: overflow, xsputn.  A character c to store is a sequence: <<>> is EOF.

\* setp(buffer_, buffer_ + buffer_size_), then store c and bump.
Restart(s, c) ==
    [s EXCEPT !.put = [at |-> s.mem, off |-> 0, chars |-> c, room |-> s.size - Len(c)],
              !.ok = TRUE]

\* overflow with characters pending: they stay pending when fwrite fails.
FlushAndStore(s, c, o) ==
    LET w == s.put.chars
        k == Accepted(w, o, "write")
        t == [s EXCEPT !.file = FWrite(@, w, k, AppendMode(s))]
    IN IF k < Len(w) THEN Result(t, FALSE) ELSE Restart(t, c)

\* overflow without a buffer: fputc, and mark the put area as used.
PutUnbuffered(s, c, o) ==
    LET k == Accepted(c, o, "direct")
    IN [s EXCEPT !.file = FWrite(@, c, k, AppendMode(s)),
                 !.put = IF k = Len(c) /\ ~HasPut(s) THEN Marker ELSE @,
                 !.ok = k = Len(c)]

\* overflow once the get area is gone.
StoreOrFlush(s, c, o) ==
    IF Pending(s) > 0 THEN FlushAndStore(s, c, o)
    ELSE IF c = <<>> THEN Result(s, TRUE)
    ELSE IF s.size > 0 THEN Restart(MakeBuffer(s), c)
    ELSE PutUnbuffered(s, c, o)

Overflow(s, c, o) ==
    LET t == StopReading(s, o)
    IN IF ~CanWrite(s) THEN Result(s, FALSE)
       ELSE IF ~t.ok THEN t
       ELSE StoreOrFlush(t, c, o)

\* streambuf::sputc: store if there is room.
Store(s, w) ==
    [s EXCEPT !.put.chars = @ \o w, !.put.room = @ - Len(w), !.ok = TRUE]

PutChar(s, c, o) ==
    IF s.put.room > 0 THEN Store(s, <<c>>) ELSE Overflow(s, <<c>>, o)

\* streambuf::xsputn for at most a buffer full: one overflow makes room for the rest.
PutSmall(s, w, o) ==
    LET r == Least(s.put.room, Len(w))
        t == Store(s, SubSeq(w, 1, r))
        u == Overflow(t, <<w[r + 1]>>, o)
    IN IF r = Len(w) THEN t
       ELSE IF ~u.ok THEN u
       ELSE Store(u, SubSeq(w, r + 2, Len(w)))

\* First half of the bulk xsputn: empty the put area.  What fwrite refused is dropped.
DrainPut(s, o) ==
    LET w == s.put.chars
        k == Accepted(w, o, "write")
    IN IF w = <<>> THEN Result(s, TRUE)
       ELSE [s EXCEPT !.file = FWrite(@, w, k, AppendMode(s)),
                      !.put.off = @ + k,
                      !.put.chars = <<>>,
                      !.put.room = @ + Len(w) - k,
                      !.ok = k = Len(w)]

\* Second half: write past the buffer, and mark the put area as used.
WriteThrough(s, w, o) ==
    LET k == Accepted(w, o, "direct")
    IN [s EXCEPT !.file = FWrite(@, w, k, AppendMode(s)),
                 !.put = IF k > 0 /\ @.at # Last THEN Marker ELSE @,
                 !.ok = k = Len(w)]

PutDirect(s, w, o) ==
    LET t == StopReading(s, o)
        u == DrainPut(t, o)
    IN IF ~CanWrite(s) THEN Result(s, FALSE)
       ELSE IF ~t.ok THEN t
       ELSE IF ~u.ok THEN u
       ELSE WriteThrough(u, w, o)

Xsputn(s, w, o) == IF Len(w) <= s.size THEN PutSmall(s, w, o) ELSE PutDirect(s, w, o)
----------------------------------------------------------------------------
\* Input: underflow, xsgetn, pbackfail.

\* fgetc into last_char_; the get area stays as it was at the end of the file.
FillLast(s) ==
    LET w == BytesRead(s.file, 1)
    IN [s EXCEPT !.file = FRead(@, 1),
                 !.get = IF w = <<>> THEN @ ELSE GetArea(Last, w),
                 !.ok = w # <<>>]

\* fread into buffer_; the get area is empty at the end of the file.
FillBuffer(s) ==
    LET w == BytesRead(s.file, s.size)
    IN [s EXCEPT !.file = FRead(@, s.size), !.get = GetArea(s.mem, w), !.ok = w # <<>>]

Underflow(s, o) ==
    LET t == StopWriting(s, o)
    IN IF ~CanRead(s) THEN Result(s, FALSE)
       ELSE IF ~t.ok THEN t
       ELSE IF s.unbuffered THEN FillLast(t)
       ELSE FillBuffer(MakeBuffer(t))

\* Hand the next n characters of the get area to the caller.
Take(s, n) ==
    [s EXCEPT !.got = @ \o SubSeq(s.get.chars, s.get.idx + 1, s.get.idx + n),
              !.get.idx = @ + n, !.ok = TRUE]

TakeUpTo(s, n) == Take(s, Least(n, Unread(s)))

\* streambuf::sgetc and sbumpc.
Refill(s, o) == IF Unread(s) > 0 THEN Result(s, TRUE) ELSE Underflow(s, o)

PeekChar(s, o) ==
    LET t == Refill(s, o) IN IF t.ok THEN [t EXCEPT !.got = <<t.get.chars[t.get.idx + 1]>>] ELSE t

BumpChar(s, o) ==
    LET t == Refill(s, o) IN IF t.ok THEN Take(t, 1) ELSE t

\* streambuf::xsgetn for at most a buffer full: one refill, and one more that meets the end.
GetSmall(s, n, o) ==
    LET t == TakeUpTo(s, n)
        u == Underflow(t, o)
        v == TakeUpTo(u, n - Len(t.got))
    IN IF Len(t.got) = n THEN t
       ELSE IF ~u.ok THEN u
       ELSE IF Len(v.got) = n THEN v
       ELSE Underflow(v, o)

\* The bulk xsgetn: empty the get area, then fread to the caller until the end of the file.
ReadThrough(s, n) ==
    LET w == BytesRead(s.file, n)
    IN [s EXCEPT !.file = FRead(@, n),
                 !.got = @ \o w,
                 !.get.stale = @ \/ (HasGet(s) /\ w # <<>>),
                 !.ok = Len(w) = n]

GetDirect(s, n, o) ==
    LET t == StopWriting(s, o)
        u == TakeUpTo(t, n)
    IN IF ~CanRead(s) THEN Result(s, FALSE)
       ELSE IF ~t.ok \/ Len(u.got) = n THEN [u EXCEPT !.ok = t.ok]
       ELSE ReadThrough(u, n - Len(u.got))

Xsgetn(s, n, o) ==
    IF n <= (IF s.unbuffered THEN 1 ELSE s.size) THEN GetSmall(s, n, o) ELSE GetDirect(s, n, o)

\* streambuf::sungetc (c = <<>>) and sputbackc, with pbackfail: only into the get area.
PbackFail(s, c) ==
    LET i == s.get.idx
    IN IF i = 0 THEN Result(s, FALSE)
       ELSE IF c = <<>> \/ c = <<s.get.chars[i]>>
       THEN [s EXCEPT !.get.idx = i - 1, !.got = <<s.get.chars[i]>>, !.ok = TRUE]
       ELSE [s EXCEPT !.get.idx = i - 1, !.get.chars[i] = c[1], !.get.mod = @ \cup {i},
                      !.got = c, !.ok = TRUE]
----------------------------------------------------------------------------
\* sync, seekoff, open, close, setbuf.

\* Mutant: the result of fflush replaces that of overflow.
Flush_ForgetsOverflow(s, o) ==
    [s EXCEPT !.file = FFlush(@, o.fault = "flush"), !.ok = o.fault # "flush"]

Flush(s, o) ==
    [s EXCEPT !.file = FFlush(@, o.fault = "flush"), !.ok = @ /\ o.fault # "flush"]

SyncPut(s, o) ==
    LET t == Overflow(s, <<>>, o) IN IF HasPrevWrite(s) THEN Flush(t, o) ELSE t

Sync(s, o) ==
    IF ~s.isOpen THEN Result(s, TRUE)
    ELSE IF HasPut(s) THEN SyncPut(s, o)
    ELSE StopReading(s, o)

Base(s, dir) ==
    CASE dir = "beg" -> 0 [] dir = "cur" -> s.file.pos [] dir = "end" -> Len(s.file.data)

\* fseek, then ftell, with nothing left in the areas.
Reposition(s, p, o) ==
    IF SeekWorks(p, o.fault = "position")
    THEN [s EXCEPT !.file = FTell(FSeek(@, p, FALSE), o.fault = "tell"), !.ok = o.fault # "tell"]
    ELSE [s EXCEPT !.file = FSeek(@, p, o.fault = "position"), !.ok = FALSE]

\* Mutant: seekoff(0, cur) as a no-op.
SeekOff_NoOp(s, off, dir, o) ==
    LET t == Sync(s, o)
    IN IF ~s.isOpen THEN Result(s, FALSE)
       ELSE IF off = 0 /\ dir = "cur" THEN Result(s, TRUE)
       ELSE IF ~t.ok THEN t
       ELSE Reposition(t, Base(t, dir) + off, o)

\* Mutant: seekoff without sync.
SeekOff_NoSync(s, off, dir, o) ==
    IF ~s.isOpen THEN Result(s, FALSE) ELSE Reposition(s, Base(s, dir) + off, o)

SeekOff(s, off, dir, o) ==
    LET t == Sync(s, o)
    IN IF ~s.isOpen THEN Result(s, FALSE)
       ELSE IF ~t.ok THEN t
       ELSE Reposition(t, Base(t, dir) + off, o)

\* get_mode: the C mode of a set of flags, "none" when the flags do not combine.
GetMode(m) ==
    LET f == m \ {"binary", "ate"}
    IN CASE f \in {{"out"}, {"out", "trunc"}} -> "w"
         [] f \in {{"app"}, {"out", "app"}} -> "a"
         [] f = {"in"} -> "r"
         [] f = {"in", "out"} -> "r+"
         [] f = {"in", "out", "trunc"} -> "w+"
         [] f \in {{"in", "app"}, {"in", "out", "app"}} -> "a+"
         [] OTHER -> "none"

\* Mutant: the put area is not reset.
NoAreas_KeepsPut(s) == [s EXCEPT !.get = NoGet]

NoAreas(s) == [s EXCEPT !.get = NoGet, !.put = NoPut]

Close(s, o) ==
    LET t == Sync(s, o)
        u == [t EXCEPT !.file = FClose(@, o.fault = "close"),
                       !.ok = @ /\ o.fault # "close",
                       !.isOpen = FALSE, !.mode = {}]
    IN IF ~s.isOpen THEN Result(s, FALSE) ELSE NoAreas(FreeOwned(u))

\* open once fopen has succeeded: ate seeks to the end, or closes again.
Opened(s, m, o) ==
    LET f == FOpen(s.file, GetMode(m) \in {"w", "w+"})
        e == IF "ate" \in m THEN FSeek(f, Len(f.data), o.fault = "end") ELSE f
        t == [s EXCEPT !.isOpen = TRUE, !.file = e]
    IN IF "ate" \in m /\ o.fault = "end"
       THEN Result(Close(t, o), FALSE)
       ELSE SetUnbufferedRead([t EXCEPT !.mode = m \ {"ate"}, !.ok = TRUE])

Open(s, m, o) ==
    IF s.isOpen \/ GetMode(m) = "none" THEN Result(s, FALSE)
    ELSE IF o.fault = "open" THEN [s EXCEPT !.file.errs = @ + 1, !.ok = FALSE]
    ELSE Opened(s, m, o)

SetBuf(s, b, n) ==
    LET t == FreeOwned(NoAreas(s))
    IN SetUnbufferedRead([t EXCEPT !.mem = b, !.size = n, !.ok = TRUE])

\* basic_filebuf(): file is the C stream it may be given later.
NewFileBuf(file) ==
    [isOpen |-> FALSE, mode |-> {}, mem |-> Null, size |-> BufSiz, owned |-> FALSE,
     unbuffered |-> FALSE, get |-> NoGet, put |-> NoPut, allocs |-> 0, ok |-> TRUE,
     got |-> <<>>, file |-> file]

\* A C stream that has not been used, on a file that holds d.
NewFile(d) ==
    [data |-> d, pos |-> 0, op |-> "none", flushed |-> TRUE, errs |-> 0, misused |-> FALSE]
----------------------------------------------------------------------------
\* The object as its caller sees it.

\* The file as the caller sees it: with the pending characters written.
Content(s) == Overwrite(s.file.data, WritePos(s.file, AppendMode(s)), s.put.chars)

\* Where the caller's next character is read or written.
Position(s) == IF Pending(s) > 0 THEN WritePos(s.file, AppendMode(s)) + Pending(s)
               ELSE s.file.pos - Unread(s)

\* The characters put back, at their positions in the file.
PutBack(s) ==
    LET base == s.file.pos - Len(s.get.chars)
    IN IF s.get.stale THEN [p \in {} |-> Hole]
       ELSE [p \in {base + i - 1 : i \in s.get.mod} |-> s.get.chars[p - base + 1]]

----------------------------------------------------------------------------
\* Types, and the memory of the object.

\* The types of the areas and of the filebuf.
GetAreas == [at : UserBufs \cup {Null, Last, Heap}, chars : Seq(Chars), idx : Nat,
             mod : SUBSET Nat, stale : BOOLEAN]
PutAreas == [at : UserBufs \cup {Null, Last, Heap}, off : Nat, chars : Seq(Chars), room : Nat]
FileBufs == [isOpen : BOOLEAN, mode : SUBSET Flags,
             mem : UserBufs \cup {Null, Heap}, size : Nat, owned : BOOLEAN,
             unbuffered : BOOLEAN,
             get : GetAreas, put : PutAreas,
             allocs : Nat, ok : BOOLEAN, got : Seq(Chars), file : CFiles]

\* What every member function keeps about the memory of the object s.

\* A buffer is owned exactly when it is the block from new[], which is the only one live.
OwnsItsBlock(s) ==
    /\ s.owned <=> s.mem = Heap
    /\ s.allocs = IF s.owned THEN 1 ELSE 0

\* At most one of the two areas is set up.
OneArea(s) == ~(HasGet(s) /\ HasPut(s))

\* The get area lies in the current buffer, or in last_char_, and within its size.
GetInBlock(s) ==
    /\ s.get.at \in {Null, Last, s.mem}
    /\ s.get.at = Null => s.get = NoGet
    /\ s.get.idx <= Len(s.get.chars)
    /\ HasGet(s) => Len(s.get.chars) <= (IF s.get.at = Last THEN 1 ELSE s.size)

\* So does the put area; from pbase to epptr it never passes the end of the buffer.
PutInBlock(s) ==
    /\ s.put.at \in {Null, Last, s.mem}
    /\ s.put.at = Null => s.put = NoPut
    /\ s.put.at = Last => s.put = Marker
    /\ HasPut(s) /\ s.put.at # Last => s.put.off + Pending(s) + s.put.room = s.size

\* An area is set up only while the file is open in its direction.
AreasNeedFile(s) == (HasGet(s) => s.isOpen /\ CanRead(s)) /\ (HasPut(s) => s.isOpen /\ CanWrite(s))

\* Closed means: no mode, no areas, no block of its own.
ClosedIsClean(s) == ~s.isOpen => s.mode = {} /\ ~HasGet(s) /\ ~HasPut(s) /\ ~s.owned

\* Reads are buffered only in binary mode and with a buffer to read into.
BufferedIsBinary(s) == s.isOpen /\ ~s.unbuffered => "binary" \in s.mode /\ s.size > 0

MemorySafe(s) ==
    /\ OwnsItsBlock(s) /\ OneArea(s) /\ GetInBlock(s) /\ PutInBlock(s)
    /\ AreasNeedFile(s) /\ ClosedIsClean(s) /\ BufferedIsBinary(s)
=============================================================================
