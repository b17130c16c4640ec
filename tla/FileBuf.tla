------------------------------ MODULE FileBuf ------------------------------
(***************************************************************************)
(* One basic_filebuf<char> (module FileBufObject) driven through the       *)
(* public interface of std::streambuf by one caller: an action applies one *)
(* member function as the caller's call does.                              *)
(***************************************************************************)
EXTENDS FileBufObject

CONSTANTS Sizes,              \* buffer sizes passed to pubsetbuf
          Modes,              \* open modes the caller uses
          Contents,           \* what the file may hold at first
          Strings,            \* what the caller writes with sputn
          Counts,             \* how much the caller reads with sgetn
          Offsets,            \* offsets the caller passes to pubseekoff
          MaxLen, MaxErrs,    \* bounds on the file length and on failing calls
          Disciplined,        \* the caller positions between input and output
          UngetDirect         \* the caller may unget after a bulk read

ASSUME SizesAssumption == Sizes \subseteq Nat
ASSUME DataAssumption ==
    /\ Contents \subseteq Seq(Chars) /\ Strings \subseteq Seq(Chars)
    /\ Counts \subseteq Nat /\ Offsets \subseteq Int
    /\ MaxLen \in Nat /\ MaxErrs \in Nat
    /\ Disciplined \in BOOLEAN /\ UngetDirect \in BOOLEAN
ASSUME ModesAssumption == Modes \subseteq SUBSET Flags

VARIABLES fb,     \* the filebuf
          phase,  \* what the caller has been doing since it last positioned
          call    \* the call that just returned, and its result
vars == <<fb, phase, call>>
----------------------------------------------------------------------------
\* The caller.

Init ==
    /\ \E d \in Contents : fb = NewFileBuf(NewFile(d))
    /\ phase = "free"
    /\ call = "none"

\* What a call starts from: nothing handed out yet.
Entry == [fb EXCEPT !.got = <<>>]

\* Environment assumption: C calls fail at most MaxErrs times.
MayFail(o) == o.fault = "none" \/ fb.file.errs < MaxErrs

\* With Disciplined, the caller keeps the rule std::filebuf and C have for files open in
\* both directions: between output and input comes a seek or a flush, between input and
\* output a seek or the end of the file.
MayRead == Disciplined => phase # "writing" \/ ~CanRead(fb)
MayWrite == Disciplined => phase # "reading" \/ ~CanWrite(fb)

\* State bound: neither the file nor the position in it goes beyond MaxLen.
Fits(s) == Len(Content(s)) <= MaxLen /\ s.file.pos <= MaxLen

Reads(name, s) ==
    /\ MayRead
    /\ fb' = s
    /\ phase' = IF ~CanRead(fb) THEN phase ELSE IF s.ok THEN "reading" ELSE "free"
    /\ call' = name

Writes(name, s) ==
    /\ MayWrite
    /\ Fits(s)
    /\ fb' = s
    /\ phase' = IF CanWrite(fb) THEN "writing" ELSE phase
    /\ call' = name

Sgetc == \E o \in Outcomes({"write"}) : MayFail(o) /\ Reads("sgetc", PeekChar(Entry, o))
Sbumpc == \E o \in Outcomes({"write"}) : MayFail(o) /\ Reads("sbumpc", BumpChar(Entry, o))
Sgetn == \E n \in Counts, o \in Outcomes({"write"}) :
             MayFail(o) /\ Reads("sgetn", Xsgetn(Entry, n, o))

OutputCalls == {"seek", "write", "direct"}

Sputc == \E c \in Chars, o \in Outcomes(OutputCalls) :
             MayFail(o) /\ Writes("sputc", PutChar(Entry, c, o))
Sputn == \E w \in Strings, o \in Outcomes(OutputCalls) :
             MayFail(o) /\ Writes("sputn", Xsputn(Entry, w, o))

\* Assumption on the caller: without UngetDirect it does not unget right after a bulk read.
MayUnget == fb.get.stale => UngetDirect

Sungetc ==
    /\ MayUnget
    /\ fb' = PbackFail(Entry, <<>>)
    /\ call' = "sungetc"
    /\ UNCHANGED phase

Sputbackc ==
    /\ MayUnget
    /\ \E c \in Chars : fb' = PbackFail(Entry, <<c>>)
    /\ call' = "sputbackc"
    /\ UNCHANGED phase

SyncCalls == {"seek", "write", "flush"}

Pubsync == \E o \in Outcomes(SyncCalls) :
    /\ MayFail(o)
    /\ fb' = Sync(Entry, o)
    /\ phase' = IF phase = "writing" /\ fb'.ok THEN "free" ELSE phase
    /\ call' = "pubsync"

Pubseekoff == \E off \in Offsets, dir \in {"beg", "cur", "end"},
                o \in Outcomes(SyncCalls \cup {"position", "tell"}) :
    /\ MayFail(o)
    /\ fb' = SeekOff(Entry, off, dir, o)
    /\ Fits(fb')
    /\ phase' = IF fb'.ok THEN "free" ELSE phase
    /\ call' = "pubseekoff"

OpenFile == \E m \in Modes, o \in Outcomes({"open", "end"}) :
    /\ MayFail(o)
    /\ fb' = Open(Entry, m, o)
    /\ phase' = IF fb'.ok THEN "free" ELSE phase
    /\ call' = "open"

CloseFile == \E o \in Outcomes(SyncCalls \cup {"close"}) :
    /\ MayFail(o)
    /\ fb' = Close(Entry, o)
    /\ phase' = "free"
    /\ call' = "close"

\* "Users should call sync() before": setbuf discards both areas.
Settled == ~fb.isOpen \/ (fb.ok /\ call \in {"pubsync", "pubseekoff", "open", "pubsetbuf"})

Pubsetbuf == \E b \in UserBufs \cup {Null}, n \in Sizes :
    /\ Settled
    /\ fb' = SetBuf(Entry, b, n)
    /\ call' = "pubsetbuf"
    /\ UNCHANGED phase

Next == \/ OpenFile \/ CloseFile \/ Pubsetbuf \/ Pubsync \/ Pubseekoff
        \/ Sgetc \/ Sbumpc \/ Sgetn \/ Sungetc \/ Sputbackc
        \/ Sputc \/ Sputn

Spec == Init /\ [][Next]_vars
----------------------------------------------------------------------------
\* Properties.

\* Types: every member of the filebuf has the type its declaration gives it.
TypeOK ==
    /\ fb \in FileBufs
    /\ phase \in {"free", "reading", "writing"}
    /\ call \in {"none", "open", "close", "pubsetbuf", "pubsync", "pubseekoff", "sgetc",
                 "sbumpc", "sgetn", "sungetc", "sputbackc", "sputc", "sputn"}

\* Memory: over any sequence of calls, with any C call failing, each area lies inside a
\* live block and inside its bounds, the areas never coexist, the block from new[] is
\* released exactly once, a text file is read unbuffered, and a closed filebuf keeps
\* nothing (open, close, setbuf,
\* make_buffer, stop_reading, stop_writing, overflow, underflow, xsputn).
MemorySafety == MemorySafe(fb)

\* What is unread in the get area is what the file holds just before the position of the C
\* stream, except where a putback changed it: "we are required to know the (file) position of
\* each char in the get area and to seek back in case of a sync".  So seeking back over it lands
\* on the character the caller reads next (stop_reading).  It holds for a caller that does not
\* unget right after a bulk read that went around the get area, UngetDirect = FALSE: xsgetn
\* leaves the old area behind, and what is ungot into it lies elsewhere in the file.
GetMirrorsFile ==
    \A i \in (fb.get.idx + 1)..Len(fb.get.chars) :
        LET at == fb.file.pos - Len(fb.get.chars) + i
        IN  /\ at \in 1..Len(fb.file.data)
            /\ i \notin fb.get.mod => fb.get.chars[i] = fb.file.data[at]

\* C's rule for update streams: if the caller positions between output and input as
\* std::filebuf demands, the filebuf never makes the C stream read right after a write or
\* write right after a read, however its own buffering splits the calls (seekoff, sync,
\* stop_reading, the test in test_filebuf.cpp "subSwitchReadWrite").
StdioContract == Disciplined /\ fb.file.errs = 0 => ~fb.file.misused

\* After a sync, seek or close that succeeded, nothing written waits in the put area or in
\* the C stream's buffer (sync, its has_prev_write flag and last_char_ as a marker).
SyncMakesDurable ==
    Disciplined /\ fb.file.errs = 0 /\ fb.ok /\ call \in {"pubsync", "pubseekoff", "close"} =>
        Pending(fb) = 0 /\ fb.file.flushed

\* A call during which a C call failed reports failure itself: no error is swallowed (sync,
\* overflow, xsputn, stop_reading, stop_writing, close, open with ate).
ErrorsReported == [][fb'.file.errs > fb.file.errs => ~fb'.ok]_vars

\* The refinement mapping: the caller's view of the file.
Abstract == INSTANCE SeekableFile WITH
    open <- fb.isOpen, mode <- fb.mode, content <- Content(fb), position <- Position(fb),
    putBack <- PutBack(fb), call <- call, got <- fb.got, ok <- fb.ok

\* Buffering is invisible: while no C call fails, every call of the filebuf does to the file,
\* to the position and to the caller what SeekableFile's does, through every switch between
\* reading and writing, buffered, unbuffered and direct transfers, and changes of buffer.
ImplementsSeekableFile == Abstract!Spec
=============================================================================
