------------------------------ MODULE FStreams -----------------------------
(***************************************************************************)
(* basic_ifstream, basic_ofstream and basic_fstream of                     *)
(* include/boost/nowide/fstream.hpp: streams that each hold a basic_filebuf*)
(* (module FileBufObject), are constructed, opened, closed and destroyed,  *)
(* and exchange what they hold by swap and move.                           *)
(*                                                                         *)
(* last_char_ lies in the object: seen from it, its own is Last, that of   *)
(* another object is Foreign.  Pointers to other blocks mean the same      *)
(* everywhere.  The operations of std::istream and std::ostream are        *)
(* external: they call the filebuf only while the stream is good, and turn *)
(* its failures into eofbit, failbit and badbit.                           *)
(***************************************************************************)
EXTENDS FileBufObject

CONSTANTS Objs,       \* the stream objects
          Names,      \* the file names
          Nobody,     \* no name
          Foreign,    \* the last_char_ of another object
          Kinds,      \* the classes of streams that occur
          ModesOf,    \* the openmodes the caller passes to each
          Contents,   \* what the files hold at first
          Strings,    \* what the caller writes
          UserSizes,  \* the buffers the caller provides, with their sizes
          MaxLen, MaxErrs    \* bounds on the file length and on failing calls

ASSUME ForeignAssumption == Foreign \notin {Null, Last, Heap} \cup UserBufs
ASSUME NamesAssumption == Nobody \notin Names
ASSUME KindsAssumption ==
    /\ Kinds \subseteq {"ifstream", "ofstream", "fstream"}
    /\ ModesOf \in [Kinds -> SUBSET SUBSET Flags]
ASSUME ContentsAssumption == Contents \subseteq [Names -> Seq(Chars)]
ASSUME StringsAssumption == Strings \subseteq Seq(Chars) \ {<<>>}
ASSUME UserSizesAssumption == 
    \E B \in SUBSET (UserBufs \cup {Null}) : UserSizes \in [B -> Nat]
ASSUME BoundsAssumption == MaxLen \in Nat /\ MaxErrs \in Nat

VARIABLES kind,     \* the class of all the streams
          obj,      \* the streams
          disk,     \* what the files hold that are not open
          faults    \* how many C calls have failed
vars == <<kind, obj, disk, faults>>

\* Mutant: the class adds nothing to the caller's mode.
Modifier_None(k) == {}

\* mode_modifier
Modifier(k) == CASE k = "ifstream" -> {"in"} [] k = "ofstream" -> {"out"} [] k = "fstream" -> {}

\* A stream: whether it is constructed, its filebuf, its rdstate, the name of the open file.
NewStream == [alive |-> TRUE, buf |-> NewFileBuf(NewFile(<<>>)), state |-> {}, name |-> Nobody]
NoStream == [NewStream EXCEPT !.alive = FALSE]

Init ==
    /\ kind \in Kinds
    /\ obj = [x \in Objs |-> NoStream]
    /\ disk \in Contents
    /\ faults = 0
----------------------------------------------------------------------------
\* swap and the moves of basic_filebuf.

\* Mutant: a put area in last_char_ is not mended.
Mended_NotPut(s) == IF s.get.at = Foreign THEN [s EXCEPT !.get.at = Last] ELSE s

\* Mutant: gptr is set to the beginning.
Mended_Rewinds(s) ==
    [s EXCEPT !.get = IF @.at = Foreign THEN [@ EXCEPT !.at = Last, !.idx = 0] ELSE @,
              !.put = IF @.at = Foreign THEN [@ EXCEPT !.at = Last] ELSE @]

\* The areas that lie in the other's last_char_ are set up again in the own one, whose
\* character has been exchanged.
Mended(s) ==
    [s EXCEPT !.get = IF @.at = Foreign THEN [@ EXCEPT !.at = Last] ELSE @,
              !.put = IF @.at = Foreign THEN [@ EXCEPT !.at = Last] ELSE @]

\* The members of s in another object.
Moved(s) ==
    [s EXCEPT !.get.at = IF @ = Last THEN Foreign ELSE @,
              !.put.at = IF @ = Last THEN Foreign ELSE @]

\* What a filebuf holds after a swap with one that held s.
Swapped(s) == Mended(Moved(s))

\* Mutant: the old file is given up as it is.
Assigned_NotClosed(s, o) == Swapped(NewFileBuf(NewFile(s.file.data)))

\* What the source of a move assignment gets from the target s: close, then swap.
Assigned(s, o) == Swapped(IF s.isOpen THEN Close(s, o) ELSE s)
----------------------------------------------------------------------------
\* The streams.

SyncCalls == {"seek", "write", "flush"}
CloseCalls == SyncCalls \cup {"close"}

Failed(s) == s.state # {}

Holders(n) == {x \in Objs : obj[x].name = n}

\* Environment assumption: C calls fail at most MaxErrs times.
MayFail(o) == o.fault = "none" \/ faults < MaxErrs

\* Assumption on the caller: no file is open twice.
Available(n) == Holders(n) = {}

\* State bound, as in FileBuf.
Fits(s) == Len(Content(s)) <= MaxLen /\ s.file.pos <= MaxLen

\* The filebuf s after a call: failures are counted in faults, and a file that was closed is gone.
Counted(s) ==
    IF s.isOpen THEN [s EXCEPT !.file.errs = 0, !.got = <<>>, !.ok = TRUE]
    ELSE [s EXCEPT !.file = NewFile(<<>>), !.got = <<>>, !.ok = TRUE]

\* The stream x holds the filebuf s after a call, with the bits of bits set if that failed.
Called(x, s, bits) ==
    [obj[x] EXCEPT !.buf = Counted(s),
                   !.state = IF s.ok THEN @ ELSE @ \cup bits,
                   !.name = IF s.isOpen THEN @ ELSE Nobody]

\* What closing the filebuf of x, which gives s, leaves in the files.
DiskAfter(x, s) ==
    IF obj[x].name # Nobody /\ ~s.isOpen THEN [disk EXCEPT ![obj[x].name] = s.file.data] ELSE disk

\* A call of x on its filebuf.
Calls(x, s, bits) ==
    /\ obj' = [obj EXCEPT ![x] = Called(x, s, bits)]
    /\ disk' = DiskAfter(x, s)
    /\ faults' = faults + s.file.errs
    /\ UNCHANGED kind

\* A constructor without a file.
Construct(x) ==
    /\ ~obj[x].alive
    /\ obj' = [obj EXCEPT ![x] = NewStream]
    /\ UNCHANGED <<kind, disk, faults>>

\* open of fstream_impl, where the filebuf has become s: an open file is cleared of errors.
OpenedStream(r, n, s) ==
    [r EXCEPT !.buf = Counted(s), !.name = IF s.ok THEN n ELSE @,
              !.state = IF s.ok THEN {} ELSE @ \cup {"fail"}]

\* The filebuf of the stream r once it has tried to open the file n.
TryOpen(r, n, m, o) ==
    LET given == IF r.buf.isOpen THEN r.buf ELSE [r.buf EXCEPT !.file.data = disk[n]]
    IN Open(given, m \cup Modifier(kind), o)

OpenAs(x, r) ==
    \E n \in Names, m \in ModesOf[kind], o \in Outcomes({"open", "end"}) :
        LET s == TryOpen(r, n, m, o)
        IN /\ Available(n) /\ MayFail(o)
           /\ obj' = [obj EXCEPT ![x] = OpenedStream(r, n, s)]
           /\ faults' = faults + s.file.errs
           /\ UNCHANGED <<kind, disk>>

\* A constructor with a file name.
ConstructOpen(x) == ~obj[x].alive /\ OpenAs(x, NewStream)

OpenFile(x) == obj[x].alive /\ OpenAs(x, obj[x])

\* Mutant: the result of close is ignored.
CloseFile_Quiet(x) ==
    /\ obj[x].alive
    /\ \E o \in Outcomes(CloseCalls) : MayFail(o) /\ Calls(x, Close(obj[x].buf, o), {})

CloseFile(x) ==
    /\ obj[x].alive
    /\ \E o \in Outcomes(CloseCalls) : MayFail(o) /\ Calls(x, Close(obj[x].buf, o), {"fail"})

\* ~basic_filebuf closes the file; nobody learns whether that works.
Destroy(x) ==
    /\ obj[x].alive
    /\ \E o \in Outcomes(CloseCalls) :
           LET s == Close(obj[x].buf, o)
           IN /\ MayFail(o)
              /\ disk' = DiskAfter(x, s)
              /\ faults' = faults + s.file.errs
    /\ obj' = [obj EXCEPT ![x] = NoStream]
    /\ UNCHANGED kind

\* swap: of the state and of what the filebufs hold.
Swap(x, y) ==
    /\ obj[x].alive /\ obj[y].alive /\ x # y
    /\ obj' = [obj EXCEPT ![x] = [obj[y] EXCEPT !.buf = Swapped(@)],
                          ![y] = [obj[x] EXCEPT !.buf = Swapped(@)]]
    /\ UNCHANGED <<kind, disk, faults>>

\* x = std::move(y): y gets the state of x, and its filebuf closed.
MoveAssign(x, y) ==
    /\ obj[x].alive /\ obj[y].alive /\ x # y
    /\ \E o \in Outcomes(CloseCalls) :
           LET s == Assigned(obj[x].buf, o)
           IN /\ MayFail(o)
              /\ obj' = [obj EXCEPT ![x] = [obj[y] EXCEPT !.buf = Swapped(@)],
                                    ![y] = [obj[x] EXCEPT !.buf = Counted(s),
                                                !.name = IF s.isOpen THEN @ ELSE Nobody]]
              /\ disk' = DiskAfter(x, s)
              /\ faults' = faults + s.file.errs
    /\ UNCHANGED kind

\* x(std::move(y)): y keeps its state and gets a new filebuf.
MoveConstruct(x, y) ==
    /\ ~obj[x].alive /\ obj[y].alive
    /\ obj' = [obj EXCEPT ![x] = [obj[y] EXCEPT !.buf = Swapped(@)],
                          ![y] = [NewStream EXCEPT !.state = obj[y].state]]
    /\ UNCHANGED <<kind, disk, faults>>
----------------------------------------------------------------------------
\* std::istream and std::ostream.

\* Assumption on the caller: it positions between output and input.
MayRead(s) == kind # "ofstream" /\ Pending(s) = 0 /\ s.file.op # "write"
MayWrite(s) == kind # "ifstream" /\ s.file.op # "read"

Usable(x) == obj[x].alive /\ ~Failed(obj[x])

\* put and write
Output(x) ==
    /\ Usable(x) /\ MayWrite(obj[x].buf)
    /\ \E w \in Strings, o \in Outcomes({"seek", "write", "direct"}) :
           LET s == IF Len(w) = 1 THEN PutChar(obj[x].buf, w[1], o) ELSE Xsputn(obj[x].buf, w, o)
           IN MayFail(o) /\ Fits(s) /\ Calls(x, s, {"bad"})

\* get
Input(x) ==
    /\ Usable(x) /\ MayRead(obj[x].buf)
    /\ \E o \in Outcomes({"write"}) :
           MayFail(o) /\ Calls(x, BumpChar(obj[x].buf, o), {"eof", "fail"})

Unget(x) == Usable(x) /\ kind # "ofstream" /\ Calls(x, PbackFail(obj[x].buf, <<>>), {"bad"})

Flushes(x) ==
    /\ Usable(x) /\ kind # "ifstream"
    /\ \E o \in Outcomes(SyncCalls) : MayFail(o) /\ Calls(x, Sync(obj[x].buf, o), {"bad"})

\* seekg and seekp to the beginning
Rewind(x) ==
    /\ Usable(x)
    /\ \E o \in Outcomes(SyncCalls \cup {"position", "tell"}) :
           LET s == SeekOff(obj[x].buf, 0, "beg", o)
           IN MayFail(o) /\ Fits(s) /\ Calls(x, s, {"fail"})

Clear(x) ==
    /\ obj[x].alive /\ Failed(obj[x])
    /\ obj' = [obj EXCEPT ![x].state = {}]
    /\ UNCHANGED <<kind, disk, faults>>

\* Assumption on the caller: a buffer is given to one stream at a time, before the file is open.
SetBuffer(x) ==
    /\ obj[x].alive /\ ~obj[x].buf.isOpen
    /\ \E b \in DOMAIN UserSizes :
           /\ b # Null => \A y \in Objs : obj[y].buf.mem # b
           /\ Calls(x, SetBuf(obj[x].buf, b, UserSizes[b]), {})

Next ==
    \E x \in Objs :
        \/ Construct(x) \/ ConstructOpen(x) \/ OpenFile(x) \/ CloseFile(x) \/ Destroy(x)
        \/ Output(x) \/ Input(x) \/ Unget(x) \/ Flushes(x) \/ Rewind(x) \/ Clear(x) \/ SetBuffer(x)
        \/ \E y \in Objs : Swap(x, y) \/ MoveAssign(x, y) \/ MoveConstruct(x, y)

Spec == Init /\ [][Next]_vars
----------------------------------------------------------------------------
\* Properties.

Streams == [alive : BOOLEAN, buf : FileBufs, state : SUBSET {"eof", "fail", "bad"},
            name : Names \cup {Nobody}]

\* Types; a stream knows a file's name while that is open, an ifstream can read it and an
\* ofstream can write it, and one that is not constructed has none.
TypeOK ==
    /\ kind \in Kinds /\ faults \in Nat
    /\ disk \in [Names -> Seq(Chars)]
    /\ obj \in [Objs -> Streams]
    /\ \A x \in Objs : LET r == obj[x]
                       IN /\ r.buf.isOpen <=> r.name # Nobody
                          /\ r.buf.isOpen /\ kind = "ifstream" => CanRead(r.buf)
                          /\ r.buf.isOpen /\ kind = "ofstream" => CanWrite(r.buf)
                          /\ ~r.alive => r = NoStream

\* However streams are swapped, moved and destroyed, the areas of each lie in the buffer it has
\* or in its own last_char_, never in that of another, and each block from new[] is freed once,
\* by the one that holds it (swap, the moves, ~basic_filebuf).
EachMemorySafe == \A x \in Objs : MemorySafe(obj[x].buf)

\* What the caller of a stream can see of it: the file, where in it reading and writing go on,
\* what has been put back, what unget can reach, and the state.
View(r) ==
    [state |-> r.state, name |-> r.name, mode |-> r.buf.mode, content |-> Content(r.buf),
     position |-> Position(r.buf), putBack |-> PutBack(r.buf),
     back |-> SubSeq(r.buf.get.chars, 1, r.buf.get.idx), size |-> r.buf.size]

\* A file that changes hands, by a swap or a move at any point in the middle of reading or of
\* writing, takes with it all that the caller can see (swap, the moves).
HandsOver ==
    [][\A x, y \in Objs :
          x # y /\ obj[y].name # Nobody /\ obj'[x].name = obj[y].name =>
              View(obj'[x]) = View(obj[y])]_vars

\* However a file ends up closed, by close, by a destructor or by a move assignment, and whoever
\* has been holding it before: it then has the content its last holder showed, unless a C call
\* failed.
ClosedIsComplete ==
    [][\A n \in Names, x \in Objs :
          obj[x].name = n /\ Holders(n)' = {} /\ faults' = faults =>
              disk'[n] = Content(obj[x].buf)]_vars

\* A C call that fails shows in the state of the stream, save in a destructor and where a move
\* assignment closes the old file (open, close, overflow, sync, the moves).
ErrorsShow ==
    [][faults' > faults =>
          \/ \E x \in Objs : /\ obj'[x].state \cap {"fail", "bad"} # {}
                             /\ \A y \in Objs \ {x} : obj'[y] = obj[y]
          \/ \E x \in Objs : Destroy(x) \/ \E y \in Objs : MoveAssign(x, y)]_vars
=============================================================================
