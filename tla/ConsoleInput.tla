---------------------------- MODULE ConsoleInput ----------------------------
(***************************************************************************)
(* console_input_buffer of src/console_buffer.cpp and src/iostream.cpp,    *)
(* the streambuf below cin on a console: ReadConsoleW delivers UTF-16 in   *)
(* chunks, the program reads UTF-8 and may put characters back.            *)
(*                                                                         *)
(* The console is external.  It is in its line input mode: it hands out    *)
(* what is left of the line being read, as much as is asked for.  The      *)
(* public functions of std::streambuf are external too: they use the get   *)
(* area while it has what is asked for and call the virtual functions      *)
(* otherwise.                                                              *)
(***************************************************************************)
EXTENDS Console, SequencesExt, FiniteSetsExt

CONSTANTS WbufferSize,   \* wbuffer_size, 1024 in the source
          Inputs,        \* what may be typed
          Extra,         \* bytes the program puts back that it did not read
          MaxBack,       \* bound: the bytes put back in one behaviour
          Careful        \* whether the program only puts back what fits (see Putback)

ASSUME WbufferAssumption == WbufferSize \in Nat /\ WbufferSize >= 2
ASSUME InputsAssumption == Inputs \subseteq Seq(Units(Wide))
ASSUME ExtraAssumption == Extra \subseteq Bytes
ASSUME MaxBackAssumption == MaxBack \in Nat
ASSUME CarefulAssumption == Careful \in BOOLEAN

VARIABLES typed,      \* the units the console still holds
          pending,    \* the wsize_ units left at the front of wbuffer_
          buffer,     \* the bytes last converted into buffer_
          pback,      \* pback_buffer_
          where,      \* what the get area lies in: "none", "buffer" or "pback"
          gptr,       \* gptr - eback
          newline,    \* was_newline_
          result,     \* the last call and its value
          due,        \* history: the bytes the program is to read from here on
          consumed,   \* history: the units read since the start or since input was dropped
          backs       \* history: the bytes put back
inputVars == <<typed, pending, buffer, pback, where, gptr, newline, result, due, consumed, backs>>

CR == 13
LF == 10
CtrlZ == 26

\* What lies in the get area, and what of it is still to be read.
Area == CASE where = "none" -> <<>> [] where = "buffer" -> buffer [] where = "pback" -> pback
Rest == After(Area, gptr)

\* Decoding s until its end or an incomplete character: the bytes, without CR, and the units used.
ScanInput(s) ==
    LET at[k \in 0..Len(s)] ==
            LET d == Decode(Wide, After(s, k))
                c == Repaired(d.cp)
            IN IF d.cp = Incomplete THEN [bytes |-> <<>>, used |-> k]
               ELSE [at[k + d.used] EXCEPT !.bytes = (IF c = CR THEN <<>> ELSE Encode(8, c)) \o @]
    IN at[0]

InputText(s) == ScanInput(s).bytes

InputInit ==
    /\ typed \in Inputs
    /\ pending = <<>> /\ buffer = <<>> /\ pback = <<>>
    /\ where = "none" /\ gptr = 0
    /\ newline = TRUE
    /\ result = [op |-> "none", value |-> 0]
    /\ due = InputText(typed) /\ consumed = <<>> /\ backs = 0
----------------------------------------------------------------------------
\* do_read: how many of the n units asked for ReadConsoleW delivers.
LineLength == IF Contains(typed, LF) THEN SelectInSeq(typed, LAMBDA u : u = LF) ELSE Len(typed)
ChunkLength(n) == Min({n, LineLength})

\* Mutant: the units of an incomplete character are not kept for the next read.
Kept_Nothing(s, used) == <<>>

Kept(s, used) == After(s, used)

\* Mutant: the end of a chunk is taken for the end of a line.
EndsLine_Always(bytes) == TRUE

EndsLine(bytes) == bytes = <<>> \/ Last(bytes) = LF

\* read: k more units are converted; ctrl-Z at the beginning of a line drops the chunk.
Read(k) ==
    LET wide == pending \o SubSeq(typed, 1, k)
        s == ScanInput(wide)
        eof == newline /\ s.bytes # <<>> /\ s.bytes[1] = CtrlZ
    IN [k |-> k, dropped |-> eof,
        bytes |-> IF eof THEN <<>> ELSE s.bytes,
        pending |-> IF eof THEN <<>> ELSE Kept(wide, s.used),
        newline |-> eof \/ EndsLine(s.bytes)]

\* With nothing typed any more do_read fails and read leaves everything as it is.
NextRead ==
    IF typed = <<>>
    THEN [k |-> 0, dropped |-> FALSE, bytes |-> <<>>, pending |-> pending, newline |-> newline]
    ELSE Read(ChunkLength(WbufferSize - Len(pending)))

\* underflow, after which the public function passes n of the bytes read.
Underflow(op, n) ==
    LET r == NextRead
    IN  /\ typed' = After(typed, r.k)
        /\ pending' = r.pending /\ newline' = r.newline
        /\ pback' = <<>>
        /\ buffer' = r.bytes /\ where' = "buffer"
        /\ gptr' = IF r.bytes = <<>> THEN 0 ELSE n
        /\ result' = [op |-> op, value |-> IF r.bytes = <<>> THEN Eof ELSE r.bytes[1]]
        /\ due' = IF r.dropped THEN InputText(typed')
                  ELSE IF r.bytes = <<>> THEN due ELSE After(due, n)
        /\ consumed' = IF r.dropped THEN <<>> ELSE consumed \o SubSeq(typed, 1, r.k)

\* sgetc for n = 0, sbumpc for n = 1.
Get(op, n) ==
    /\ IF Rest = <<>> THEN Underflow(op, n)
       ELSE /\ result' = [op |-> op, value |-> Rest[1]]
            /\ gptr' = gptr + n
            /\ due' = After(due, n)
            /\ UNCHANGED <<typed, pending, buffer, pback, where, newline, consumed>>
    /\ UNCHANGED backs

Sgetc == Get("sgetc", 0)
Sbumpc == Get("sbumpc", 1)

\* sungetc; pbackfail(eof) fails.
Sungetc ==
    /\ IF gptr > 0
       THEN /\ gptr' = gptr - 1
            /\ due' = <<Area[gptr]>> \o due
            /\ result' = [op |-> "sungetc", value |-> Area[gptr]]
       ELSE /\ result' = [op |-> "sungetc", value |-> Eof]
            /\ UNCHANGED <<gptr, due>>
    /\ UNCHANGED <<typed, pending, buffer, pback, where, newline, consumed, backs>>

\* pbackfail(c): over the last character in the get area, or else before pback_buffer_, which
\* becomes the get area.
PbackFail(c) ==
    IF gptr > 0
    THEN /\ gptr' = gptr - 1
         /\ buffer' = IF where = "buffer" THEN [buffer EXCEPT ![gptr] = c] ELSE buffer
         /\ pback' = IF where = "pback" THEN [pback EXCEPT ![gptr] = c] ELSE pback
         /\ UNCHANGED where
    ELSE /\ pback' = <<c>> \o pback
         /\ where' = "pback" /\ gptr' = 0
         /\ UNCHANGED buffer

\* sputbackc.  A careful program does not put a character in front of a buffer with unread input.
Sputbackc(c) ==
    /\ backs < MaxBack /\ backs' = backs + 1
    /\ Careful => gptr > 0 \/ where = "pback" \/ Rest = <<>>
    /\ IF gptr > 0 /\ Area[gptr] = c
       THEN gptr' = gptr - 1 /\ UNCHANGED <<buffer, pback, where>>
       ELSE PbackFail(c)
    /\ due' = <<c>> \o due
    /\ result' = [op |-> "sputbackc", value |-> c]
    /\ UNCHANGED <<typed, pending, newline, consumed>>

\* sync drops what was read and not delivered.
Sync ==
    /\ pending' = <<>> /\ newline' = TRUE
    /\ pback' = <<>> /\ buffer' = <<>> /\ where' = "none" /\ gptr' = 0
    /\ result' = [op |-> "sync", value |-> 0]
    /\ due' = InputText(typed) /\ consumed' = <<>>
    /\ UNCHANGED <<typed, backs>>

\* What a program puts back: the last character it read, or one of its own.
Backs == Extra \cup IF gptr > 0 THEN {Area[gptr]} ELSE {}

InputNext == Sgetc \/ Sbumpc \/ Sungetc \/ (\E c \in Backs : Sputbackc(c)) \/ Sync

InputSpec == InputInit /\ [][InputNext]_inputVars
----------------------------------------------------------------------------
\* Properties.

\* However ReadConsoleW cuts the input, inside a line or between the halves of a surrogate pair,
\* the program reads the UTF-8 of what was typed, without CR, and whatever it put back first:
\* nothing is lost, repeated or replaced (read, underflow, pbackfail).
ReadsWhatIsDue == Rest \o InputText(pending \o typed) = due

\* The read position in the input, not counting what is in the get area, is the start of a line.
AtLineStart == InputText(consumed) = <<>> \/ Last(InputText(consumed)) = LF

\* "Skip \r chars as std::cin does", "treats CTRL+Z at the beginning of a line as EOF": underflow
\* returns eof when the input is over or a ctrl-Z begins a line, and at no other time.
EofWhenDue ==
    [][result'.op \in {"sgetc", "sbumpc"} /\ Rest = <<>> =>
          (result'.value = Eof <=> due = <<>> \/ (due[1] = CtrlZ /\ AtLineStart))]_inputVars
=============================================================================
