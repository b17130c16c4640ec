---------------------------- MODULE SeekableFile ----------------------------
(***************************************************************************)
(* What a filebuf promises its caller when no C call fails: a file and one *)
(* position, and no trace of buffers, of the direction of the C stream or  *)
(* of the size of the pieces in which the caller reads and writes.         *)
(*                                                                         *)
(* It is the behaviour std::basic_filebuf documents, restricted to one     *)
(* byte characters without conversion, which is what                       *)
(* include/boost/nowide/filebuf.hpp states for itself.                     *)
(***************************************************************************)
EXTENDS Integers, Sequences

CONSTANTS Chars, Hole, Modes, Contents, Strings, Counts, Offsets

VARIABLES open,      \* a file is open
          mode,      \* the flags it was opened with
          content,   \* the file
          position,  \* the next character to read or write
          putBack,   \* characters put back that differ from the file, by offset
          call,      \* the last call,
          got,       \* what it handed to the caller
          ok         \* and whether it succeeded
file == <<open, mode, content, position>>
vars == <<file, putBack, call, got, ok>>

Return(name, w, b) == call' = name /\ ok' = b /\ got' = w

Readable == open /\ "in" \in mode
Writable == open /\ mode \cap {"out", "app"} # {}

\* What a read at offset p sees.
View(p) == IF p \in DOMAIN putBack THEN putBack[p] ELSE content[p + 1]

\* Putting back is a courtesy: any of what was put back may be forgotten at any call.
Forget == \E S \in SUBSET DOMAIN putBack : putBack' = [p \in S |-> putBack[p]]

Init ==
    /\ open = FALSE /\ mode = {}
    /\ content \in Contents
    /\ position = 0
    /\ putBack = [p \in {} |-> Hole]
    /\ call = "none" /\ got = <<>> /\ ok = TRUE

\* The combinations of flags a file can be opened with.
ValidMode(m) == LET f == m \ {"binary", "ate"}
                IN \/ f \in (SUBSET {"in", "out", "app"}) \ {{}}
                   \/ f \in {{"out", "trunc"}, {"in", "out", "trunc"}}

Truncates(m) == "trunc" \in m \/ m \ {"binary", "ate"} = {"out"}

Open(m) ==
    /\ Return("open", <<>>, TRUE)
    /\ ~open /\ ValidMode(m) /\ open' = TRUE
    /\ mode' = m \ {"ate"}
    /\ content' = IF Truncates(m) THEN <<>> ELSE content
    /\ position' = IF "ate" \in m THEN Len(content') ELSE 0
    /\ Forget

Close ==
    /\ Return("close", <<>>, TRUE)
    /\ open /\ open' = FALSE /\ mode' = {}
    /\ position' = 0
    /\ UNCHANGED content
    /\ Forget

\* A call that flushes, or that changes how the file is buffered.
Settle(name) == Return(name, <<>>, TRUE) /\ UNCHANGED file /\ Forget

\* All that is there, up to n characters.
Available(n) == IF position + n <= Len(content) THEN n
                ELSE IF position < Len(content) THEN Len(content) - position ELSE 0

Ahead(n) == [i \in 1..n |-> View(position + i - 1)]

\* Looking at or reading n characters fails only for want of them, and then gives all there are.
Peek ==
    /\ Return("sgetc", Ahead(Available(1)), Available(1) = 1)
    /\ Readable
    /\ UNCHANGED file
    /\ Forget

Read(name, n) ==
    /\ Return(name, Ahead(Available(n)), Available(n) = n)
    /\ Readable
    /\ position' = position + Available(n)
    /\ UNCHANGED <<open, mode, content>>
    /\ Forget

\* Writing is never partial: at the position, or at the end in append mode.
Write(name, w) ==
    LET at == IF "app" \in mode THEN Len(content) ELSE position
        end == at + Len(w)
    IN /\ Return(name, <<>>, TRUE)
       /\ Writable
       /\ content' = [i \in 1..(IF end > Len(content) THEN end ELSE Len(content)) |->
                          IF i > at /\ i <= end THEN w[i - at]
                          ELSE IF i <= Len(content) THEN content[i] ELSE Hole]
       /\ position' = end
       /\ UNCHANGED <<open, mode>>
       /\ Forget

\* Stepping back over the last character, possibly replacing it for the next read.
Unget(name, c) ==
    /\ Return(name, <<c>>, TRUE)
    /\ Readable /\ position > 0
    /\ position' = position - 1
    /\ c # View(position - 1) =>
           putBack' = [p \in DOMAIN putBack \cup {position - 1} |->
                           IF p = position - 1 THEN c ELSE putBack[p]]
    /\ c = View(position - 1) => UNCHANGED putBack
    /\ UNCHANGED <<open, mode, content>>

\* Reading or writing nothing succeeds, in whatever direction the file is open.
Nothing == \/ 0 \in Counts /\ Settle("sgetn")
           \/ <<>> \in Strings /\ Settle("sputn")

Target(dir, off) ==
    off + (CASE dir = "beg" -> 0 [] dir = "cur" -> position [] dir = "end" -> Len(content))

Seek(dir, off) ==
    /\ Return("pubseekoff", <<>>, TRUE)
    /\ open /\ Target(dir, off) >= 0
    /\ position' = Target(dir, off)
    /\ UNCHANGED <<open, mode, content>>
    /\ Forget

\* A call may fail, and then does nothing, only for a reason the caller can see: reading or
\* writing in a direction the file is not open in, opening or closing at the wrong time or
\* with flags that do not combine, seeking before the start.  Only an unget may always fail.
MayRefuse(name) ==
    CASE name = "open" -> open \/ \E m \in Modes : ~ValidMode(m)
      [] name = "close" -> ~open
      [] name \in {"sgetc", "sbumpc", "sgetn"} -> ~Readable
      [] name \in {"sputc", "sputn"} -> ~Writable
      [] name = "pubseekoff" ->
             ~open \/ \E off \in Offsets, dir \in {"beg", "cur", "end"} : Target(dir, off) < 0
      [] name \in {"sungetc", "sputbackc"} -> TRUE

Refuse(name) ==
    Return(name, <<>>, FALSE) /\ MayRefuse(name) /\ UNCHANGED file /\ Forget

Next == \/ \E m \in Modes : Open(m)
        \/ Close \/ Settle("pubsync") \/ Settle("pubsetbuf") \/ Peek
        \/ Read("sbumpc", 1)
        \/ \E n \in Counts \ {0} : Read("sgetn", n)
        \/ \E c \in Chars : Write("sputc", <<c>>)
        \/ \E w \in Strings \ {<<>>} : Write("sputn", w)
        \/ Nothing
        \/ \E c \in Chars, name \in {"sungetc", "sputbackc"} :
               Unget(name, c) /\ (name = "sungetc" => c = View(position - 1))
        \/ \E dir \in {"beg", "cur", "end"}, off \in Offsets : Seek(dir, off)
        \/ \E name \in {"open", "close", "sgetc", "sbumpc", "sgetn", "sputc", "sputn",
                        "pubseekoff", "sungetc", "sputbackc"} : Refuse(name)

Spec == Init /\ [][Next]_vars
=============================================================================
