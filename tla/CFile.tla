------------------------------- MODULE CFile -------------------------------
(***************************************************************************)
(* The C stream (FILE) a basic_filebuf drives, as far as the code in       *)
(* include/boost/nowide/filebuf.hpp observes it.  The C library is not     *)
(* part of the repository: every operator here is external.                *)
(*                                                                         *)
(* A stream is a record:                                                   *)
(*   data     the bytes of the file, those in the stream's buffer included *)
(*   pos      the file position indicator                                  *)
(*   op       the last transfer since the stream was positioned: a stream  *)
(*            opened for update must be positioned (or flushed, or be at   *)
(*            the end of the file) between a read and a write              *)
(*   flushed  no byte waits in the stream's own buffer                     *)
(*   errs     how many calls have failed                                   *)
(*   misused  a read followed a write, or a write a read, without the call *)
(*            that C requires between them                                 *)
(***************************************************************************)
EXTENDS Integers, Sequences

CONSTANTS Chars,    \* the bytes a file may hold
          Hole      \* what a gap left by a seek beyond the end reads as

ASSUME HoleAssumption == Hole \in Chars

Least(a, b) == IF a < b THEN a ELSE b
Greatest(a, b) == IF a > b THEN a ELSE b

CFiles == [data    : Seq(Chars),
           pos     : Nat,
           op      : {"none", "read", "write"},
           flushed : BOOLEAN,
           errs    : Nat,
           misused : BOOLEAN]

\* data with the bytes w stored from offset at on.
Overwrite(data, at, w) ==
    IF w = <<>>
    THEN data
    ELSE [i \in 1..Greatest(Len(data), at + Len(w)) |->
              IF i > at /\ i <= at + Len(w) THEN w[i - at]
              ELSE IF i <= Len(data) THEN data[i] ELSE Hole]

\* fopen: the position is the start of the file, whatever the mode.
FOpen(f, truncate) ==
    [f EXCEPT !.data = IF truncate THEN <<>> ELSE @,
              !.pos = 0, !.op = "none", !.flushed = TRUE]

\* fclose: the buffered bytes are written out; the stream is gone even when it fails.
FClose(f, fails) ==
    [f EXCEPT !.pos = 0, !.op = "none", !.flushed = TRUE,
              !.errs = IF fails THEN @ + 1 ELSE @]

\* Where a write lands: an append stream always writes at the end.
WritePos(f, append) == IF append THEN Len(f.data) ELSE f.pos

\* fwrite and fputc: the first k bytes of w are accepted, fewer than all of them on failure.
FWrite(f, w, k, append) ==
    LET at == WritePos(f, append)
    IN [f EXCEPT !.data = Overwrite(@, at, SubSeq(w, 1, k)),
                 !.pos = at + k,
                 !.op = "write",
                 !.flushed = FALSE,
                 !.errs = IF k < Len(w) THEN @ + 1 ELSE @,
                 !.misused = @ \/ f.op = "read"]

\* The bytes fread and fgetc deliver when asked for n: fewer only at the end of the file.
BytesRead(f, n) == SubSeq(f.data, f.pos + 1, Least(f.pos + n, Len(f.data)))

FRead(f, n) ==
    [f EXCEPT !.pos = @ + Len(BytesRead(f, n)),
              !.op = IF Len(BytesRead(f, n)) < n THEN "none" ELSE "read",
              !.misused = @ \/ f.op = "write"]

\* fseek to the absolute offset p: refused when p is negative, and when the system fails.
SeekWorks(p, fails) == p >= 0 /\ ~fails

FSeek(f, p, fails) ==
    IF SeekWorks(p, fails)
    THEN [f EXCEPT !.pos = p, !.op = "none", !.flushed = TRUE]
    ELSE [f EXCEPT !.errs = IF fails THEN @ + 1 ELSE @]

FTell(f, fails) == [f EXCEPT !.errs = IF fails THEN @ + 1 ELSE @]

\* fflush: undefined when the last operation was input.
FFlush(f, fails) ==
    IF fails
    THEN [f EXCEPT !.errs = @ + 1, !.misused = @ \/ f.op = "read"]
    ELSE [f EXCEPT !.op = "none", !.flushed = TRUE,
                   !.misused = @ \/ f.op = "read"]
=============================================================================
