# A verification development for Boost.Nowide

Boost.Nowide gives C++ programs a UTF-8 view of the Windows API: files, the
console, the environment, the program arguments, and the conversions between
UTF-8, UTF-16 and UTF-32 all of them need. This directory holds TLA+ modules
that model the library's code, TLC configurations that check them on small
instances, and proofs that the TLA+ proof system checks for every value of the
constants. `PROJECT.json` lists the runs, the mutants of each property, the
source lines of each definition, the theorems, the hazards and the findings.

1. [The system](#1-the-system)
2. [The modules](#2-the-modules)
3. [What the runs check](#3-what-the-runs-check)
4. [What is proved](#4-what-is-proved)
5. [Findings](#5-findings)
6. [Fairness and liveness](#6-fairness-and-liveness)
7. [What is not modelled](#7-what-is-not-modelled)
8. [Plan](#8-plan)

Headers are in `src/include/boost/nowide/`, the compiled part in `src/src/`.

## 1. The system

| part | source | state | operations | hard behaviour |
|---|---|---|---|---|
| filebuf | `filebuf.hpp`, `filebuf.cpp` | C stream, block and its size, who owns it, get and put area, mode, `unbuffered_read_`, `last_char_` | open, close, setbuf, sync, overflow, xsputn, underflow, xsgetn, pbackfail, seekoff, seekpos; swap, moves | one C stream used in both directions; three kinds of buffer replaced under open files; the unread rest that must be sought back over; failing calls half-way |
| fstream | `fstream.hpp` | a filebuf and the state of a stream | open, close, moves, swap, destructor | handing on an open file in the middle of reading or writing; the error of a file that a move assignment closes |
| utf | `utf/utf.hpp` | none | `decode`, `decode_valid`, `encode`, `width`, `trail_length`, `is_trail` for three encodings | ill-formed input; boundaries of the encodings |
| convert | `utf/convert.hpp`, `convert.hpp` | position in the input, room in the output | `convert_buffer`, `convert_string`, `narrow`, `widen` | room that is just enough; repaired input |
| stackstring | `stackstring.hpp` | a buffer in the object, `data_`, a pointer to it or to a block | construct, `convert`, copy, `swap`, `clear`, destroy | a pointer into the object itself; `new[]` that throws between free and use |
| args | `args.hpp` | main's `argc`, `argv`, `env`; the arrays of each object | construct, destroy | nesting; the second of two system calls fails; entries counted before the conversion and walked after it |
| cstdlib | `cstdlib.hpp`, `cstdlib.cpp` | the process environment, the thread's last error, a `thread_local` string | `getenv`, `setenv`, `unsetenv`, `putenv`, `system` | several threads between two system calls; a last error left over from another call |
| console output | `console_buffer.*` | put area of bytes, the beginning of an unfinished character | `overflow`, `sync` | characters cut by the buffer; writes that fail |
| console input | `console_buffer.*`, `iostream.cpp` | wide units not converted yet, bytes converted, characters put back, `was_newline_` | `underflow`, `pbackfail`, `sync` | input cut between surrogates; ctrl-Z; putback |
| iostream | `iostream.hpp`, `iostream.cpp` | four global streams, each with its buffer | construction, ties, `unitbuf`, destructor | which stream is alive when another flushes it; prompts and errors in order |
| utf8_codecvt | `utf8_codecvt.hpp` | `mbstate_t` between calls | `do_in`, `do_out`, `do_length`, `do_unshift` | a call that ends inside a surrogate pair |
| cstdio, stat, quoted, filesystem, config | the remaining files | none | wrappers, manipulators, macros | - |

How they interact. Everything rests on `utf`: `convert` calls `decode` and
`encode` for each code point, `stackstring` calls `convert_buffer` once with
its own buffer and perhaps once more with a block, `args` keeps `stackstring`s
and their pointers, `cstdlib` and `cstdio` convert their arguments with
`stackstring`s, the console buffers and the codecvt
facet call `decode` and `encode` themselves. A `filebuf` is called by the C++ library's stream classes through the public
functions of `std::streambuf` and calls the C library; the console buffers
are called the same way and call the Windows console. Nothing calls back. The
library starts no thread; several threads of a program meet in the process
environment only.

What makes each part correct, in short:

- filebuf: memory stays inside live blocks and is freed once; C's rule for
  streams used in both directions is kept; the caller sees one file with one
  position, whatever is buffered; a failing call is reported; after `sync`
  everything is in the file.
- fstream: a stream that is swapped or moved takes with it all the caller can see
  of its file, and nothing of the object it was in; however a file ends up
  closed, nothing is missing from it, or an error shows.
- utf and convert: no text is lost, invented or left invalid; nothing is
  written behind the buffer; a buffer that is large enough is never refused.
- stackstring: every object owns its memory alone and holds what was put in.
- args: main's variables never point into arrays that are gone; each object
  restores what it found.
- cstdlib: `getenv` returns a value the variable had, null only if there was
  none (observation 3 aside); a result stays valid until the thread asks again.
- utf8_codecvt: what comes out does not depend on how input and output are cut
  into calls, all of it comes out, and `ok` means that it has.
- iostream: what is put before a prompt or an error is seen before it, nothing is
  lost at the end of the program, and no stream is used before or after its life.
- console: the characters shown and read are those written and typed, however
  buffers and system calls cut them.

## 2. The modules

    Utf            decode and encode            <- Convert, Console, Utf8Codecvt
    Convert        convert_buffer, convert_string
    Utf8Codecvt    the codecvt facet             implements Transcoding
    Transcoding    a conversion in pieces (abstract)
    StackString    ownership of basic_stackstring
    Args           nested args objects
    Environment    getenv and setenv by several threads
    CFile          the C stream (external)       <- FileBufObject
    FileBufObject  the members of basic_filebuf  <- FileBuf, FStreams
    FileBuf        one basic_filebuf and its caller   implements SeekableFile
    SeekableFile   what a filebuf promises (abstract)
    FStreams       several streams that are opened, swapped, moved and destroyed
    Console        wchar_t and eof              <- ConsoleOutput, ConsoleInput
    ConsoleOutput  console_output_buffer        <- StdStreams
    StdStreams     cout, cin, cerr and clog on a console
    ConsoleInput   console_input_buffer

`MC*` modules give the constants their values for TLC; `*Proofs` modules hold
the theorems about the module they are named after, but for two that serve several:
`ConsoleProofs` is about `ConsoleOutput`, `StdStreams` and `ConsoleInput`, and
`WindowsProofs` about `Environment`, `StackString` and `Args`. Modules about one
part of the system are extended together by its proofs (and `Console` holds what the
two buffers share), so `StackString`, `Args` and `ConsoleInput` have an initial
predicate, a next-state relation and a specification with names of their own
(`StringSpec`, `ArgsSpec`, `InputSpec`). Operators named
`X_Something` are faulty variants of the operator `X`, one for a property each:
with one of them in the place of `X` the property must fail.

**FileBufObject** over **CFile**, and **FileBuf**. The object is one record, every
member function an operator from records to records that takes the outcome of
the C calls as an argument. In `FileBuf` there is one object `fb` with one caller,
and every action is one call of the public interface of `std::streambuf`: `OpenFile`, `CloseFile`, `Pubsetbuf`, `Pubsync`, `Pubseekoff`,
`Sgetc`, `Sbumpc`, `Sgetn`, `Sungetc`, `Sputbackc`, `Sputc`, `Sputn`. The public
functions (use the area while there is something in it, call the virtual
function otherwise) are those of the C++ library and marked external, as are
the C functions of `CFile`; `detail::fseek` and `detail::ftell` are the
repository's. `CFile` knows the file's bytes, the position, the direction of the
last transfer, whether the stream was misused (read after write without a
positioning call between, or the reverse), and what is not flushed yet.
Abstractions:

- Of the C calls of one operation at most one fails, and `MaxErrs` in all. A
  failing write takes up to `MaxPartial` bytes. A read does not fail, it is
  short at the end of the file.
- Every byte is a character: `validate_cvt` and `imbue` refuse facets that
  convert, and the C library's newline translation in text mode is left out
  (text mode still reads unbuffered, as the code does).
- The caller calls `pubsetbuf` on a closed buffer or one just opened, positioned
  or synchronised (`Settled`). The comment in the code asks for it: "Users should
  call sync() before or better use it before any IO is done or any file is
  opened".
- `Disciplined` says whether the caller positions between input and output, which
  C++ demands of it. With `Disciplined = FALSE` it does not, and the C library is
  taken to switch direction by itself, as if at the same position.
- `UngetDirect` says whether the caller may unget after a bulk read that went
  around the buffer (observation 1).

**FStreams**. `obj` maps the stream objects to records: whether the object is
constructed, its filebuf, its `rdstate`, and the name of the file that is open.
Actions are the constructors, `open`, `close`, the destructor, `swap` and the two
moves, and output, input, `unget`, `flush` and `rewind` in between, so that a
stream is handed on in every state of its buffer. Since the record of a filebuf
moves from object to object, a pointer into `last_char_` is only right in the object
it points into: `Moved` makes it a pointer into another object (`Foreign`), and
`Mended` is what `swap` does about it (`filebuf.hpp:105-116`). Abstractions:

- The streams are all of one class, which `kind` says, since only those can be
  swapped. The base class' `swap` exchanges the states, the move constructor of
  `fstream_impl` gives the source a new filebuf.
- A file is in one stream at a time; `disk` holds the others. A stream is not swapped
  with or assigned to itself, a user's buffer is given to one stream, while no file is
  open in it, and the caller positions between input and output.

**Utf8Codecvt**. One action for each round of the loops of `do_in`, `do_out` and
`do_length`, with the state in between. The caller chooses the end of the window and
the room for each call, goes on from `from_next` with the state it was left, and may
go back to a place in the middle of the output of the last `do_in` with the answer of
`do_length`, as a stream that seeks does. `given.to = 32` is the facet for `char32_t`
and a wide `wchar_t`, which has no state. The caller asks `do_length` only
for units that `do_in` has written, so `do_length` never meets an incomplete character
with room left: `LengthIncomplete` is translated but not taken, which the proof of
`CutsDoNotMatter` shows for all texts.

**Utf**. One operator for each function of `utf_traits`, on sequences of units
given as numbers. `decode` is an operator from the rest of the text to the code
point and the number of units used. Trail bytes are combined by a recursive
function, with no RECURSIVE operator, so that the prover can be used.

**Convert** takes one step for each code point. **Whole** is the result of
`convert_string`, which has no bound, and the reference for `convert_buffer`.

**StackString** knows strings by two lengths, of the input and of the output;
which output length goes with an input length is `Convert`'s business, and the
assumption that links them (`SizesAssumption`, at most `max_width` units for each
unit) is theorem `HeapAllocationSuffices` there. Pointers are names of objects
(their own buffer) or of blocks; `new[]` may throw. Strings have no embedded
nulls.

**Args**. Instances live in nested scopes. The system calls fail as they like;
main may shift its arguments and must not touch them otherwise. The arguments are
converted one by one, the environment as one block with the nulls between its entries
(`args.hpp:164`). Of the texts it matters where they end: a high surrogate with no low one
at the end of an entry (`Torn`) takes the null behind it along (`utf/utf.hpp:362-364`), so
that the entry runs on into the next (`Starts`), while the count was taken before. For each
one that ran on the loop reads behind the texts once. What is there the model leaves open:
`Strays` says how many pointers (`Behind`) the loop may store for it. An unpaired surrogate
elsewhere in an entry changes the text of that entry only, which is abstracted.

**Environment**. Each Windows call is one atomic step, a function with two of
them is two actions. `exclusive` says whether the program obeys the documented
rule that nobody else runs while the environment is modified: initially one of
`Disciplines`, and never changed. `resetsLastError`, in the same way one of `Resets`, says
whether a call of `GetEnvironmentVariableW` that succeeds always clears the last error;
where it does not, each call clears it or leaves it (`ErrorsAfter`, observation 3). The
functions that set may fail.

**ConsoleOutput** has the members of the buffer as operators, as `FileBufObject` has.
**StdStreams** is a program that uses three of them below `cout`, `cerr` and `clog`,
and `cin`. The phases are the construction of the four objects in the order of their
definitions, the program, and their destruction in reverse order. What the standard
says of `std::ostream` is external: the sentry flushes the tied stream, with `unitbuf`
the stream flushes itself, a failure sets `badbit`, and nothing is passed on until
`clear()`. The console takes all of what is written or fails.

**ConsoleInput**. The console is in line input mode: `ReadConsoleW` hands out what is
left of the line, as much as fits. `Careful` says whether the program puts
characters back only where that is safe (finding 1).

## 3. What the runs check

Every property has a mutant of the code that violates it in the same run.

| run | what it shows | bounds |
|---|---|---|
| `filebuf` | types; memory safety; C's switching rule; `sync` leaves nothing behind; failures are reported | file of 3 bytes over 2 characters, buffer of 2, `pubsetbuf` with 0 or 2 bytes, reads of 0, 2 and 3, writes of up to 3, one failing call |
| `filebuf_refines` | the get area mirrors the file; `FileBuf` implements `SeekableFile` under a mapping of file, position and putback; both for callers that switch direction at will and do not unget right after a bulk read (`UngetDirect = FALSE`) | the same, without failing calls; more modes |
| `fstreams` | memory of each stream; files are handed on whole; closed files are complete; failures show | two streams of each class, two files of at most 1 byte, `BUFSIZ` of 1, a user's buffer of 0 bytes, one failing call |
| `convert` | seven properties of conversions between UTF-8 and UTF-16 and between UTF-8 and UTF-32, both ways | all texts of up to 3 bytes (4 where the first asks for it), 3 UTF-16 or 2 UTF-32 units drawn from the boundaries of the encodings; buffers of 0, 1, 2, 3, 5 units |
| `utf8_codecvt` | independence of the cuts, `ok` is complete, `do_unshift` tells a half, and everything comes out in the end | texts of two or three parts: characters of each length, a truncated, an overlong and an impossible sequence, lone surrogates; room for 0, 1, 3 or 4 units; one step back |
| `stackstring` | ownership and content of three objects | buffer of 4, inputs that fit, just fit, fit before or after conversion only; 4 blocks |
| `std_streams` | what is shown is the conversion of what was put; prompts and errors in order and at once; nothing lost at the end; nobody uses a dead stream | buffers of 4 bytes, 5 bytes put into `cout`, one each into `cerr` and `clog`, characters of 1, 2 and 4 bytes, illegal and incomplete ones |
| `console_input` | what is read is what is due; end of input exactly when due | `wbuffer_` of 2 units; lines of up to 4 units and a line end, or a shorter line and one more; 2 characters put back |
| `console_input_putback` | finding 1 | the same |
| `args` | restoring; arrays in use, with the variables main is to find in them | three nested instances; an environment that is empty, one with a torn entry at its end, one whose first two of four entries are one text, each with entries that begin with '=' |
| `args_throw` | finding 2 | two instances |
| `environment` | answers, results kept, null pointers, no overwriting | two threads, one variable, values that are empty, just fit and just do not; both disciplines; a Windows that clears the last error and one that may not |

Why the bounds are enough. A buffer of two bytes is the smallest that can be
empty, partly full and full, and transfers of two and three bytes take every
path of `xsputn` and `xsgetn` (below the buffer's size, equal to it, above it);
three bytes in the file allow a buffered read, a rest in the get area and an end
of file in one behaviour. For handing on a stream what counts is where its areas
lie, in `last_char_` or in a block: `BUFSIZ` of 1 and a user's buffer of 0 give both,
with each area empty and full, and two streams are all that a swap or a move touches
(the theorem covers any number). The streams of `fstreams` are interchangeable, and so
are the files, which no definition tells apart: hence the symmetry. A put area of four bytes holds exactly the longest
character, so that a character can be cut everywhere. A `wbuffer_` of two units is
the smallest with room for a pair. Two threads are enough to have one between the
two calls of the other, and the theorems cover any number. The units in `MCConvert`
are the ends of the ranges in which `utf_traits` branches; the theorems of
`UtfProofs` cover all others.

The type invariants of `FileBuf`, `FStreams` and `Utf8Codecvt` are checked as well; those of
`Convert`, `StackString` and `Environment` serve the proofs.

The other properties, by module:

- `FileBuf`: `MemorySafety` (areas in the live block, at most one area, one
  `delete[]`, nothing left in a closed buffer), `GetMirrorsFile` (what
  `stop_reading` seeks back over is what is in the get area, in every state of the area),
  `StdioContract`,
  `SyncMakesDurable`, `ErrorsReported`, `ImplementsSeekableFile`.
- `FStreams`: `EachMemorySafe` (`MemorySafety` of each stream, and no pointer into
  another object), `HandsOver` (what swap and moves hand on is all the caller can
  see: content, position, putback, what `unget` can reach, state), `ClosedIsComplete`,
  `ErrorsShow`.
- `Convert`: `WithinBuffer`, `HeapSizeSuffices` (the assertion in
  `basic_stackstring::convert`), `AlwaysValid`, `TextKept`, `IllFormedShows`,
  `RefusedOnlyIfTooLong`, `ReadersAgree` (`decode_valid`, `trail_length` and `is_trail`
  against `decode`). `AlwaysValid`, `TextKept` and `IllFormedShows` judge
  texts by `Texted`, an arithmetic definition of the encodings (the value of a
  sequence, the shortest form, the excluded ranges) that shares nothing with
  `decode`.
- `StackString`: `OwnsItsMemory`, `HoldsWhatIsMeant`.
- `Args`: `ArraysInUse` (the arrays exist and end with a null pointer where main looks
  for it, `env` has no text that begins with '=', and where no entry but the last is torn it
  has exactly the others), `RestoresWhatWas`.
- `Environment`: `GetenvAnswers`, `ResultKept`, `NullMeansNotSet`,
  `NoOverwriteKeeps`. The exception they make for a last error that was left alone is
  `LooksMissing`: an empty variable, after a call of the same thread that found none.
- `Utf8Codecvt`: `InsideBuffers`, `PieceIndependent`, `OkIsComplete`,
  `UnshiftTellsHalf`, and the refinement `ConvertsTheText`: a conversion in pieces
  (`Transcoding`) that comes to its end.
- `StdStreams`: `ChunkIndependent`, `FlushedIsShown`, `EndsShown`, `OutputComesFirst`,
  `TiedIsAlive`.
- `ConsoleInput`: `ReadsWhatIsDue`, `EofWhenDue`.

## 4. What is proved

For all values of the constants that satisfy the modules' assumptions:

| theorem | says | argument |
|---|---|---|
| `FileBufProofs!TypeCorrect`, `MemoryIsSafe` | types and memory safety of a filebuf, for every file, buffer size, transfer length, caller and any number of failing calls | `TypeOK /\ MemorySafety` is inductive. One lemma of `FileBufObjectProofs` for each member function says that it turns a good record into a good one; one step for each action combines them. `MemorySafe` is a conjunction of seven named facts, all needed: that the put area ends at `size` needs that areas lie in the current block, that needs `owned <=> mem = Heap`, and that reading buffered implies `size > 0` needs the mode |
| `FileBufProofs!GetAreaMirrorsFile` | what is unread in the get area is what the file holds just before the position of the C stream, so seeking back over it lands on the next character; for `UngetDirect = FALSE` and any number of failing calls | `InPlace` is inductive: an area that is in use lies just before the position of the C stream and agrees with the file but for the bytes put back (`get.mod`). Whatever else moves or rewrites the C stream empties the area first, with one exception: the bulk read leaves the area behind with nothing unread in it (`get.stale`), and a caller that does not unget there keeps it so until it is filled again. `InPlaceShows` says that the property follows in every state of the area |
| `FileBufProofs!StdioIsRespected`, `SyncIsDurable` | C's rule for one stream used in both directions; nothing waits anywhere after a `sync` | `UsageInv` ties what the filebuf remembers of its last use (the areas, `last_char_`) to the direction of the C stream and to the caller's phase; one lemma for each member function says where it leaves them |
| `FileBufProofs!BufferingIsInvisible` | a filebuf is a plain file with one position: the step simulation of `SeekableFile`, for `MaxErrs = 0` and `UngetDirect = FALSE` | `RefInv` is the invariant above with `InPlace` and with empty areas in the settled phase. Under it each member function is one of a few changes of content, position and putback (`Puts`, `Gets`, `Ungets`, `SeeksTo`, ...), which compose, and each action of `FileBuf` is one of `SeekableFile`, or a stutter |
| `FStreamsProofs!StreamsAreSafe` | the same for any number of streams that are opened, swapped, moved and destroyed | that every object holds a good filebuf is inductive. The lemmas of `FileBufObjectProofs` serve for all calls; for swap and the moves `SwappedSame` shows that after the calls of `setp` and `setg` in `swap` a filebuf points into its own object wherever it pointed into the other's, and so is the same record as before |
| `FStreamsProofs!MovesHandOver` | swap and the moves hand on all the caller can see of a stream | no file is open in two streams (`NamesApart`), and every step changes one stream, whose new name nobody else has, or passes a whole record on (`StepShapes`): so a name that turns up elsewhere came by a swap or a move |
| `FStreamsProofs!StreamsTypeCorrect` | a stream has a name while its file is open and only then; the class decides a direction it can be used in | `AllFitting` is inductive with the former; it needs what `open` answers (`OpenAnswers`) and that no other function but `close` changes mode and openness (`ClosedOrSame`) |
| `FStreamsProofs!ClosedFilesAreComplete` | a file closed without a failure holds what the stream showed | `CloseHolds`: what `overflow` writes before `fclose` is what `Content` counts as pending, or a C call has failed |
| `FileBufProofs!ErrorsAreReported`, `FStreamsProofs!FailuresShow` | no failing C call is swallowed by a filebuf; in a stream it sets failbit or badbit of that stream | one lemma for each member function says that it reports failure or all its C calls have worked (`Honest`); they compose because each caller looks at the result before it goes on. The streams need in addition that failures are counted once (`NoErrs`) |
| `UtfProofs!DecodeProgress` | `decode` uses at least one unit and never more than there are | by cases on the lead unit |
| `UtfProofs!EncodeHasItsWidth` | `encode` writes as many units as `width` counts, at most `max_width` | by cases on the ranges |
| `UtfProofs!RoundTrip` | decoding an encoded code point, whatever follows, gives it back | the arithmetic of six-bit groups and of surrogates, as lemmas |
| `UtfProofs!DecodeValidAgrees`, `ConvertProofs!EveryReaderAgrees` | wherever `decode` finds a code point, `decode_valid`, `trail_length` and `is_trail` agree with it | by cases on the lead unit; a result that is a code point tells that the trail units are there |
| `ConvertProofs!ConvertTypeCorrect`, `ConvertStaysInside`, `HeapAllocationSuffices` | conversions into buffers of any size stay inside; `max_width` units for each unit are enough | inductive invariant: what is stored, what is left of the input times `max_width`, and the room account for each other |
| `ConvertProofs!RefusalMeansTooLong` | `convert_buffer` stores what `convert_string` yields or refuses because that and the NUL do not fit, for any text | `OnTheWay`: what is stored, followed by the conversion of what is left, is the conversion of the whole; the step of the loop is `WholeUnfolds` (a text converted is its first character converted, then the rest converted) |
| `ConvertProofs!WhatComesOutIsText`, `ConversionKeepsText`, `BrokenTextShows` | what a conversion stores is always well-formed; text is kept character for character; input that is no text shows as a replacement character or as failure | `Kept`: what is stored is a text whose code points are those of the text read so far, or a replacement shows and the input is no text. It rests on three facts: `decode` reads exactly the characters of the reference definition (`CharIsRead`, `ReadIsChar`, `WrittenIsChar`), two characters do not overlap (`CharsDoNotOverlap`), and a text unfolds at its last character (`TextedUnfolds`) |
| `WindowsProofs!MemoryIsOwned`, `StringsAreKept` | ownership and content of any number of objects | types, ownership and content are inductive only together: what `clear` frees depends on ownership, what `swap` and the copy move depends on content |
| `Utf8CodecvtProofs!CodecvtTypeCorrect`, `CodecvtStaysInside` | the state between two calls is 0 or the half of a pair that belongs to the direction; no call reads or writes outside its windows | inductive with one more fact: what the caller remembers for a step back is a state and a place that were there (`MarkHolds`) |
| `Utf8CodecvtProofs!CutsDoNotMatter`, `OkMeansAll`, `UnshiftIsRight` | what comes out does not depend on how input and output are cut, nor on the places to which `do_length` sends the caller back | `Pieces`: what is written is how the whole begins (`Prefix`), and the caller, the mark and the walk of `do_length` each stand at a place in it (`Place`). A window shows the same character as the text or none (`DecodeMore`), and each round writes what comes next (`ToComeIn`, `ToComeInHalf`, `ToComeOutPair`, ...). That `do_length` arrives at the unit it was asked for needs `Yield`, what `do_in` can make of its window: an incomplete character ends both walks at the same place |
| `Utf8CodecvtProofs!ComesOutInOrder` | every step of the facet is a step of `Transcoding`: it writes a further piece of the text converted to its last whole character, or goes back in what was written, or writes nothing | `Pieces` does not bound what is written by what is due: that needs `Ways`, by which the caller and the mark stand at a character from which the walk over the characters ends where the walk from the beginning does (`Halt`). `MadeIsFirst` splits the text converted in one piece there, and `DueIsMade` says that the first half is what the text cut there becomes (`CutShows`: a cut before an incomplete character hides no other) |
| `WindowsProofs!GetenvIsRight`, `ResultsAreKept`, `NullIsNotSet`, `NoOverwriteIsKept` | `getenv` and `setenv` for any number of threads | two facts about the moment between two system calls strengthen the invariant: the size asked for belongs to a value the variable had (`Asked`), and a caller that keeps the rule finds what the first call saw (`Undisturbed`), or an empty variable that looks missing. They hold for both values of `resetsLastError`: `Looked` says that "not found" after a call is true, or was left there, and `NoCharacters` that only the empty variable has length 0 |
| `WindowsProofs!MainsArraysAreInUse`, `MainIsRestored` | main's variables never point into arrays that are gone, and what main reads through them ends inside; `env` has exactly the variables where no entry but the last is torn; each `args` object restores what it found | `Nested` speaks of every level of the stack: what main's variables were when k instances existed (`WhatIs`) is in use by the first k, each instance remembers what was there before it, and one without `env` has found there what it leaves. So the end of a scope makes the level below what it was. `EnvArrayIs` numbers the kept entries by how many are before each (`Numbers`), so the array has as many pointers before its first null as there are texts, and `EnvIsFound` that these are the variables |
| `ConsoleProofs!CutsDoNotShow`, `FlushShows` | what is shown does not depend on the cuts; nothing but the beginning of a character stays in the buffer after a flush | `ChunkIndependent` alone is not inductive: what is put next may complete the character that waits in the buffer. `Keeps` says it for whatever is put behind (`\A x`): what is put and `x` convert to what is shown and what the buffer and `x` convert to. A `write` keeps that because a character that is complete in a text is the same in a longer one (`DecodeGrows`), and it leaves less than a character behind (`IncompleteIsShort`) |
| `ConsoleProofs!EverythingIsShownInTheEnd`, `PromptsComeFirst`, `TiesAreSafe` | nothing is lost at the end; prompts and errors in order; no stream uses a dead one | `InOrder` says which streams are alive in each phase, `Settled` what a destroyed stream or one that was just flushed has shown |
| `ConsoleProofs!InputIsReadInOrder` | what is read is what was typed, and before it what was put back | the property is inductive together with what the members hold (`Members`): at most one unit is kept between two reads, so that the next one has room, and what is put back lies in an area of its own. `ReadContinues` is the counterpart of `Keeps`: a read takes whole characters, and it makes no difference whether what follows them was there already |
| `ConsoleProofs!EofIsTimely` | underflow returns eof when it should and at no other time, for input in which a line feed follows each carriage return (`Lined`), as the enter key types them in the line input mode | `EofWhenDue` speaks of the text from here on and `was_newline_` of the last chunk: `Lines` relates them. What was read since the start converts, and converts further, as what is kept of it does (`Consumes`), so the end of the last chunk is the end of all that was read (`Starting`); and a chunk that is not the last converts to something (`ReadDelivers`: of two units one is no carriage return, a kept unit is none, and LF is text), so "no bytes" means the end |

The assumptions are those the modules name: distinct names, natural numbers for
sizes, `max_width` bounds the output (`StackString`).

Induction over a text. The induction theorems of the library take an operator as a
parameter, which the installed provers cannot instantiate. `LeastNumber` does without:
a set of numbers that is not empty has a least one, from `WFMin` and
`NatLessThanWellFounded`, which speak of sets and relations. That a recursive function
like the one in `Whole` exists is then the statement that the set of places for which
there is a table from there to the end (`Tails`) has a least member, which is 0; that
two tables agree, that the places where they differ have none.

Only model-checked: that all that is due comes out (the liveness in `ConvertsTheText`),
as the prover has no rule for fairness. `EofIsTimely` needs its hypothesis: a chunk that
is nothing but carriage returns is taken for the end of the input (section 7).

## 5. Findings

1. `console_input_putback`. A character put back in front of unread input replaces
   that input (`console_buffer.cpp:83`).
2. `args_throw`. When the second system call fails the constructor throws, and
   `argc` and `argv` keep their new values, `argv` pointing to freed memory;
   the comment promises that they remain unchanged (`args.hpp:75`).

Observations, where the code does what a caller might not expect. The passing runs are
restricted to callers that avoid it, or their properties make the exception explicit:

1. A bulk read past the get area leaves the old get area behind (`filebuf.hpp:346`), though
   the code is "required to know the (file) position of each char in the get area"
   (`filebuf.hpp:422`). An unget after it succeeds and hands back a character that is not the
   last one read, and a `sync` then seeks back from the wrong place (`filebuf.hpp:441-455`).
   With `UngetDirect = TRUE` in `MCFileBufRefines.cfg` TLC finds `GetMirrorsFile` and the
   refinement violated: after `open` and `sgetc`, which fills the area with two
   characters, `sgetn(3)` takes both and reads the third one past the area, and `sungetc`
   offers the second one again, so that what is unread is not what the file holds before
   the position of the C stream.
2. An entry of the environment that ends in a high surrogate with no low one runs on into
   the next when `fix_env` converts the block as a whole (`args.hpp:164`). The entries were
   counted before (`:161-163`), so the loop (`:168-173`) takes `strlen` behind the texts and
   stores pointers to what is there: main finds fewer variables than there are, and
   perhaps strings that are none. Without its premise `Whole` the last conjunct of
   `ArraysInUse` is violated in the run `args`, by the block `=T:`, `B=2`, `T=x`, `A=1` whose
   first and third entry are torn: there are two texts in it, and the first one begins
   with '='.
3. `getenv` and `setenv` tell an empty variable from a missing one by a last error that
   they do not reset (`cstdlib.cpp:99`, `:120`). If `GetEnvironmentVariableW` may leave it
   alone when it succeeds, an empty variable is taken for missing after a call that
   found none: `getenv` returns null for it and `setenv` with `overwrite = 0` replaces it.
   `NullMeansNotSet`, `GetenvAnswers` and `NoOverwriteKeeps` say that this is the only case.
   The repository's test looks for an empty variable right after a missing one, but not on
   Windows: "Empty variables are unreliable on windows, hence skip" (`test/test_system.cpp:105`).
4. `do_length` answers rightly when it is given the `from_end` that `do_in` was given.
   With a shorter window, as a library passes that ends it at the `from_next` of
   `do_in`, a malformed sequence like E0 80 80, of which `do_in` used up one byte only,
   looks incomplete, and `do_length` stops before it.

## 6. Fairness and liveness

Every component is driven by its caller, and no function waits for another. Where
something must eventually happen it is because the caller goes on: in `Utf8Codecvt` the
caller of a facet repeats its calls until everything is converted. Its specification
says `WF_vars(Next)`: a call that has begun returns, which its loops do, and as long
as there is text left the caller makes another call, with room for `do_max_length` units
when the last one got nowhere and a window that grows. Under this `ConvertsTheText`
shows that everything due comes out, with no cutting that makes the facet turn in
circles (with a `do_max_length` of 3 it would). No other module claims liveness: that
the conversion loops end is `DecodeProgress` together with `source` getting shorter in
each step of `Convert`. Runs whose machine really stops (a conversion that is done, a
program that has ended) or reaches the bound on its length say
`CHECK_DEADLOCK FALSE`.

## 7. What is not modelled

- `cstdio`, `stat`, `system`: convert their arguments and call the C library. The
  check of the structure's size in `stat` fails for no caller of this library.
- `quoted`, `filesystem`: manipulators and a facet's installation, without state.
- Standard streams that are redirected: they get the buffers of `std::cout` and the
  others (`iostream.cpp:98-103`, `:130`) and no more code of this library.
- A console that delivers single keys (`console_buffer.cpp:102` would take a lone
  carriage return for the end of the input), and one that writes part of a text
  (`:55` ignores how much was written).
- A stream that is swapped with or moved to itself, a file open in two streams.
- `config.hpp`, `detail/`, build files, tests and examples. They were read for what
  they say of the code.
- The `wchar_t` instances of the templates: `basic_filebuf<char>` is the only
  filebuf with code of its own.

## 8. Plan

Done: `CFile`, `FileBufObject`, `FileBuf`, `SeekableFile` with the refinement and the
proof of memory safety; `FStreams` above it with proofs of all its properties; `Utf` and `Convert` with
proofs; `Utf8Codecvt` with its refinement, liveness and proofs; `ConsoleOutput`,
`StdStreams` and `ConsoleInput` with proofs; `StackString`, `Environment` and `Args` with
proofs.
