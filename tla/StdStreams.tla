---------------------------- MODULE StdStreams -----------------------------
(***************************************************************************)
(* nowide::cout, cin, cerr and clog of src/iostream.cpp on a console: they *)
(* are constructed one after the other when the program starts, flush each *)
(* other as they are tied, and are destroyed in reverse order when it      *)
(* ends.                                                                   *)
(*                                                                         *)
(* std::ostream and std::istream are external.  An operation on a stream   *)
(* first flushes the stream it is tied to, if it is good itself; with      *)
(* unitbuf it flushes its own buffer afterwards; a failure sets badbit and *)
(* with badbit set nothing is passed on until the program clears it.  What *)
(* cin reads is the subject of ConsoleInput.                               *)
(***************************************************************************)
EXTENDS ConsoleOutput

CONSTANTS Chars,        \* the bytes the program puts into each stream
          MaxPut        \* bound: how many it puts into each stream

Ostreams == {"cout", "cerr", "clog"}

ASSUME CharsAssumption == Chars \in [Ostreams -> SUBSET Bytes]
ASSUME MaxPutAssumption == MaxPut \in [Ostreams -> Nat]

VARIABLES phase,    \* "starting", "running" or "exiting"
          alive,    \* the streams that have been constructed and not destroyed, in this order
          os,       \* the ostreams: their buffer, badbit, and what was put
          event     \* the stream that was used last
vars == <<phase, alive, os, event>>

Nobody == "nobody"

\* Mutant: cerr comes first.
Order_ErrFirst == <<"cerr", "cout", "cin", "clog">>

\* The order of the definitions at the end of the file.
Order == <<"cout", "cin", "cerr", "clog">>

\* Mutant: errors do not wait for output.
Tie_NotCerr(s) == IF s = "cin" THEN "cout" ELSE Nobody

Tie(s) == IF s \in {"cin", "cerr"} THEN "cout" ELSE Nobody

\* isBuffered is false.
Unitbuf(s) == s = "cerr"

\* An ostream: last is how its last operation ended, put the bytes accepted so far.
NewStream == [area |-> FALSE, buffer |-> <<>>, shown |-> <<>>,
              bad |-> FALSE, last |-> "none", put |-> <<>>]

IsAlive(s) == \E i \in DOMAIN alive : alive[i] = s

Init ==
    /\ phase = "starting"
    /\ alive = <<>>
    /\ os = [s \in Ostreams |-> NewStream]
    /\ event = Nobody
----------------------------------------------------------------------------
\* std::ostream.

\* flush: sync is overflow(eof).
Flushed(r, ok) ==
    IF r.bad THEN r
    ELSE [Overflow(r, Eof, ok) EXCEPT !.bad = ~Succeeds(r, ok),
                                      !.last = IF Succeeds(r, ok) THEN "flushed" ELSE "failed"]

\* put(c): what the buffer does not take sets badbit.
PutInto(r, c, ok) ==
    IF r.bad THEN r
    ELSE IF HasRoom(r)
    THEN [r EXCEPT !.buffer = Append(@, c), !.put = Append(@, c), !.last = "stored"]
    ELSE IF Succeeds(r, ok)
    THEN [Overflow(r, c, ok) EXCEPT !.put = Append(@, c), !.last = "stored"]
    ELSE [Overflow(r, c, ok) EXCEPT !.bad = TRUE, !.last = "failed"]

\* What the sentry of an operation on s does to the stream s is tied to.
TieFlushed(f, s, ok) ==
    IF Tie(s) # Nobody /\ (s \in Ostreams => ~f[s].bad)
    THEN [f EXCEPT ![Tie(s)] = Flushed(@, ok)] ELSE f

\* What it does in the end.
UnitFlushed(f, s, ok) == IF Unitbuf(s) THEN [f EXCEPT ![s] = Flushed(@, ok)] ELSE f
----------------------------------------------------------------------------
\* The program.

Construct ==
    /\ phase = "starting"
    /\ alive' = Append(alive, Order[Len(alive) + 1])
    /\ phase' = IF Len(alive') = Len(Order) THEN "running" ELSE "starting"
    /\ UNCHANGED <<os, event>>

\* An output; each write to the console it leads to may fail.
Put(s, c) ==
    /\ phase = "running" /\ ~os[s].bad /\ Len(os[s].put) < MaxPut[s]
    /\ \E tied, own, unit \in BOOLEAN :
           LET f == TieFlushed(os, s, tied)
               g == [f EXCEPT ![s] = PutInto(@, c, own)]
           IN os' = UnitFlushed(g, s, unit)
    /\ event' = s
    /\ UNCHANGED <<phase, alive>>

Flush(s) ==
    /\ phase = "running" /\ ~os[s].bad
    /\ \E tied, own \in BOOLEAN :
           os' = [TieFlushed(os, s, tied) EXCEPT ![s] = Flushed(@, own)]
    /\ event' = s
    /\ UNCHANGED <<phase, alive>>

\* The program's clear().
Clear(s) ==
    /\ phase = "running" /\ os[s].bad
    /\ os' = [os EXCEPT ![s].bad = FALSE]
    /\ UNCHANGED <<phase, alive, event>>

\* cin waits for the user.
Input ==
    /\ phase = "running"
    /\ \E tied \in BOOLEAN : os' = TieFlushed(os, "cin", tied)
    /\ event' = "cin"
    /\ UNCHANGED <<phase, alive>>

\* Mutant: the destructor does not flush.
Finished_NoFlush(s, tied, own) == os

\* ~winconsole_ostream flushes; ~winconsole_istream does nothing.
Finished(s, tied, own) ==
    IF s \notin Ostreams \/ os[s].bad THEN os
    ELSE [TieFlushed(os, s, tied) EXCEPT ![s] = Flushed(@, own)]

\* The static objects of the program, which may use the streams, have been destroyed before.
Destroy ==
    /\ phase \in {"running", "exiting"} /\ alive # <<>>
    /\ LET s == alive[Len(alive)]
       IN \E tied, own \in BOOLEAN : os' = Finished(s, tied, own) /\ event' = s
    /\ alive' = SubSeq(alive, 1, Len(alive) - 1)
    /\ phase' = "exiting"

Next ==
    \/ Construct \/ Input \/ Destroy
    \/ \E s \in Ostreams : Flush(s) \/ Clear(s) \/ \E c \in Chars[s] : Put(s, c)

Spec == Init /\ [][Next]_vars
----------------------------------------------------------------------------
\* Properties.

\* All that is complete of what was put into a stream has been shown.
AllShown(r) == r.shown = Recode(r.put)

\* Wherever the buffer ran full and whenever the program flushed, in the middle of a character or
\* after failed writes, the console has shown and will show the conversion of the bytes put, as
\* if they had been converted in one piece (the leftover that overflow moves to the front).
ChunkIndependent ==
    \A s \in Ostreams :
        LET r == os[s]
        IN /\ r.buffer = After(r.put, Len(r.put) - Len(r.buffer))
           /\ Recode(r.put) = r.shown \o Recode(r.buffer)

\* After a successful flush, and so after every operation on cerr, all that is complete has been
\* shown, illegal bytes included, and what waits is the beginning of one character (sync, overflow,
\* write, unitbuf).
FlushedIsShown ==
    \A s \in Ostreams :
        os[s].last = "flushed" \/ (s = "cerr" /\ os[s].last # "failed") =>
            AllShown(os[s]) /\ Len(os[s].buffer) < 4

\* When the program has ended, everything has been shown but for a stream whose last write failed:
\* each destructor's flush comes in time.
EndsShown ==
    phase = "exiting" /\ alive = <<>> =>
        \A s \in Ostreams : AllShown(os[s]) \/ os[s].last = "failed"

\* When cin waits for the user, and before cerr shows anything, what was put into cout before can
\* be read, or the last attempt to show it failed (cin and cerr are tied to cout).
OutputComesFirst ==
    [][(event' = "cin" /\ phase' = "running") \/ os'["cerr"].shown # os["cerr"].shown =>
          AllShown(os'["cout"]) \/ os'["cout"].last = "failed"]_vars

\* A stream that uses another while it is constructed, used or destroyed finds it alive.
TiedIsAlive ==
    [][event' # Nobody /\ Tie(event') # Nobody => IsAlive(Tie(event'))]_vars
=============================================================================
