---------------------------- MODULE Environment ----------------------------
(***************************************************************************)
(* getenv, setenv, unsetenv and putenv of src/cstdlib.cpp (on Windows),    *)
(* called by several threads.                                              *)
(*                                                                         *)
(* The environment of the process, GetEnvironmentVariableW and             *)
(* SetEnvironmentVariableW are external: each call of them is one step,    *)
(* and a function that makes two of them is two actions.  A value is known *)
(* by its name and its length in wide characters.                          *)
(***************************************************************************)
EXTENDS Integers, FiniteSets

CONSTANTS Threads, Keys,
          Values,           \* the values a variable may have
          Length,           \* their lengths
          BufSize,          \* buf_size of getenv
          Disciplines,      \* whether the program lets nobody run while it modifies the environment
          Resets            \* whether a call of GetEnvironmentVariableW that succeeds clears the last error

ASSUME LengthAssumption ==
    /\ Length \in [Values -> Nat]
    /\ \E v \in Values : Length[v] = 0 /\ \A w \in Values \ {v} : Length[w] # 0
ASSUME BufSizeAssumption == BufSize \in Nat \ {0}
ASSUME FlagsAssumption == Disciplines \subseteq BOOLEAN /\ Resets \subseteq BOOLEAN
ASSUME NamesAssumption == Values \cap {"(not set)", "(undefined)"} = {}

NotSet == "(not set)"        \* no such variable; as a result: a null pointer
Undefined == "(undefined)"   \* what a buffer holds that was too small
EnvVarNotFound == 203

VARIABLES exclusive,        \* whether this program does, which it never changes
          resetsLastError,  \* whether this Windows does, which never changes either
          environ,          \* the environment of the process
          lastError,        \* GetLastError of each thread
          value,            \* value, the thread_local string of getenv
          pc,               \* where a thread is: outside, or between the two calls of a function
          arg,              \* the arguments and locals of the call a thread is in
          done,             \* the call a thread finished last and what it returned
          kept,             \* history: what the pointer getenv gave a thread last pointed to
          held              \* history: what the variable of a thread's last getenv has been during the call
vars == <<exclusive, resetsLastError, environ, lastError, value, pc, arg, done, kept, held>>

NoCall == [key |-> NotSet, size |-> 0, value |-> NotSet]
Nothing == [op |-> "none", result |-> NotSet]

Init ==
    /\ exclusive \in Disciplines
    /\ resetsLastError \in Resets
    /\ environ \in [Keys -> {NotSet} \cup Values]
    /\ lastError = [t \in Threads |-> 0]
    /\ value = [t \in Threads |-> NotSet]
    /\ pc = [t \in Threads |-> "outside"]
    /\ arg = [t \in Threads |-> NoCall]
    /\ done = [t \in Threads |-> Nothing]
    /\ kept = [t \in Threads |-> NotSet]
    /\ held = [t \in Threads |-> {}]
----------------------------------------------------------------------------
\* Windows.

\* GetEnvironmentVariableW: the number of characters without the null if all of them fit into
\* size, else the size it takes.
LengthReturned(k, size) ==
    IF environ[k] = NotSet THEN 0
    ELSE IF Length[environ[k]] < size THEN Length[environ[k]] ELSE Length[environ[k]] + 1

TextReturned(k, size) ==
    IF environ[k] # NotSet /\ Length[environ[k]] < size THEN environ[k] ELSE Undefined

\* The call of t says that there is no variable k, or succeeds: it then clears the last error, or
\* where Windows does not promise that, may leave what an earlier call has set.
ErrorsAfter(t, k) ==
    IF environ[k] = NotSet THEN {EnvVarNotFound}
    ELSE {0} \cup (IF resetsLastError THEN {} ELSE {lastError[t]})

\* What t finds in GetLastError after it has looked for k.
LooksFor(t, k) == \E error \in ErrorsAfter(t, k) : lastError' = [lastError EXCEPT ![t] = error]

\* SetEnvironmentVariableW sets or removes a variable, or fails.
SetVariable(t, k, v) ==
    /\ environ' = [environ EXCEPT ![k] = v]
    /\ held' = [u \in Threads |-> IF u # t /\ pc[u] = "get" /\ arg[u].key = k
                                  THEN held[u] \cup {v} ELSE held[u]]
----------------------------------------------------------------------------
\* Who may run: the callers' part.

\* "This function is thread-safe as long as no other thread modifies the host environment."
MayRead == exclusive => \A u \in Threads : pc[u] # "set"
MayWrite(t) == exclusive => \A u \in Threads \ {t} : pc[u] = "outside"

\* t returns r from getenv or from one of the functions that set.
Returns(t, op, r) ==
    /\ pc' = [pc EXCEPT ![t] = "outside"]
    /\ arg' = [arg EXCEPT ![t] = NoCall]
    /\ done' = [done EXCEPT ![t] = [op |-> op, result |-> r]]

\* Mutant: the string is shared by all threads.
Slots_Shared(t) == Threads

\* value is thread_local.
Slots(t) == {t}

\* getenv returns the converted text in value.
ReturnsText(t, text) ==
    /\ value' = [u \in Threads |-> IF u \in Slots(t) THEN text ELSE value[u]]
    /\ kept' = [kept EXCEPT ![t] = text]
    /\ Returns(t, "getenv", text)

ReturnsNull(t) ==
    /\ Returns(t, "getenv", NotSet)
    /\ UNCHANGED <<value, kept>>

\* The value without characters.
EmptyText == CHOOSE v \in Values : Length[v] = 0
----------------------------------------------------------------------------
\* getenv.

\* Mutant: the last error alone is asked, also after a call that found a text.
IsMissing_ErrorOnly(n, error) == error = EnvVarNotFound

\* No characters and the last error says that there is no such variable.
IsMissing(n, error) == n = 0 /\ error = EnvVarNotFound

TooLong(n) == n >= BufSize

\* The first call, into buf.
Getenv(t, k) ==
    /\ pc[t] = "outside" /\ MayRead
    /\ LooksFor(t, k)
    /\ LET n == LengthReturned(k, BufSize)
       IN \/ /\ IsMissing(n, lastError'[t])
             /\ ReturnsNull(t)
          \/ /\ ~IsMissing(n, lastError'[t]) /\ ~TooLong(n)
             /\ ReturnsText(t, TextReturned(k, BufSize))
          \/ /\ ~IsMissing(n, lastError'[t]) /\ TooLong(n)
             /\ pc' = [pc EXCEPT ![t] = "get"]
             /\ arg' = [arg EXCEPT ![t] = [key |-> k, size |-> n, value |-> NotSet]]
             /\ UNCHANGED <<value, kept, done>>
    /\ held' = [held EXCEPT ![t] = {environ[k]}]
    /\ UNCHANGED environ

\* Mutant: the text is taken to fit because its size was asked for.
StillTooLong_Never(n, size) == FALSE

\* "The size may have changed"
StillTooLong(n, size) == n >= size

\* The second call, into tmp: tmp.size() - 1 is the size the first one returned.
GetenvAgain(t) ==
    /\ pc[t] = "get"
    /\ LET k == arg[t].key
           size == arg[t].size
           n == LengthReturned(k, size)
       IN /\ LooksFor(t, k)
          /\ \/ StillTooLong(n, size) /\ ReturnsNull(t)
             \/ /\ ~StillTooLong(n, size)
                /\ ReturnsText(t, IF n = 0 THEN EmptyText ELSE TextReturned(k, size))
    /\ UNCHANGED <<environ, held>>
----------------------------------------------------------------------------
\* setenv, unsetenv and putenv.

\* The call of SetEnvironmentVariableW that ends each of them.
Sets(t, k, v) ==
    \/ /\ SetVariable(t, k, v)
       /\ Returns(t, "set", "0")
    \/ /\ UNCHANGED <<environ, held>>
       /\ Returns(t, "set", "-1")

Setenv(t, k, v) ==
    /\ pc[t] = "outside" /\ MayWrite(t)
    /\ Sets(t, k, v)
    /\ UNCHANGED <<lastError, value, kept>>

\* Mutant: a variable counts as existing only if it has characters.
Exists_IfNotEmpty(n, error) == n # 0

\* What the call into unused[2] tells about the variable.
Exists(n, error) == n # 0 \/ error # EnvVarNotFound

\* setenv with overwrite = 0 looks whether the variable exists.
SetenvNoOverwrite(t, k, v) ==
    /\ pc[t] = "outside" /\ MayWrite(t)
    /\ LooksFor(t, k)
    /\ \/ /\ Exists(LengthReturned(k, 2), lastError'[t])
          /\ Returns(t, "set", "0")
       \/ /\ ~Exists(LengthReturned(k, 2), lastError'[t])
          /\ pc' = [pc EXCEPT ![t] = "set"]
          /\ arg' = [arg EXCEPT ![t] = [key |-> k, size |-> 0, value |-> v]]
          /\ UNCHANGED done
    /\ UNCHANGED <<environ, value, kept, held>>

\* It does not: set it.
SetenvAgain(t) ==
    /\ pc[t] = "set"
    /\ Sets(t, arg[t].key, arg[t].value)
    /\ UNCHANGED <<lastError, value, kept>>

Unsetenv(t, k) ==
    /\ pc[t] = "outside" /\ MayWrite(t)
    /\ Sets(t, k, NotSet)
    /\ UNCHANGED <<lastError, value, kept>>

\* A string without '=' is refused.
Putenv(t, k, v) ==
    /\ pc[t] = "outside" /\ MayWrite(t)
    /\ \/ Sets(t, k, v)
       \/ Returns(t, "set", "-1") /\ UNCHANGED <<environ, held>>
    /\ UNCHANGED <<lastError, value, kept>>

Next ==
    /\ UNCHANGED <<exclusive, resetsLastError>>
    /\ \E t \in Threads :
           \/ GetenvAgain(t) \/ SetenvAgain(t)
           \/ \E k \in Keys :
                 \/ Getenv(t, k) \/ Unsetenv(t, k)
                 \/ \E v \in Values :
                       Setenv(t, k, v) \/ SetenvNoOverwrite(t, k, v) \/ Putenv(t, k, v)

Spec == Init /\ [][Next]_vars
----------------------------------------------------------------------------
\* Properties.

Texts == {NotSet} \cup Values

\* Types; nobody holds locals of a call outside of it.
TypeOK ==
    /\ exclusive \in BOOLEAN /\ resetsLastError \in BOOLEAN
    /\ environ \in [Keys -> Texts]
    /\ lastError \in [Threads -> {0, EnvVarNotFound}]
    /\ value \in [Threads -> Texts] /\ kept \in [Threads -> Texts]
    /\ pc \in [Threads -> {"outside", "get", "set"}]
    /\ arg \in [Threads -> [key : Keys \cup {NotSet}, size : Nat, value : Texts]]
    /\ done \in [Threads -> [op : {"none", "getenv", "set"}, result : Texts \cup {"0", "-1"}]]
    /\ held \in [Threads -> SUBSET Texts]
    /\ \A t \in Threads :
          /\ pc[t] = "outside" => arg[t] = NoCall
          /\ pc[t] = "get" => arg[t].key \in Keys /\ arg[t].size > BufSize
          /\ pc[t] = "set" => arg[t].key \in Keys /\ arg[t].value \in Values

\* t has just returned from getenv.
Got(t) == pc[t] = "outside" /\ done[t].op = "getenv"

\* The one case where an empty variable is taken for one that is not set (cstdlib.cpp:99, 120):
\* the call that found it, of length 0, has left the last error of an earlier call alone, and
\* that one did not find its variable.
LooksMissing(t, v) == v = EmptyText /\ ~resetsLastError /\ lastError[t] = EnvVarNotFound

\* What getenv returns is what the variable was at some moment of the call, or the null pointer
\* for an empty variable that looks missing. When others modify it meanwhile, and only then, it
\* may also say that there is no such variable (it has grown between the two calls) or that it
\* is empty (it was removed between them): never a text that the variable did not have.
GetenvAnswers ==
    \A t \in Threads : Got(t) =>
        \/ done[t].result \in held[t]
        \/ done[t].result = NotSet /\ \E v \in held[t] : LooksMissing(t, v)
        \/ done[t].result = EmptyText /\ NotSet \in held[t]
        \/ /\ done[t].result = NotSet
           /\ \E v, w \in held[t] \ {NotSet} : Length[v] < Length[w]

\* The string getenv returned to a thread stays what it is until the thread calls getenv again,
\* whatever other threads do to the environment or get from it (value is thread_local).
ResultKept == \A t \in Threads : kept[t] # NotSet => value[t] = kept[t]

\* "Returns 0 if the variable is not set", and then only: a null pointer says that the variable
\* was not set, or was empty and looked missing, where nobody runs while the environment is
\* modified. A variable with characters is never missed, and an empty one is not where a call
\* that succeeds clears the last error.
NullMeansNotSet ==
    exclusive => \A t \in Threads : Got(t) /\ done[t].result = NotSet =>
        NotSet \in held[t] \/ \E v \in held[t] : LooksMissing(t, v)

\* "if overwrite is not 0, that the old value is always overwritten, otherwise, if the variable
\* exists it remains unchanged": where nobody runs while the environment is modified, setenv with
\* overwrite = 0 replaces no value, save an empty one that looks missing.
NoOverwriteKeeps ==
    [][exclusive => \A t \in Threads : pc[t] = "set" /\ pc'[t] = "outside" =>
           \/ environ[arg[t].key] = NotSet
           \/ LooksMissing(t, environ[arg[t].key])
           \/ environ' = environ]_vars
=============================================================================
