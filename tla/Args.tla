-------------------------------- MODULE Args --------------------------------
(***************************************************************************)
(* The class args of include/boost/nowide/args.hpp (on Windows): instances *)
(* live in nested scopes, each replaces argc, argv and env of main by      *)
(* arrays of its own and puts the previous values back when it ends.       *)
(*                                                                         *)
(* The arrays an instance owns are named by the instance; the system calls *)
(* CommandLineToArgvW and GetEnvironmentStringsW are external and may fail.*)
(***************************************************************************)
EXTENDS Integers, Sequences, FiniteSets, SequencesExt

CONSTANTS Instances,      \* the names of the instances
          Strings,        \* the arguments of command lines and the entries of environments
          CommandLines,   \* what CommandLineToArgvW may return: sequences of arguments
          Environments,   \* what GetEnvironmentStringsW may return: sequences of entries
          DriveEntries,   \* the entries that begin with '=', which hold current directories
          Torn            \* the entries that end in a high surrogate with no low one after it

Main == "main"            \* the owner of the arrays main was called with
NullPtr == "null"

ASSUME CommandLinesAssumption == CommandLines \subseteq Seq(Strings) /\ <<>> \notin CommandLines
ASSUME EnvironmentsAssumption == Environments \subseteq Seq(Strings)
ASSUME DriveEntriesAssumption == DriveEntries \subseteq Strings /\ NullPtr \notin Strings
ASSUME TornAssumption == Torn \subseteq Strings

VARIABLES argc, argv, env,   \* main's variables; argv and env: the owner and the index of an array
          scopes,   \* the instances that exist, innermost last, with what they remember
          arrays,   \* args_ and envp_ of the instances in scopes, and the block envp_ is made of
          seen,     \* history: argc, argv and env before each instance in scopes
          ended,    \* how the last constructor or destructor ended
          dangling  \* history: whether fix_env has ever thrown
argsVars == <<argc, argv, env, scopes, arrays, seen, ended, dangling>>

Start == [argc |-> 2, argv |-> [owner |-> Main, at |-> 1], env |-> [owner |-> Main, at |-> 1]]

ArgsInit ==
    /\ argc = Start.argc /\ argv = Start.argv /\ env = Start.env
    /\ scopes = <<>> /\ arrays = <<>> /\ seen = <<>>
    /\ ended = "none" /\ dangling = FALSE

\* Every instance that exists, and the next one to be constructed.
Names == {scopes[i].name : i \in DOMAIN scopes}
----------------------------------------------------------------------------
\* fix_args: the arguments and a null pointer.
ArgsArray(c) == Append(c, NullPtr)

\* The converted block.  The conversion reads the null after a torn entry as the second half of
\* the surrogate pair and replaces both by one character: the entry runs on into the next one.
\* The last one is followed by the null the converter appends.  So these entries begin a text.
Starts(e) == {i \in DOMAIN e : i = 1 \/ e[i - 1] \notin Torn}

\* fix_env counts the entries before it converts them, and looks for as many texts: for each one
\* that ran on it reads behind the texts once.  What it finds there does not begin with '=' the
\* first time, if the null after the last entry is left, and may be anything after that.
Strays(e) ==
    LET surplus == Len(e) - Cardinality(Starts(e))
    IN {n \in 0..surplus : surplus > 0 /\ e[Len(e)] \notin Torn => n > 0}

\* The values in envp_: the number of the entry that begins the text, or one of these.
NullEntry == 0
Behind(e) == Len(e) + 1

Pointed(e) == {i \in Starts(e) : e[i] \notin DriveEntries}

\* Mutant: the pointers are stored at i, not at pos.
EnvArray_NotPacked(e, strays) ==
    [j \in 1..(Len(e) + 1) |-> IF j \in Pointed(e) THEN j ELSE NullEntry]

\* fix_env: count + 1 pointers, null but for those to the texts that do not begin with '=', each
\* at pos, the number of those before it, and after them those behind the texts.
EnvArray(e, strays) ==
    LET kept == Pointed(e)
        pos(i) == Cardinality({k \in kept : k < i})
        rest == Cardinality(kept)..(Cardinality(kept) + strays - 1)
    IN [j \in 1..(Len(e) + 1) |->
            IF \E i \in kept : pos(i) = j - 1 THEN CHOOSE i \in kept : pos(i) = j - 1
            ELSE IF j - 1 \in rest THEN Behind(e) ELSE NullEntry]

\* Mutant: the instance remembers the values main was called with.
Remembered_Start(withEnv) == [argc |-> Start.argc, argv |-> Start.argv, env |-> Start.env,
                              withEnv |-> withEnv]

\* The constructor without env remembers null pointers for it.
Remembered(withEnv) ==
    [argc |-> argc, argv |-> argv, env |-> IF withEnv THEN env ELSE [owner |-> NullPtr, at |-> 1],
     withEnv |-> withEnv]

\* A constructor that gets past fix_args, and past fix_env if it is to replace env.
Constructed(x, withEnv, c, e, strays) ==
    /\ argc' = Len(c) /\ argv' = [owner |-> x, at |-> 1]
    /\ env' = IF withEnv THEN [owner |-> x, at |-> 1] ELSE env
    /\ scopes' = Append(scopes, [name |-> x, old |-> Remembered(withEnv)])
    /\ arrays' = Append(arrays, [args |-> ArgsArray(c),
                                 env |-> IF withEnv THEN EnvArray(e, strays) ELSE <<>>,
                                 block |-> IF withEnv THEN e ELSE <<>>])
    /\ seen' = Append(seen, [argc |-> argc, argv |-> argv, env |-> env])
    /\ ended' = "constructed"
    /\ UNCHANGED dangling

\* fix_args throws before it assigns anything.
ArgsFail ==
    /\ ended' = "threw"
    /\ UNCHANGED <<argc, argv, env, scopes, arrays, seen, dangling>>

\* fix_env throws after fix_args has assigned argc and argv: the arrays of the instance are
\* destroyed with it, and no destructor runs.
EnvFail(x, c) ==
    /\ argc' = Len(c) /\ argv' = [owner |-> x, at |-> 1]
    /\ ended' = "threw" /\ dangling' = TRUE
    /\ UNCHANGED <<env, scopes, arrays, seen>>

Construct(x) ==
    /\ x \notin Names
    /\ \/ ArgsFail
       \/ \E withEnv \in BOOLEAN, c \in CommandLines, e \in Environments :
              \E strays \in Strays(e) : Constructed(x, withEnv, c, e, strays)
       \/ \E c \in CommandLines : EnvFail(x, c)

\* ~args of the innermost instance, at the end of its scope.
Destruct ==
    /\ scopes # <<>>
    /\ LET old == Last(scopes).old
       IN /\ argc' = old.argc /\ argv' = old.argv
          /\ env' = IF old.withEnv THEN old.env ELSE env
    /\ scopes' = Front(scopes) /\ arrays' = Front(arrays) /\ seen' = Front(seen)
    /\ ended' = "destroyed"
    /\ UNCHANGED dangling

\* main moves on to the next argument.
Shift ==
    /\ argc > 1
    /\ argc' = argc - 1 /\ argv' = [argv EXCEPT !.at = @ + 1]
    /\ ended' = "shifted"
    /\ UNCHANGED <<env, scopes, arrays, seen, dangling>>

ArgsNext == (\E x \in Instances : Construct(x)) \/ Destruct \/ Shift

ArgsSpec == ArgsInit /\ [][ArgsNext]_argsVars
----------------------------------------------------------------------------
\* Properties.

\* The arrays of an instance.
ArraysOf(x) == arrays[CHOOSE i \in DOMAIN scopes : scopes[i].name = x]

\* What main reads through env: what is before the first null pointer.
Listed(a) == {a.env[j] : j \in {j \in DOMAIN a.env : \A k \in 1..j : a.env[k] # NullEntry}}

\* The entries of the block that main is to find in env.
Variables(a) == {i \in DOMAIN a.block : a.block[i] \notin DriveEntries}

\* No entry but the last is torn.
Whole(e) == \A i \in 1..(Len(e) - 1) : e[i] \notin Torn

\* As long as fix_env has not thrown, argv and env are main's own or belong to an instance that
\* still exists, and what main reads through them is inside the array and ends with a null pointer:
\* argv at argc, env somewhere.  No text of env begins with '='.  If no entry but the last is torn,
\* main finds every entry that does not begin with '=' in env, and nothing else; where one is, two
\* entries have become one text and env may point behind the texts (fix_args, fix_env, ~args).
ArraysInUse ==
    ~dangling =>
        /\ argv.owner # Main =>
              /\ argv.owner \in Names
              /\ argv.at + argc = Len(ArraysOf(argv.owner).args)
              /\ ArraysOf(argv.owner).args[argv.at + argc] = NullPtr
        /\ env.owner # Main =>
              LET a == ArraysOf(env.owner)
              IN /\ env.owner \in Names
                 /\ Contains(a.env, NullEntry)
                 /\ \A i \in DOMAIN a.block \ Variables(a) : ~Contains(a.env, i)
                 /\ Whole(a.block) => Listed(a) = Variables(a)

\* "It restores the original values in its destructor": what main had before the innermost
\* instance is what it has after it, whatever was nested in it or shifted in between.
RestoresWhatWas ==
    [][ended' = "destroyed" =>
          /\ argc' = Last(seen).argc /\ argv' = Last(seen).argv /\ env' = Last(seen).env]_argsVars

\* "If any of the system calls fails, an exception of type std::runtime_error will be thrown and
\* argc, argv, env remain unchanged."
UnchangedWhenItThrows ==
    [][ended' = "threw" => UNCHANGED <<argc, argv, env>>]_argsVars
=============================================================================
