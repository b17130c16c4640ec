--------------------------- MODULE WindowsProofs ---------------------------
(***************************************************************************)
(* What getenv and setenv promise to any number of threads, for every set  *)
(* of variables and values and every size of the buffer; what the          *)
(* stackstrings they convert with promise, for every size of the strings;  *)
(* and what args promises to main, for every nesting of its instances.     *)
(***************************************************************************)
EXTENDS Environment, StackString, Args, FiniteSetTheorems, TLAPS

----------------------------------------------------------------------------
\* getenv and setenv.

\* Between its two calls getenv has asked for the size of a value the variable had, and what the
\* variable is now is in the history.
Asked ==
    \A t \in Threads : pc[t] = "get" =>
        /\ environ[arg[t].key] \in held[t]
        /\ \E v \in held[t] \ {NotSet} : arg[t].size = Length[v] + 1

\* A caller that lets nobody run while the environment is modified finds between the two calls of
\* a function what the first one has seen, and has seen no variable, or one that looks missing,
\* where setenv goes on.
Undisturbed ==
    exclusive => \A t \in Threads :
        /\ pc[t] = "get" => held[t] = {environ[arg[t].key]}
        /\ pc[t] = "set" => /\ environ[arg[t].key] = NotSet \/ LooksMissing(t, environ[arg[t].key])
                            /\ \A u \in Threads \ {t} : pc[u] = "outside"

\* What getenv said is true of the moment it returned.
Answered ==
    /\ GetenvAnswers
    /\ NullMeansNotSet

Inv == TypeOK /\ ResultKept /\ Asked /\ Undisturbed /\ Answered

LEMMA Sizes ==
    /\ BufSize \in Nat /\ BufSize >= 1
    /\ \A v \in Values : Length[v] \in Nat
    /\ NotSet \notin Values /\ Undefined \notin Values
    /\ EmptyText \in Values
    /\ \A v \in Values : Length[v] = 0 => v = EmptyText
<1>1. BufSize \in Nat /\ BufSize >= 1
  BY BufSizeAssumption
<1>2. PICK e \in Values : Length[e] = 0 /\ \A w \in Values \ {e} : Length[w] # 0
  BY LengthAssumption
<1>3. EmptyText \in Values /\ Length[EmptyText] = 0
  BY <1>2 DEF EmptyText
<1>4. \A v \in Values : Length[v] = 0 => v = EmptyText
  BY <1>2, <1>3
<1>5. \A v \in Values : Length[v] \in Nat
  BY LengthAssumption
<1>6. NotSet \notin Values /\ Undefined \notin Values
  BY NamesAssumption DEF NotSet, Undefined
<1> QED
  BY <1>1, <1>3, <1>4, <1>5, <1>6

\* What a look at the environment leaves in the last error: "not found" for a variable that is not
\* set, and for another one only where the call that succeeds does not clear it.
LEMMA Looked ==
    ASSUME TypeOK, NEW t \in Threads, NEW k \in Keys, LooksFor(t, k)
    PROVE  /\ lastError' \in [Threads -> {0, EnvVarNotFound}]
           /\ \A u \in Threads \ {t} : lastError'[u] = lastError[u]
           /\ environ[k] = NotSet => lastError'[t] = EnvVarNotFound
           /\ lastError'[t] = EnvVarNotFound => environ[k] = NotSet \/ ~resetsLastError
<1>1. PICK error \in ErrorsAfter(t, k) : lastError' = [lastError EXCEPT ![t] = error]
  BY DEF LooksFor
<1>2. lastError \in [Threads -> {0, EnvVarNotFound}]
  BY DEF TypeOK
<1>3. error \in {0, EnvVarNotFound}
  BY <1>2 DEF ErrorsAfter
<1>4. /\ environ[k] = NotSet => error = EnvVarNotFound
      /\ error = EnvVarNotFound => environ[k] = NotSet \/ ~resetsLastError
  BY DEF ErrorsAfter, EnvVarNotFound
<1>5. lastError'[t] = error /\ \A u \in Threads \ {t} : lastError'[u] = lastError[u]
  BY <1>1, <1>2
<1> QED
  BY <1>1, <1>2, <1>3, <1>4, <1>5

\* A variable without characters is the empty one.
LEMMA NoCharacters ==
    ASSUME TypeOK, NEW k \in Keys, NEW size \in Nat, size > 0, LengthReturned(k, size) = 0
    PROVE  environ[k] = NotSet \/ environ[k] = EmptyText
<1>1. environ[k] \in Texts
  BY DEF TypeOK
<1>2. CASE environ[k] \in Values
  <2>1. environ[k] # NotSet /\ Length[environ[k]] \in Nat
    BY <1>2, Sizes
  <2>2. Length[environ[k]] = 0
    BY <2>1 DEF LengthReturned
  <2> QED
    BY <1>2, <2>2, Sizes
<1> QED
  BY <1>1, <1>2 DEF Texts

\* A write by t, and what the others may see of it.
LEMMA SetsKeep ==
    ASSUME Inv, UNCHANGED <<exclusive, resetsLastError>>, NEW t \in Threads, NEW k \in Keys, NEW v \in Texts,
           pc[t] \in {"outside", "set"},
           exclusive => \A u \in Threads \ {t} : pc[u] = "outside",
           Sets(t, k, v), UNCHANGED <<lastError, value, kept>>
    PROVE  Inv'
<1>1. TypeOK /\ ResultKept /\ Asked /\ Undisturbed /\ GetenvAnswers
      /\ NullMeansNotSet
  BY DEF Inv, Answered
<1>2. PICK r \in {"0", "-1"} : Returns(t, "set", r)
  BY DEF Sets
<1>3. /\ pc'[t] = "outside" /\ arg'[t] = NoCall /\ done'[t].op = "set"
      /\ \A u \in Threads \ {t} : pc'[u] = pc[u] /\ arg'[u] = arg[u] /\ done'[u] = done[u]
  BY <1>1, <1>2 DEF Returns, TypeOK
<1>4. \/ /\ environ' = [environ EXCEPT ![k] = v]
         /\ held' = [u \in Threads |-> IF u # t /\ pc[u] = "get" /\ arg[u].key = k
                                       THEN held[u] \cup {v} ELSE held[u]]
      \/ environ' = environ /\ held' = held
  BY DEF Sets, SetVariable
<1>5. TypeOK'
  <2>1. /\ environ' \in [Keys -> Texts] /\ held' \in [Threads -> SUBSET Texts]
        /\ lastError' \in [Threads -> {0, EnvVarNotFound}]
        /\ value' \in [Threads -> Texts] /\ kept' \in [Threads -> Texts]
    <3>1. environ' \in [Keys -> Texts]
      BY <1>1, <1>4 DEF TypeOK
    <3>2. held \in [Threads -> SUBSET Texts]
      BY <1>1 DEF TypeOK
    <3>3. held' \in [Threads -> SUBSET Texts]
      BY <1>4, <3>2
    <3> QED
      BY <1>1, <3>1, <3>3 DEF TypeOK
  <2>2. /\ pc' \in [Threads -> {"outside", "get", "set"}]
        /\ arg' \in [Threads -> [key : Keys \cup {NotSet}, size : Nat, value : Texts]]
        /\ done' \in [Threads -> [op : {"none", "getenv", "set"}, result : Texts \cup {"0", "-1"}]]
    BY <1>1, <1>2 DEF TypeOK, Returns, NoCall, Texts
  <2>3. \A u \in Threads :
          /\ pc'[u] = "outside" => arg'[u] = NoCall
          /\ pc'[u] = "get" => arg'[u].key \in Keys /\ arg'[u].size > BufSize
          /\ pc'[u] = "set" => arg'[u].key \in Keys /\ arg'[u].value \in Values
    BY <1>1, <1>3 DEF TypeOK
  <2> QED
    BY <1>1, <2>1, <2>2, <2>3 DEF TypeOK
<1>6. ResultKept'
  BY <1>1 DEF ResultKept
<1>7. Asked'
  <2> SUFFICES ASSUME NEW u \in Threads, pc'[u] = "get"
               PROVE  /\ environ'[arg'[u].key] \in held'[u]
                      /\ \E w \in held'[u] \ {NotSet} : arg'[u].size = Length[w] + 1
    BY DEF Asked
  <2>1. u # t /\ pc[u] = "get" /\ arg'[u] = arg[u] /\ arg[u].key \in Keys
    BY <1>1, <1>3 DEF TypeOK
  <2>2. PICK w \in held[u] \ {NotSet} : arg[u].size = Length[w] + 1
    BY <1>1, <2>1 DEF Asked
  <2>3. held[u] \subseteq held'[u]
    BY <1>4, <2>1
  <2>4. environ'[arg[u].key] \in held'[u]
    <3>1. CASE held' = held /\ environ' = environ
      BY <1>1, <2>1, <3>1 DEF Asked
    <3>2. CASE environ' = [environ EXCEPT ![k] = v] /\ arg[u].key = k
      <4>1. environ'[k] = v \/ environ' = environ
        BY <1>1, <3>2 DEF TypeOK
      <4> QED
        BY <1>1, <1>4, <2>1, <3>2, <4>1 DEF Asked, TypeOK
    <3>3. CASE environ' = [environ EXCEPT ![k] = v] /\ arg[u].key # k
      <4>1. environ'[arg[u].key] = environ[arg[u].key]
        BY <1>1, <2>1, <3>3 DEF TypeOK
      <4> QED
        BY <1>1, <2>1, <2>3, <4>1 DEF Asked
    <3> QED
      BY <1>4, <3>1, <3>2, <3>3
  <2> QED
    BY <2>1, <2>2, <2>3, <2>4
<1>8. Undisturbed'
  <2>1. exclusive' = exclusive /\ \A u \in Threads : \A w : LooksMissing(u, w)' <=> LooksMissing(u, w)
    BY DEF LooksMissing
  <2>2. \A u \in Threads : exclusive => pc'[u] # "get" \/ u # t
    BY <1>3
  <2> QED
    BY <1>1, <1>3, <1>4, <2>1, <2>2 DEF Undisturbed, TypeOK
<1>9. Answered'
  <2>1. \A u \in Threads : Got(u)' => u # t /\ Got(u) /\ done'[u] = done[u] /\ held'[u] = held[u]
    BY <1>1, <1>3, <1>4 DEF Got, TypeOK
  <2>0. \A u \in Threads : \A w : LooksMissing(u, w)' <=> LooksMissing(u, w)
    BY DEF LooksMissing
  <2>2. GetenvAnswers'
    BY <1>1, <2>0, <2>1 DEF GetenvAnswers
  <2>3. NullMeansNotSet'
    <3>1. exclusive' => exclusive
      OBVIOUS
    <3>2. CASE ~exclusive
      BY <3>1, <3>2 DEF NullMeansNotSet
    <3>3. CASE exclusive
      <4>1. \A u \in Threads : Got(u) /\ done[u].result = NotSet =>
                NotSet \in held[u] \/ \E w \in held[u] : LooksMissing(u, w)
        BY <1>1, <3>3 DEF NullMeansNotSet
      <4> QED
        BY <2>0, <2>1, <4>1 DEF NullMeansNotSet
    <3> QED
      BY <3>2, <3>3
  <2> QED
    BY <2>2, <2>3 DEF Answered
<1> QED
  BY <1>5, <1>6, <1>7, <1>8, <1>9 DEF Inv

\* setenv with overwrite = 0, up to its second call.
LEMMA SetenvNoOverwriteKeeps ==
    ASSUME Inv, UNCHANGED <<exclusive, resetsLastError>>, NEW t \in Threads, NEW k \in Keys, NEW v \in Values,
           SetenvNoOverwrite(t, k, v)
    PROVE  Inv'
<1> USE Sizes
<1>1. TypeOK /\ ResultKept /\ Asked /\ Undisturbed /\ Answered
  BY DEF Inv
<1>2. /\ environ' = environ /\ value' = value /\ kept' = kept /\ held' = held
      /\ pc[t] = "outside" /\ MayWrite(t)
      /\ LooksFor(t, k)
  BY DEF SetenvNoOverwrite
<1>3. /\ lastError' \in [Threads -> {0, EnvVarNotFound}]
      /\ \A u \in Threads \ {t} : lastError'[u] = lastError[u]
      /\ lastError'[t] = EnvVarNotFound => environ[k] = NotSet \/ ~resetsLastError
  BY <1>1, <1>2, Looked
<1>0. \A u \in Threads \ {t} : \A w : LooksMissing(u, w)' <=> LooksMissing(u, w)
  BY <1>3 DEF LooksMissing
<1>4. CASE Returns(t, "set", "0")
  <2>1. TypeOK'
    BY <1>1, <1>2, <1>3, <1>4 DEF Returns, TypeOK, NoCall, Texts
  <2>2. ResultKept' /\ Asked' /\ Undisturbed'
    BY <1>0, <1>1, <1>2, <1>4 DEF Returns, ResultKept, Asked, Undisturbed, TypeOK
  <2>3. Answered'
    BY <1>0, <1>1, <1>2, <1>4 DEF Returns, Answered, GetenvAnswers, NullMeansNotSet, Got, TypeOK
  <2> QED
    BY <2>1, <2>2, <2>3 DEF Inv
<1>5. CASE /\ ~Exists(LengthReturned(k, 2), lastError'[t])
           /\ pc' = [pc EXCEPT ![t] = "set"]
           /\ arg' = [arg EXCEPT ![t] = [key |-> k, size |-> 0, value |-> v]]
           /\ done' = done
  <2>1. environ[k] = NotSet \/ LooksMissing(t, environ[k])'
    BY <1>1, <1>2, <1>3, <1>5, NoCharacters DEF Exists, LooksMissing
  <2>3. TypeOK'
    BY <1>1, <1>2, <1>3, <1>5 DEF TypeOK, Texts
  <2>4. ResultKept' /\ Asked'
    BY <1>1, <1>2, <1>5 DEF ResultKept, Asked, TypeOK
  <2>5. Undisturbed'
    BY <1>0, <1>1, <1>2, <1>5, <2>1 DEF Undisturbed, MayWrite, LooksMissing, TypeOK
  <2>6. Answered'
    BY <1>0, <1>1, <1>2, <1>5 DEF Answered, GetenvAnswers, NullMeansNotSet, Got, TypeOK
  <2> QED
    BY <2>3, <2>4, <2>5, <2>6 DEF Inv
<1> QED
  BY <1>4, <1>5 DEF SetenvNoOverwrite

\* getenv of t returns r, which is true of what the history holds.
LEMMA ReturnsKeep ==
    ASSUME Inv, UNCHANGED <<exclusive, resetsLastError>>, NEW t \in Threads, NEW k \in Keys, NEW r \in Texts,
           \/ r = NotSet /\ ReturnsNull(t)
           \/ r \in Values /\ ReturnsText(t, r),
           environ' = environ, lastError' \in [Threads -> {0, EnvVarNotFound}],
           \A u \in Threads \ {t} : lastError'[u] = lastError[u],
           held' \in [Threads -> SUBSET Texts],
           \A u \in Threads \ {t} : held'[u] = held[u],
           \/ r \in held'[t]
           \/ r = NotSet /\ \E v \in held'[t] : LooksMissing(t, v)'
           \/ r = EmptyText /\ NotSet \in held'[t]
           \/ r = NotSet /\ \E v, w \in held'[t] \ {NotSet} : Length[v] < Length[w],
           exclusive /\ r = NotSet =>
               NotSet \in held'[t] \/ \E v \in held'[t] : LooksMissing(t, v)'
    PROVE  Inv'
<1> USE Sizes
<1>1. TypeOK /\ ResultKept /\ Asked /\ Undisturbed /\ GetenvAnswers
      /\ NullMeansNotSet
  BY DEF Inv, Answered
<1>2. Returns(t, "getenv", r)
  BY DEF ReturnsNull, ReturnsText
<1>3. /\ pc'[t] = "outside" /\ arg'[t] = NoCall /\ done'[t].result = r
      /\ \A u \in Threads \ {t} : pc'[u] = pc[u] /\ arg'[u] = arg[u] /\ done'[u] = done[u]
  BY <1>1, <1>2 DEF Returns, TypeOK
<1>4. \/ value' = value /\ kept' = kept
      \/ /\ value' = [u \in Threads |-> IF u = t THEN r ELSE value[u]]
         /\ kept' = [kept EXCEPT ![t] = r]
  BY DEF ReturnsNull, ReturnsText, Slots
<1>5. TypeOK'
  <2>1. value' \in [Threads -> Texts] /\ kept' \in [Threads -> Texts]
    <3>1. value \in [Threads -> Texts] /\ kept \in [Threads -> Texts]
      BY <1>1 DEF TypeOK
    <3> QED
      BY <1>4, <3>1
  <2>2. /\ pc' \in [Threads -> {"outside", "get", "set"}]
        /\ arg' \in [Threads -> [key : Keys \cup {NotSet}, size : Nat, value : Texts]]
        /\ done' \in [Threads -> [op : {"none", "getenv", "set"}, result : Texts \cup {"0", "-1"}]]
    BY <1>1, <1>2 DEF TypeOK, Returns, NoCall, Texts
  <2>3. \A u \in Threads :
          /\ pc'[u] = "outside" => arg'[u] = NoCall
          /\ pc'[u] = "get" => arg'[u].key \in Keys /\ arg'[u].size > BufSize
          /\ pc'[u] = "set" => arg'[u].key \in Keys /\ arg'[u].value \in Values
    BY <1>1, <1>3 DEF TypeOK
  <2> QED
    BY <1>1, <2>1, <2>2, <2>3 DEF TypeOK
<1>6. ResultKept'
  BY <1>1, <1>4 DEF ResultKept, TypeOK
<1>0. \A u \in Threads \ {t} : \A w : LooksMissing(u, w)' <=> LooksMissing(u, w)
  BY DEF LooksMissing
<1>7. Asked' /\ Undisturbed'
  BY <1>0, <1>1, <1>3 DEF Asked, Undisturbed
<1>8. Answered'
  BY <1>0, <1>1, <1>3 DEF Answered, GetenvAnswers, NullMeansNotSet, Got
<1> QED
  BY <1>5, <1>6, <1>7, <1>8 DEF Inv

\* The first call of getenv.
LEMMA GetenvKeeps ==
    ASSUME Inv, UNCHANGED <<exclusive, resetsLastError>>, NEW t \in Threads, NEW k \in Keys, Getenv(t, k)
    PROVE  Inv'
<1> USE Sizes
<1> DEFINE n == LengthReturned(k, BufSize)
<1>1. TypeOK /\ ResultKept /\ Asked /\ Undisturbed /\ Answered
  BY DEF Inv
<1>2. /\ environ' = environ /\ pc[t] = "outside" /\ MayRead
      /\ LooksFor(t, k)
      /\ held' = [held EXCEPT ![t] = {environ[k]}]
  BY DEF Getenv
<1>3. /\ environ[k] \in Texts
      /\ held'[t] = {environ[k]} /\ held' \in [Threads -> SUBSET Texts]
      /\ \A u \in Threads \ {t} : held'[u] = held[u]
  BY <1>1, <1>2 DEF TypeOK
<1>4. /\ lastError' \in [Threads -> {0, EnvVarNotFound}]
      /\ \A u \in Threads \ {t} : lastError'[u] = lastError[u]
      /\ environ[k] = NotSet => lastError'[t] = EnvVarNotFound
      /\ lastError'[t] = EnvVarNotFound => environ[k] = NotSet \/ ~resetsLastError
  BY <1>1, <1>2, Looked
<1>0. \A u \in Threads \ {t} : \A w : LooksMissing(u, w)' <=> LooksMissing(u, w)
  BY <1>4 DEF LooksMissing
<1>5. CASE IsMissing(n, lastError'[t]) /\ ReturnsNull(t)
  <2>1. environ[k] = NotSet \/ LooksMissing(t, environ[k])'
    BY <1>1, <1>2, <1>4, <1>5, NoCharacters DEF IsMissing, LooksMissing
  <2>2. NotSet \in held'[t] \/ \E v \in held'[t] : LooksMissing(t, v)'
    BY <1>2, <1>3, <2>1
  <2>3. NotSet \in Texts
    BY DEF Texts
  <2> HIDE DEF n
  <2> QED
    BY <1>2, <1>3, <1>4, <1>5, <2>2, <2>3, ReturnsKeep
<1>6. CASE /\ ~IsMissing(n, lastError'[t]) /\ ~TooLong(n)
           /\ ReturnsText(t, TextReturned(k, BufSize))
  <2>1. environ[k] # NotSet
    BY <1>4, <1>6 DEF IsMissing, LengthReturned
  <2>2. environ[k] \in Values /\ Length[environ[k]] < BufSize
    BY <1>3, <1>6, <2>1 DEF Texts, TooLong, LengthReturned
  <2>3. TextReturned(k, BufSize) = environ[k]
    BY <2>1, <2>2 DEF TextReturned
  <2> QED
    BY <1>2, <1>3, <1>4, <1>6, <2>1, <2>2, <2>3, ReturnsKeep
<1>7. CASE /\ ~IsMissing(n, lastError'[t]) /\ TooLong(n)
           /\ pc' = [pc EXCEPT ![t] = "get"]
           /\ arg' = [arg EXCEPT ![t] = [key |-> k, size |-> n, value |-> NotSet]]
           /\ UNCHANGED <<value, kept, done>>
  <2>1. environ[k] # NotSet
    BY <1>7 DEF TooLong, LengthReturned
  <2>2. environ[k] \in Values /\ n = Length[environ[k]] + 1 /\ n > BufSize
    BY <1>3, <1>7, <2>1 DEF Texts, TooLong, LengthReturned
  <2> HIDE DEF n
  <2>4. TypeOK'
    BY <1>1, <1>2, <1>3, <1>4, <1>7, <2>2 DEF TypeOK, Texts
  <2>5. ResultKept'
    BY <1>1, <1>7 DEF ResultKept
  <2>6. Asked'
    BY <1>1, <1>2, <1>3, <1>7, <2>1, <2>2 DEF Asked, TypeOK
  <2>7. Undisturbed'
    BY <1>0, <1>1, <1>2, <1>3, <1>7 DEF Undisturbed, MayRead, TypeOK
  <2>8. Answered'
    BY <1>0, <1>1, <1>3, <1>7 DEF Answered, GetenvAnswers, NullMeansNotSet, Got, TypeOK
  <2> QED
    BY <2>4, <2>5, <2>6, <2>7, <2>8 DEF Inv
<1> QED
  BY <1>5, <1>6, <1>7 DEF Getenv

\* The second call of getenv.
LEMMA GetenvAgainKeeps ==
    ASSUME Inv, UNCHANGED <<exclusive, resetsLastError>>, NEW t \in Threads, GetenvAgain(t)
    PROVE  Inv'
<1> USE Sizes
<1> DEFINE k == arg[t].key
           size == arg[t].size
           n == LengthReturned(k, size)
<1>1. TypeOK /\ ResultKept /\ Asked /\ Undisturbed /\ Answered
  BY DEF Inv
<1>2. /\ environ' = environ /\ held' = held /\ pc[t] = "get"
      /\ LooksFor(t, k)
  BY DEF GetenvAgain
<1>3. /\ k \in Keys /\ environ[k] \in Texts /\ environ[k] \in held[t] /\ held[t] \subseteq Texts
      /\ exclusive => held[t] = {environ[k]}
  BY <1>1, <1>2 DEF TypeOK, Asked, Undisturbed
<1>4. PICK v \in held[t] \ {NotSet} : size = Length[v] + 1
  BY <1>1, <1>2 DEF Asked
<1>5. v \in Values /\ Length[v] \in Nat
  BY <1>3 DEF Texts
<1>6. /\ lastError' \in [Threads -> {0, EnvVarNotFound}]
      /\ \A u \in Threads \ {t} : lastError'[u] = lastError[u]
      /\ held' \in [Threads -> SUBSET Texts]
  BY <1>1, <1>2, <1>3, Looked DEF TypeOK
<1>7. CASE StillTooLong(n, size) /\ ReturnsNull(t)
  <2>1. environ[k] \in held[t] \ {NotSet} /\ Length[v] < Length[environ[k]]
    BY <1>3, <1>4, <1>5, <1>7 DEF StillTooLong, LengthReturned, Texts
  <2>2. ~exclusive
    BY <1>3, <1>4, <1>5, <2>1 DEF Texts
  <2> HIDE DEF k, size, n
  <2> QED
    BY <1>2, <1>3, <1>4, <1>6, <1>7, <2>1, <2>2, ReturnsKeep DEF Texts
<1>8. CASE /\ ~StillTooLong(n, size)
           /\ ReturnsText(t, IF n = 0 THEN EmptyText ELSE TextReturned(k, size))
  <2> DEFINE r == IF n = 0 THEN EmptyText ELSE TextReturned(k, size)
  <2>1. r \in Values /\ (r \in held[t] \/ (r = EmptyText /\ NotSet \in held[t]))
    <3>1. CASE environ[k] = NotSet
      BY <1>3, <3>1 DEF LengthReturned
    <3>2. CASE environ[k] # NotSet /\ Length[environ[k]] < size /\ Length[environ[k]] # 0
      BY <1>3, <3>2 DEF LengthReturned, TextReturned, Texts
    <3>3. CASE environ[k] # NotSet /\ Length[environ[k]] = 0
      BY <1>3, <1>5, <1>4, <3>3 DEF LengthReturned, Texts
    <3>4. CASE environ[k] # NotSet /\ ~(Length[environ[k]] < size)
      BY <1>3, <1>4, <1>5, <1>8, <3>4 DEF StillTooLong, LengthReturned, Texts
    <3> QED
      BY <3>1, <3>2, <3>3, <3>4
  <2> HIDE DEF k, size, n, r
  <2> QED
    BY <1>2, <1>3, <1>6, <1>8, <2>1, ReturnsKeep DEF Texts, r
<1> QED
  BY <1>7, <1>8 DEF GetenvAgain

\* Every step keeps the invariant.
LEMMA NextKeeps ==
    ASSUME Inv, [Next]_vars
    PROVE  Inv'
<1>1. TypeOK /\ Undisturbed
  BY DEF Inv
<1>0. UNCHANGED <<exclusive, resetsLastError>>
  BY DEF Next, vars
<1>2. ASSUME NEW t \in Threads, GetenvAgain(t) PROVE Inv'
  BY <1>0, <1>2, GetenvAgainKeeps
<1>3. ASSUME NEW t \in Threads, SetenvAgain(t) PROVE Inv'
  <2>1. arg[t].key \in Keys /\ arg[t].value \in Texts /\ pc[t] = "set"
    BY <1>1, <1>3 DEF SetenvAgain, TypeOK
  <2>2. exclusive => \A u \in Threads \ {t} : pc[u] = "outside"
    BY <1>1, <2>1 DEF Undisturbed
  <2>3. Sets(t, arg[t].key, arg[t].value) /\ UNCHANGED <<lastError, value, kept>>
    BY <1>3 DEF SetenvAgain
  <2> QED
    BY <1>0, <2>1, <2>2, <2>3, SetsKeep
<1>4. ASSUME NEW t \in Threads, NEW k \in Keys, Getenv(t, k) PROVE Inv'
  BY <1>0, <1>4, GetenvKeeps
<1>5. ASSUME NEW t \in Threads, NEW k \in Keys, Unsetenv(t, k) PROVE Inv'
  <2>1. NotSet \in Texts
    BY DEF Texts
  <2> QED
    BY <1>0, <1>5, <2>1, SetsKeep DEF Unsetenv, MayWrite
<1>6. ASSUME NEW t \in Threads, NEW k \in Keys, NEW v \in Values, Setenv(t, k, v) PROVE Inv'
  <2>1. v \in Texts
    BY DEF Texts
  <2> QED
    BY <1>0, <1>6, <2>1, SetsKeep DEF Setenv, MayWrite
<1>7. ASSUME NEW t \in Threads, NEW k \in Keys, NEW v \in Values, SetenvNoOverwrite(t, k, v)
      PROVE Inv'
  BY <1>0, <1>7, SetenvNoOverwriteKeeps
<1>8. ASSUME NEW t \in Threads, NEW k \in Keys, NEW v \in Values, Putenv(t, k, v) PROVE Inv'
  <2>1. v \in Texts
    BY DEF Texts
  <2>2. Sets(t, k, v)
    BY <1>8 DEF Putenv, Sets
  <2> QED
    BY <1>0, <1>8, <2>1, <2>2, SetsKeep DEF Putenv, MayWrite
<1>9. CASE UNCHANGED vars
  BY <1>9 DEF vars, Inv, TypeOK, ResultKept, Asked, Undisturbed, Answered, GetenvAnswers,
              NullMeansNotSet, LooksMissing, Got
<1> QED
  BY <1>2, <1>3, <1>4, <1>5, <1>6, <1>7, <1>8, <1>9 DEF Next

LEMMA InitHolds == Init => Inv
<1> SUFFICES ASSUME Init PROVE Inv
  OBVIOUS
<1>1. TypeOK
  BY FlagsAssumption DEF Init, TypeOK, Texts, NoCall, Nothing
<1>2. ResultKept /\ Asked /\ Undisturbed /\ Answered
  BY DEF Init, ResultKept, Asked, Undisturbed, Answered, GetenvAnswers, NullMeansNotSet, Got, Nothing
<1> QED
  BY <1>1, <1>2 DEF Inv

LEMMA Invariant == Spec => []Inv
<1>1. Inv /\ [Next]_vars => Inv'
  BY NextKeeps
<1> QED
  BY <1>1, InitHolds, PTL DEF Spec

\* Whoever modifies the environment meanwhile, getenv returns what the variable was at some moment
\* of the call; or the null pointer where the variable has grown between its two calls, or is empty
\* and looks missing; or the empty string where it was removed.
THEOREM GetenvIsRight == Spec => []GetenvAnswers
<1>1. Inv => GetenvAnswers
  BY DEF Inv, Answered
<1> QED
  BY <1>1, Invariant, PTL

\* The string a thread got from getenv is the thread's own until it calls getenv again.
THEOREM ResultsAreKept == Spec => []ResultKept
<1>1. Inv => ResultKept
  BY DEF Inv
<1> QED
  BY <1>1, Invariant, PTL

\* If nobody runs while the environment is modified, the null pointer says that the variable was
\* not set; or was empty, on a Windows whose call that succeeds may leave the last error alone,
\* after a call that found no variable.
THEOREM NullIsNotSet == Spec => []NullMeansNotSet
<1>1. Inv => NullMeansNotSet
  BY DEF Inv, Answered
<1> QED
  BY <1>1, Invariant, PTL

\* If nobody runs while the environment is modified, setenv with overwrite = 0 keeps the value of
\* a variable that exists; save an empty one, on the same Windows and after such a call.
THEOREM NoOverwriteIsKept == Spec => NoOverwriteKeeps
<1> DEFINE Kept ==
      exclusive => \A t \in Threads : pc[t] = "set" /\ pc'[t] = "outside" =>
          \/ environ[arg[t].key] = NotSet
          \/ LooksMissing(t, environ[arg[t].key])
          \/ environ' = environ
<1>1. Inv => Kept
  BY DEF Inv, Undisturbed
<1>2. Inv /\ [Next]_vars => [Kept]_vars
  BY <1>1
<1> QED
  BY <1>2, Invariant, PTL DEF Spec, NoOverwriteKeeps
----------------------------------------------------------------------------
\* stackstring.

\* The three properties together are inductive: what the next call frees depends on who owns the
\* block, and what it copies on what the other object holds.
Owns == StringTypeOK /\ OwnsItsMemory /\ HoldsWhatIsMeant

\* The names of pointers that are not objects or blocks differ from those that are.
LEMMA StringNames ==
    /\ Null \notin Objects /\ Null \notin Blocks
    /\ \A x \in Objects : x \notin Blocks
    /\ NoString \notin Inputs /\ Garbage \notin Inputs /\ NoString # Garbage
BY PlacesAssumption DEF Null, NoString, Garbage

\* convert never writes behind the end of the buffer or of the block it allocates.
LEMMA EverythingFits ==
    ASSUME NEW i \in Inputs
    PROVE  /\ FitsOnStack(i) => ~(OutLength[i] + 1 > BufferSize)
           /\ ~(OutLength[i] + 1 > MaxOutputSize(i))
<1>1. /\ OutLength[i] \in Nat /\ InLength[i] \in Nat /\ MaxWidth \in Nat /\ BufferSize \in Nat
      /\ OutLength[i] <= InLength[i] * MaxWidth
  BY SizesAssumption
<1> DEFINE n == InLength[i] * MaxWidth
<1>2. n \in Nat
  BY <1>1
<1>3. OutLength[i] <= n
  BY <1>1
<1> HIDE DEF n
<1>4. ~(OutLength[i] + 1 > n + 1)
  BY <1>1, <1>2, <1>3
<1> QED
  BY <1>1, <1>4 DEF n, FitsOnStack, MaxOutputSize

\* What an object that owns its memory has: nobody else points to it, and it is in use.
LEMMA Owned ==
    ASSUME StringTypeOK, OwnsItsMemory, NEW x \in Objects
    PROVE  /\ ~BadDelete(x)
           /\ data[x] \in Blocks <=> (data[x] # Null /\ ~OnStack(x))
           /\ \A y \in Objects \ {x} : data[y] \in {Null, y} \cup HeapAfterClear(x)
           /\ \A y \in Objects \ {x} : data[y] # x
           /\ HeapAfterClear(x) \subseteq heap
           /\ \A b \in HeapAfterClear(x) : \E y \in live \ {x} : data[y] = b
BY StringNames DEF StringTypeOK, OwnsItsMemory, BadDelete, OnStack, HeapAfterClear, Places

\* The text of an object's string is an input.
LEMMA TextIsInput ==
    ASSUME Owns, NEW y \in live, data[y] # Null
    PROVE  text[data[y]] \in Inputs /\ meant[y] = text[data[y]]
BY StringNames DEF Owns, StringTypeOK, OwnsItsMemory, HoldsWhatIsMeant, Get, Places

LEMMA IntoBufferKeeps ==
    ASSUME Owns, NEW x \in Objects, NEW s \in Inputs, NEW o \in BOOLEAN, ~o, IntoBuffer(x, s, o)
    PROVE  Owns'
<1> USE StringNames
<1>1. StringTypeOK /\ OwnsItsMemory /\ HoldsWhatIsMeant
  BY DEF Owns
<1>2. StringTypeOK'
  BY <1>1, Owned DEF IntoBuffer, Holds, StringTypeOK, Places
<1>3. OwnsItsMemory'
  BY <1>1, Owned DEF IntoBuffer, OwnsItsMemory, StringTypeOK
<1>4. HoldsWhatIsMeant'
  BY <1>1, Owned DEF IntoBuffer, Holds, HoldsWhatIsMeant, Get, StringTypeOK, Places
<1> QED
  BY <1>2, <1>3, <1>4 DEF Owns

LEMMA IntoBlockKeeps ==
    ASSUME Owns, NEW x \in Objects, NEW s \in Inputs, NEW spoils \in BOOLEAN,
           NEW o \in BOOLEAN, ~o, IntoBlock(x, s, spoils, o)
    PROVE  Owns'
<1> USE StringNames
<1>1. StringTypeOK /\ OwnsItsMemory /\ HoldsWhatIsMeant
  BY DEF Owns
<1>2. PICK b \in Blocks \ HeapAfterClear(x) :
          /\ data' = [data EXCEPT ![x] = b]
          /\ text' = [text EXCEPT ![b] = s, ![x] = IF spoils THEN Garbage ELSE @]
          /\ heap' = HeapAfterClear(x) \cup {b}
  BY DEF IntoBlock
<1>3. /\ fault' = (fault \/ BadDelete(x) \/ o)
      /\ live' = live \cup {x}
      /\ Holds(x, s, "returned")
  BY DEF IntoBlock
<1>4. StringTypeOK'
  BY <1>1, <1>2, <1>3, Owned DEF Holds, StringTypeOK, Places
<1>5. \A y \in Objects \ {x} : data'[y] = data[y] /\ data[y] # b
  BY <1>1, <1>2, Owned DEF StringTypeOK
<1>6. OwnsItsMemory'
  <2>1. data'[x] = b
    BY <1>1, <1>2 DEF StringTypeOK
  <2>2. ~fault'
    BY <1>1, <1>3, Owned DEF OwnsItsMemory
  <2>3. \A y \in Objects : data'[y] \in {Null, y} \cup heap'
    BY <1>1, <1>2, <1>5, <2>1, Owned
  <2>4. \A y, z \in Objects : data'[y] = data'[z] /\ y # z => data'[y] = Null
    BY <1>1, <1>5, <2>1 DEF OwnsItsMemory
  <2>5. \A c \in heap' : \E y \in live' : data'[y] = c
    BY <1>1, <1>2, <1>3, <1>5, <2>1, Owned DEF StringTypeOK
  <2> QED
    BY <2>2, <2>3, <2>4, <2>5 DEF OwnsItsMemory
<1>7. HoldsWhatIsMeant'
  <2>1. data'[x] = b /\ text'[b] = s /\ meant'[x] = s
    BY <1>1, <1>2, <1>3 DEF StringTypeOK, Holds, Places
  <2>2. ASSUME NEW y \in live, y # x
        PROVE  Get(y)' = meant'[y]
    <3>1. data'[y] = data[y] /\ data[y] # b /\ data[y] # x /\ meant'[y] = meant[y]
      BY <1>1, <1>3, <1>5, <2>2, Owned DEF StringTypeOK, Holds
    <3>2. data[y] # Null => text'[data[y]] = text[data[y]]
      BY <1>1, <1>2, <3>1 DEF StringTypeOK, Places
    <3> QED
      BY <1>1, <3>1, <3>2 DEF HoldsWhatIsMeant, Get
  <2> QED
    BY <1>3, <2>1, <2>2 DEF HoldsWhatIsMeant, Get
<1> QED
  BY <1>4, <1>6, <1>7 DEF Owns

LEMMA NewThrowsKeeps ==
    ASSUME Owns, NEW x \in Objects, NEW spoils \in BOOLEAN, NewThrows(x, spoils)
    PROVE  Owns'
<1> USE StringNames
<1>1. StringTypeOK /\ OwnsItsMemory /\ HoldsWhatIsMeant
  BY DEF Owns
<1>2. StringTypeOK'
  BY <1>1, Owned DEF NewThrows, Holds, StringTypeOK, Places
<1>3. OwnsItsMemory'
  BY <1>1, Owned DEF NewThrows, OwnsItsMemory, StringTypeOK
<1>4. HoldsWhatIsMeant'
  BY <1>1, Owned DEF NewThrows, Holds, HoldsWhatIsMeant, Get, StringTypeOK, Places
<1> QED
  BY <1>2, <1>3, <1>4 DEF Owns

LEMMA ClearKeeps ==
    ASSUME Owns, NEW x \in Objects, Clear(x)
    PROVE  Owns'
<1> USE StringNames
<1>1. StringTypeOK /\ OwnsItsMemory /\ HoldsWhatIsMeant
  BY DEF Owns
<1>2. StringTypeOK'
  BY <1>1, Owned DEF Clear, Holds, StringTypeOK, Places
<1>3. OwnsItsMemory'
  BY <1>1, Owned DEF Clear, OwnsItsMemory, StringTypeOK
<1>4. HoldsWhatIsMeant'
  BY <1>1, Owned DEF Clear, Holds, HoldsWhatIsMeant, Get, StringTypeOK, Places
<1> QED
  BY <1>2, <1>3, <1>4 DEF Owns

LEMMA DestroyKeeps ==
    ASSUME Owns, NEW x \in Objects, Destroy(x)
    PROVE  Owns'
<1> USE StringNames
<1>1. StringTypeOK /\ OwnsItsMemory /\ HoldsWhatIsMeant
  BY DEF Owns
<1>2. StringTypeOK'
  BY <1>1, Owned DEF Destroy, Holds, StringTypeOK, Places
<1>3. OwnsItsMemory'
  BY <1>1, Owned DEF Destroy, OwnsItsMemory, StringTypeOK
<1>4. HoldsWhatIsMeant'
  BY <1>1, Owned DEF Destroy, Holds, HoldsWhatIsMeant, Get, StringTypeOK, Places
<1> QED
  BY <1>2, <1>3, <1>4 DEF Owns

LEMMA SwapKeeps ==
    ASSUME Owns, NEW x \in Objects, NEW y \in Objects, Swap(x, y)
    PROVE  Owns'
<1> USE StringNames
<1>1. StringTypeOK /\ OwnsItsMemory /\ HoldsWhatIsMeant
  BY DEF Owns
<1>2. x # y /\ x \in live /\ y \in live
  BY DEF Swap
<1>3. /\ data'[x] = IF OnStack(y) THEN x ELSE data[y]
      /\ data'[y] = IF OnStack(x) THEN y ELSE data[x]
      /\ \A z \in Objects : z # x /\ z # y => data'[z] = data[z]
  BY <1>1, <1>2 DEF Swap, SwapData, StringTypeOK
<1>4. StringTypeOK'
  BY <1>1, <1>2 DEF Swap, SwapData, SwapText, StringTypeOK, Places
<1>5. OwnsItsMemory'
  <2>1. ~fault' /\ heap' = heap /\ live' = live
    BY <1>1 DEF Swap, OwnsItsMemory
  <2>2. \A z \in Objects : data'[z] \in {Null, z} \cup heap'
    BY <1>1, <1>2, <1>3, <2>1 DEF OwnsItsMemory, OnStack
  <2>3. \A z, w \in Objects : data'[z] = data'[w] /\ z # w => data'[z] = Null
    BY <1>1, <1>2, <1>3, Owned DEF OwnsItsMemory, OnStack
  <2>4. \A b \in heap' : \E z \in live' : data'[z] = b
    <3> SUFFICES ASSUME NEW b \in heap PROVE \E z \in live : data'[z] = b
      BY <2>1
    <3>1. PICK w \in live : data[w] = b
      BY <1>1 DEF OwnsItsMemory
    <3>2. w \in Objects /\ ~OnStack(w)
      BY <1>1, <3>1 DEF StringTypeOK, OnStack
    <3>3. CASE w = x
      BY <1>2, <1>3, <3>1, <3>2, <3>3
    <3>4. CASE w = y
      BY <1>2, <1>3, <3>1, <3>2, <3>4
    <3>5. CASE w # x /\ w # y
      BY <1>3, <3>1, <3>2, <3>5
    <3> QED
      BY <3>3, <3>4, <3>5
  <2> QED
    BY <2>1, <2>2, <2>3, <2>4 DEF OwnsItsMemory
<1>6. HoldsWhatIsMeant'
  BY <1>1, <1>2, <1>3, Owned DEF Swap, SwapText, HoldsWhatIsMeant, Get, OnStack, StringTypeOK, Places
<1> QED
  BY <1>4, <1>5, <1>6 DEF Owns

\* Every call keeps the invariant.
LEMMA StringsKeep == Owns /\ [StringNext]_stringVars => Owns'
<1> USE StringNames
<1> SUFFICES ASSUME Owns, [StringNext]_stringVars PROVE Owns'
  OBVIOUS
<1>1. ASSUME NEW x \in Objects, Reset(x) PROVE Owns'
  BY <1>1, ClearKeeps DEF Reset
<1>2. ASSUME NEW x \in Objects, Destroy(x) PROVE Owns'
  BY <1>2, DestroyKeeps
<1>3. ASSUME NEW x \in Objects, NEW i \in Inputs, Convert(x, i) PROVE Owns'
  <2> DEFINE over == OutLength[i] + 1 > BufferSize
             overBlock == OutLength[i] + 1 > MaxOutputSize(i)
  <2>1. /\ over \in BOOLEAN /\ overBlock \in BOOLEAN /\ SpoilsBuffer(i) \in BOOLEAN
        /\ FitsOnStack(i) => ~over
        /\ ~overBlock
    BY EverythingFits DEF SpoilsBuffer
  <2>2. \/ FitsOnStack(i) /\ IntoBuffer(x, i, over)
        \/ IntoBlock(x, i, SpoilsBuffer(i), overBlock)
        \/ NewThrows(x, SpoilsBuffer(i))
    BY <1>3 DEF Convert
  <2> HIDE DEF over, overBlock
  <2> QED
    BY <2>1, <2>2, IntoBufferKeeps, IntoBlockKeeps, NewThrowsKeeps
<1>4. ASSUME NEW x \in Objects, NEW y \in Objects, Assign(x, y) PROVE Owns'
  <2>1. y \in live
    BY <1>4 DEF Assign
  <2>2. CASE OnStack(y) /\ IntoBuffer(x, text[y], FALSE)
    <3>1. text[y] \in Inputs
      BY <2>1, <2>2, TextIsInput DEF OnStack
    <3> QED
      BY <2>2, <3>1, IntoBufferKeeps
  <2>3. CASE data[y] # Null /\ IntoBlock(x, text[data[y]], FALSE, FALSE)
    <3>1. text[data[y]] \in Inputs
      BY <2>1, <2>3, TextIsInput
    <3> QED
      BY <2>3, <3>1, IntoBlockKeeps
  <2>4. CASE NewThrows(x, FALSE)
    BY <2>4, NewThrowsKeeps
  <2>5. CASE Clear(x)
    BY <2>5, ClearKeeps
  <2> QED
    BY <1>4, <2>2, <2>3, <2>4, <2>5 DEF Assign
<1>5. ASSUME NEW x \in Objects, NEW y \in Objects, Swap(x, y) PROVE Owns'
  BY <1>5, SwapKeeps
<1>6. CASE UNCHANGED stringVars
  BY <1>6 DEF stringVars, Owns, StringTypeOK, OwnsItsMemory, HoldsWhatIsMeant, Get
<1> QED
  BY <1>1, <1>2, <1>3, <1>4, <1>5, <1>6 DEF StringNext

LEMMA StringsInvariant == StringSpec => []Owns
<1>1. StringInit => Owns
  BY StringNames DEF StringInit, Owns, StringTypeOK, OwnsItsMemory, HoldsWhatIsMeant, Places
<1> QED
  BY <1>1, StringsKeep, PTL DEF StringSpec

\* Whatever is done with any number of stackstrings, none of them points into another one or
\* shares a block with it, and no block is freed twice, overrun or lost, exceptions included.
THEOREM MemoryIsOwned == StringSpec => []OwnsItsMemory
<1>1. Owns => OwnsItsMemory
  BY DEF Owns
<1> QED
  BY <1>1, StringsInvariant, PTL

\* get() of every object points to the string that was last converted, assigned or swapped to it.
THEOREM StringsAreKept == StringSpec => []HoldsWhatIsMeant
<1>1. Owns => HoldsWhatIsMeant
  BY DEF Owns
<1> QED
  BY <1>1, StringsInvariant, PTL
----------------------------------------------------------------------------
\* args.

Pointers == Strings \cup {NullPtr}

\* The values of main's variables, and the instances with their arrays.
Arrays(owners) == [owner : owners, at : Nat]
MainsArrays == Arrays(Instances \cup {Main})
Scopes == [name : Instances,
           old : [argc : Nat, argv : MainsArrays,
                  env : Arrays(Instances \cup {Main, NullPtr}), withEnv : BOOLEAN]]
OwnArrays == [args : Seq(Pointers), env : Seq(Nat), block : Seq(Strings)]
ScopesType ==
    /\ argc \in Nat /\ argv \in MainsArrays /\ env \in MainsArrays
    /\ scopes \in Seq(Scopes)
    /\ arrays \in Seq(OwnArrays)
    /\ seen \in Seq([argc : Nat, argv : MainsArrays, env : MainsArrays])
    /\ Len(arrays) = Len(scopes) /\ Len(seen) = Len(scopes)
    /\ dangling \in BOOLEAN

\* No two of the instances that exist have the same name.
NamesDiffer ==
    \A i, j \in 1..Len(scopes) : scopes[i].name = scopes[j].name => i = j

\* What main's variables are when k instances exist: what the next one has found, or what they
\* are now.
WhatIs(k) ==
    IF k = Len(scopes) THEN [argc |-> argc, argv |-> argv, env |-> env] ELSE seen[k + 1]

\* Each instance remembers what it has found.  One without env has found there what it leaves.
Remembers ==
    \A k \in 1..Len(scopes) :
        /\ scopes[k].old.argc = seen[k].argc /\ scopes[k].old.argv = seen[k].argv
        /\ scopes[k].old.withEnv => scopes[k].old.env = seen[k].env
        /\ ~scopes[k].old.withEnv => WhatIs(k).env = seen[k].env

\* What main finds in the env of an instance.
FindsItsEnv(a) ==
    /\ Contains(a.env, NullEntry)
    /\ \A i \in DOMAIN a.block \ Variables(a) : ~Contains(a.env, i)
    /\ Whole(a.block) => Listed(a) = Variables(a)

\* The arrays in use when k instances exist belong to one of these or are main's own.
ArgsInUse(k) ==
    WhatIs(k).argv.owner # Main =>
        \E i \in 1..k : /\ scopes[i].name = WhatIs(k).argv.owner
                        /\ WhatIs(k).argv.at + WhatIs(k).argc = Len(arrays[i].args)
                        /\ arrays[i].args[Len(arrays[i].args)] = NullPtr
EnvInUse(k) ==
    WhatIs(k).env.owner # Main =>
        \E i \in 1..k : scopes[i].name = WhatIs(k).env.owner /\ FindsItsEnv(arrays[i])
AllInUse == ~dangling => \A k \in 0..Len(scopes) : ArgsInUse(k) /\ EnvInUse(k)

Nested == ScopesType /\ NamesDiffer /\ Remembers /\ AllInUse

\* What the system calls return can be pointed to.
LEMMA StringsArePointers ==
    ASSUME NEW s \in Seq(Strings)
    PROVE  s \in Seq(Pointers)
BY DEF Pointers

LEMMA FirstNumbers ==
    ASSUME NEW n \in Nat
    PROVE  IsFiniteSet(1..n) /\ Cardinality(1..n) = n
<1>1. 1 \in Int /\ n \in Int
  OBVIOUS
<1>2. IsFiniteSet(1..n) /\ Cardinality(1..n) = IF 1 > n THEN 0 ELSE n - 1 + 1
  BY <1>1, FS_Interval
<1>3. (IF 1 > n THEN 0 ELSE n - 1 + 1) = n
  OBVIOUS
<1> QED
  BY <1>2, <1>3

\* The number of smaller members numbers those of a finite set of numbers from 0 on.
CountBelow(K, i) == Cardinality({k \in K : k < i})

LEMMA Numbers ==
    ASSUME NEW n \in Nat, NEW K \in SUBSET (1..n), NEW m, m = Cardinality(K)
    PROVE  /\ m \in Nat /\ m <= n
           /\ \A i \in K : CountBelow(K, i) \in 0..(m - 1)
           /\ \A i, j \in K : CountBelow(K, i) = CountBelow(K, j) => i = j
           /\ \A p \in 0..(m - 1) : \E i \in K : CountBelow(K, i) = p
<1> DEFINE under(i) == {k \in K : k < i}
<1>1. IsFiniteSet(K) /\ m \in Nat /\ m <= n
  <2>1. IsFiniteSet(1..n) /\ Cardinality(1..n) = n
    BY FirstNumbers
  <2>2. IsFiniteSet(K) /\ Cardinality(K) <= n
    BY <2>1, FS_Subset
  <2> QED
    BY <2>2, FS_CardinalityType
<1>2. ASSUME NEW i PROVE IsFiniteSet(under(i)) /\ CountBelow(K, i) = Cardinality(under(i))
                         /\ Cardinality(under(i)) \in Nat
  <2>1. under(i) \in SUBSET K
    OBVIOUS
  <2>2. IsFiniteSet(under(i))
    BY <1>1, <2>1, FS_Subset
  <2> QED
    BY <2>2, FS_CardinalityType DEF CountBelow
<1>3. ASSUME NEW i \in K PROVE CountBelow(K, i) \in 0..(m - 1)
  <2>1. IsFiniteSet(K \ {i}) /\ Cardinality(K \ {i}) = m - 1
    BY <1>1, FS_RemoveElement
  <2>2. under(i) \in SUBSET (K \ {i})
    OBVIOUS
  <2>3. Cardinality(under(i)) <= m - 1
    BY <2>1, <2>2, FS_Subset
  <2> HIDE DEF under
  <2> QED
    BY <1>1, <1>2, <2>3
<1>4. ASSUME NEW i \in K, NEW j \in K, i < j PROVE CountBelow(K, i) # CountBelow(K, j)
  <2>1. IsFiniteSet(under(i) \cup {i}) /\ Cardinality(under(i) \cup {i}) = Cardinality(under(i)) + 1
    <3>1. i \notin under(i)
      OBVIOUS
    <3>2. IsFiniteSet(under(i))
      BY <1>2
    <3> HIDE DEF under
    <3> QED
      BY <3>1, <3>2, FS_AddElement
  <2>2. under(i) \cup {i} \in SUBSET under(j)
    <3>1. \A k \in K : k < i => k < j
      BY <1>4
    <3> QED
      BY <1>4, <3>1
  <2>3. IsFiniteSet(under(j)) /\ Cardinality(under(j)) \in Nat
        /\ Cardinality(under(i)) \in Nat
    BY <1>2
  <2> HIDE DEF under
  <2>4. Cardinality(under(i) \cup {i}) <= Cardinality(under(j))
    BY <2>2, <2>3, FS_Subset
  <2> QED
    BY <1>2, <2>1, <2>3, <2>4
<1> HIDE DEF under
<1>5. \A i, j \in K : CountBelow(K, i) = CountBelow(K, j) => i = j
  <2> SUFFICES ASSUME NEW i \in K, NEW j \in K, i # j PROVE CountBelow(K, i) # CountBelow(K, j)
    OBVIOUS
  <2>1. i < j \/ j < i
    OBVIOUS
  <2> QED
    BY <1>4, <2>1
<1>6. ASSUME NEW p \in 0..(m - 1) PROVE \E i \in K : CountBelow(K, i) = p
  <2> DEFINE T == 0..(m - 1)
             f == [i \in K |-> CountBelow(K, i)]
  <2>1. f \in [K -> T] /\ \A i \in K : f[i] = CountBelow(K, i)
    BY <1>3
  <2>2. IsFiniteSet(T) /\ Cardinality(T) = m
    <3>1. 0 \in Int /\ m - 1 \in Int
      BY <1>1
    <3>2. IsFiniteSet(T) /\ Cardinality(T) = IF 0 > m - 1 THEN 0 ELSE (m - 1) - 0 + 1
      BY <3>1, FS_Interval
    <3> HIDE DEF T
    <3> QED
      BY <1>1, <3>2
  <2>3. p \in T
    OBVIOUS
  <2> HIDE DEF T, f
  <2>4. f \in Injection(K, T)
    BY <1>5, <2>1 DEF Injection, IsInjective
  <2>5. f \in Surjection(K, T)
    BY <1>1, <2>2, <2>4, FS_Injection
  <2> QED
    BY <2>1, <2>3, <2>5 DEF Surjection
<1> QED
  BY <1>1, <1>3, <1>5, <1>6

\* Where envp_ points: to the texts that do not begin with '=', then behind them, then nowhere.
PointsTo(v, e, strays, K, m, n) ==
    /\ n \in Nat /\ m \in Nat /\ m + strays <= n /\ strays \in Nat /\ K \subseteq 1..n
    /\ Whole(e) => strays = 0 /\ K = {i \in 1..n : e[i] \notin DriveEntries}
    /\ v \in Seq(Nat) /\ Len(v) = n + 1
    /\ \A j \in 1..m : v[j] \in K
    /\ \A i \in K : \E j \in 1..m : v[j] = i
    /\ \A j \in (m + 1)..(n + 1) : v[j] = IF j <= m + strays THEN n + 1 ELSE NullEntry

LEMMA EnvArrayIs ==
    ASSUME NEW e \in Environments, NEW strays \in Strays(e), NEW K, K = Pointed(e),
           NEW m, m = Cardinality(K), NEW v, v = EnvArray(e, strays), NEW n, n = Len(e)
    PROVE  PointsTo(v, e, strays, K, m, n)
<1> DEFINE S == Starts(e)
           has(j) == \E i \in K : CountBelow(K, i) = j - 1
           pick(j) == CHOOSE i \in K : CountBelow(K, i) = j - 1
           rest == m..(m + strays - 1)
           at(j) == IF has(j) THEN pick(j) ELSE IF j - 1 \in rest THEN n + 1 ELSE NullEntry
           all == [j \in 1..(n + 1) |-> at(j)]
<1>1. n \in Nat /\ DOMAIN e = 1..n
  BY EnvironmentsAssumption
<1>2. S \in SUBSET (1..n) /\ K \in SUBSET S /\ K \subseteq 1..n
  BY <1>1 DEF Starts, Pointed
<1>3. Cardinality(S) \in Nat /\ Cardinality(S) <= n /\ IsFiniteSet(S)
  <2>1. IsFiniteSet(1..n) /\ Cardinality(1..n) = n
    BY <1>1, FirstNumbers
  <2> HIDE DEF S
  <2>2. IsFiniteSet(S) /\ Cardinality(S) <= n
    BY <1>2, <2>1, FS_Subset
  <2> QED
    BY <2>2, FS_CardinalityType
<1>4. strays \in Nat /\ strays <= n - Cardinality(S)
  BY <1>1, <1>3 DEF Strays
<1>5. m \in Nat /\ m <= Cardinality(S)
  <2> HIDE DEF S
  <2>1. IsFiniteSet(K) /\ m <= Cardinality(S)
    BY <1>2, <1>3, FS_Subset
  <2> QED
    BY <2>1, FS_CardinalityType
<1>6. m + strays <= n
  <2> HIDE DEF S
  <2> QED
    BY <1>1, <1>3, <1>4, <1>5
<1>7. Whole(e) => strays = 0 /\ K = {i \in 1..n : e[i] \notin DriveEntries}
  <2> SUFFICES ASSUME Whole(e) PROVE strays = 0 /\ K = {i \in 1..n : e[i] \notin DriveEntries}
    OBVIOUS
  <2>1. ASSUME NEW i \in 1..n PROVE i \in S
    <3>1. i = 1 \/ i - 1 \in 1..(Len(e) - 1)
      BY <1>1
    <3> QED
      BY <1>1, <3>1 DEF Starts, Whole
  <2>2. S = 1..n
    BY <1>2, <2>1
  <2>3. Cardinality(1..n) = n
    BY <1>1, FirstNumbers
  <2>4. strays = 0
    <3>1. Cardinality(S) = n
      BY <2>2, <2>3
    <3> HIDE DEF S
    <3> QED
      BY <1>1, <1>4, <3>1
  <2> QED
    BY <2>2, <2>4 DEF Pointed
<1>8. v = all
  BY DEF EnvArray, CountBelow, Behind
<1> HIDE DEF S
<1>9. /\ \A i \in K : CountBelow(K, i) \in 0..(m - 1)
      /\ \A i, j \in K : CountBelow(K, i) = CountBelow(K, j) => i = j
      /\ \A p \in 0..(m - 1) : \E i \in K : CountBelow(K, i) = p
  BY <1>1, <1>2, Numbers
<1>10. \A j \in 1..m : has(j) /\ at(j) \in K /\ CountBelow(K, at(j)) = j - 1
  <2> SUFFICES ASSUME NEW j \in 1..m PROVE has(j) /\ at(j) \in K /\ CountBelow(K, at(j)) = j - 1
    OBVIOUS
  <2>1. j - 1 \in 0..(m - 1)
    BY <1>5
  <2>2. has(j)
    BY <1>9, <2>1
  <2>3. pick(j) \in K /\ CountBelow(K, pick(j)) = j - 1
    BY <2>2
  <2> QED
    BY <2>2, <2>3
<1>11. \A j \in (m + 1)..(n + 1) : at(j) = IF j <= m + strays THEN n + 1 ELSE NullEntry
  <2> SUFFICES ASSUME NEW j \in (m + 1)..(n + 1)
               PROVE  at(j) = IF j <= m + strays THEN n + 1 ELSE NullEntry
    OBVIOUS
  <2>1. ~has(j)
    BY <1>5, <1>9
  <2>2. j - 1 \in rest <=> j <= m + strays
    BY <1>4, <1>5
  <2> QED
    BY <2>1, <2>2
<1> HIDE DEF has, pick, rest, at
<1>12. \A j \in 1..(n + 1) : at(j) \in Nat
  <2> SUFFICES ASSUME NEW j \in 1..(n + 1) PROVE at(j) \in Nat
    OBVIOUS
  <2>1. j \in 1..m \/ j \in (m + 1)..(n + 1)
    BY <1>1, <1>5
  <2>2. NullEntry \in Nat /\ n + 1 \in Nat
    BY <1>1 DEF NullEntry
  <2> QED
    BY <1>2, <1>10, <1>11, <2>1, <2>2
<1>13. v \in Seq(Nat) /\ Len(v) = n + 1 /\ \A j \in 1..(n + 1) : v[j] = at(j)
  BY <1>1, <1>8, <1>12
<1> HIDE DEF all
<1>14. \A j \in 1..m : j \in 1..(n + 1)
  BY <1>1, <1>4, <1>5, <1>6
<1>15. \A j \in (m + 1)..(n + 1) : j \in 1..(n + 1)
  BY <1>1, <1>5
<1>16. ASSUME NEW i \in K PROVE \E j \in 1..m : v[j] = i
  <2> DEFINE j == CountBelow(K, i) + 1
  <2>1. j \in 1..m /\ j - 1 = CountBelow(K, i)
    BY <1>5, <1>9
  <2> HIDE DEF j
  <2>2. at(j) = i
    BY <1>9, <1>10, <2>1
  <2> QED
    BY <1>13, <1>14, <2>1, <2>2
<1> QED
  BY <1>1, <1>2, <1>4, <1>5, <1>6, <1>7, <1>10, <1>11, <1>13, <1>14, <1>15, <1>16 DEF PointsTo

LEMMA EnvArrayType ==
    ASSUME NEW e \in Environments, NEW strays \in Strays(e)
    PROVE  EnvArray(e, strays) \in Seq(Nat)
<1> DEFINE v == EnvArray(e, strays)
<1> HIDE DEF v
<1>1. PointsTo(v, e, strays, Pointed(e), Cardinality(Pointed(e)), Len(e))
  BY EnvArrayIs DEF v
<1> QED
  BY <1>1 DEF PointsTo, v

\* So main finds a null pointer after the entries, and what does not begin with '='.
LEMMA EnvIsFound ==
    ASSUME NEW e \in Environments, NEW strays \in Strays(e),
           NEW a, a.env = EnvArray(e, strays), a.block = e
    PROVE  FindsItsEnv(a)
<1> DEFINE n == Len(e)
           K == Pointed(e)
           m == Cardinality(K)
           v == a.env
<1>0. n = Len(e) /\ K = Pointed(e) /\ m = Cardinality(K) /\ v = EnvArray(e, strays)
  OBVIOUS
<1> HIDE DEF n, K, m, v
<1>1. /\ n \in Nat /\ m \in Nat /\ m + strays <= n /\ strays \in Nat /\ K \subseteq 1..n
      /\ Whole(e) => strays = 0 /\ K = {i \in 1..n : e[i] \notin DriveEntries}
      /\ v \in Seq(Nat) /\ Len(v) = n + 1
      /\ \A j \in 1..m : v[j] \in K
      /\ \A i \in K : \E j \in 1..m : v[j] = i
      /\ \A j \in (m + 1)..(n + 1) : v[j] = IF j <= m + strays THEN n + 1 ELSE NullEntry
  <2>1. PointsTo(v, e, strays, K, m, n)
    BY <1>0, EnvArrayIs
  <2> QED
    BY <2>1 DEF PointsTo
<1>2. DOMAIN e = 1..n
  BY <1>0, EnvironmentsAssumption
<1>3. \A i \in K : e[i] \notin DriveEntries
  BY <1>0 DEF Pointed
<1>4. DOMAIN v = 1..(n + 1)
  BY <1>1
<1>5. ASSUME NEW j \in 1..(n + 1) PROVE j \in 1..m \/ j \in (m + 1)..(n + 1)
  BY <1>1
<1>6. n + 1 \in (m + 1)..(n + 1) /\ n + 1 \in 1..(n + 1) /\ ~(n + 1 <= m + strays)
  BY <1>1
<1>7. Contains(v, NullEntry)
  <2>1. v[n + 1] = NullEntry
    BY <1>1, <1>6
  <2> QED
    BY <1>1, <1>6, <2>1 DEF Contains
<1>8. ASSUME NEW i \in DOMAIN a.block \ Variables(a) PROVE ~Contains(v, i)
  <2>1. i \in 1..n /\ e[i] \in DriveEntries
    BY <1>2 DEF Variables
  <2>2. i \notin K /\ i # n + 1 /\ i # NullEntry
    BY <1>1, <1>3, <2>1 DEF NullEntry
  <2>3. \A j \in 1..(n + 1) : v[j] # i
    BY <1>1, <1>5, <2>2
  <2> QED
    BY <1>1, <2>3 DEF Contains
<1>9. ASSUME Whole(a.block) PROVE Listed(a) = Variables(a)
  <2>1. strays = 0 /\ K = Variables(a)
    BY <1>1, <1>2, <1>9 DEF Variables
  <2>2. \A j \in 1..m : v[j] # NullEntry
    BY <1>1 DEF NullEntry
  <2>3. ASSUME NEW j \in (m + 1)..(n + 1) PROVE v[j] = NullEntry
    <3>1. ~(j <= m + strays)
      BY <1>1, <2>1
    <3> QED
      BY <1>1, <3>1
  <2>4. ASSUME NEW j \in 1..m PROVE j \in 1..(n + 1) /\ \A k \in 1..j : k \in 1..m
    BY <1>1
  <2>5. ASSUME NEW j \in (m + 1)..(n + 1) PROVE j \in 1..j
    BY <1>1
  <2> DEFINE read == {j \in DOMAIN v : \A k \in 1..j : v[k] # NullEntry}
  <2>6. read = 1..m
    <3>1. ASSUME NEW j \in 1..m PROVE j \in read
      BY <1>4, <2>2, <2>4
    <3>2. ASSUME NEW j \in read PROVE j \in 1..m
      BY <1>4, <1>5, <2>3, <2>5
    <3> QED
      BY <3>1, <3>2
  <2>7. Listed(a) = {v[j] : j \in read}
    BY DEF Listed, v
  <2> HIDE DEF read
  <2>8. {v[j] : j \in 1..m} = K
    <3>1. \A j \in 1..m : v[j] \in K
      BY <1>1
    <3>2. \A i \in K : \E j \in 1..m : v[j] = i
      BY <1>1
    <3> QED
      BY <3>1, <3>2
  <2> QED
    BY <2>1, <2>6, <2>7, <2>8
<1> QED
  BY <1>7, <1>8, <1>9 DEF FindsItsEnv, v

\* The arguments end with a null pointer.
LEMMA ArgsEndWithNull ==
    ASSUME NEW c \in CommandLines
    PROVE  /\ Len(c) \in Nat
           /\ ArgsArray(c) \in Seq(Pointers)
           /\ Len(ArgsArray(c)) = Len(c) + 1
           /\ ArgsArray(c)[Len(c) + 1] = NullPtr
<1>1. c \in Seq(Pointers) /\ NullPtr \in Pointers
  BY StringsArePointers, CommandLinesAssumption DEF Pointers
<1> QED
  BY <1>1 DEF ArgsArray

\* What is below an instance stays as it is when the instance comes or goes.
LEMMA AppendKeeps ==
    ASSUME NEW T, NEW s \in Seq(T), NEW x \in T
    PROVE  /\ Append(s, x) \in Seq(T) /\ Len(Append(s, x)) = Len(s) + 1 /\ Len(s) \in Nat
           /\ \A i \in 1..Len(s) : Append(s, x)[i] = s[i]
           /\ Append(s, x)[Len(s) + 1] = x
OBVIOUS

LEMMA FrontKeeps ==
    ASSUME NEW T, NEW s \in Seq(T), s # <<>>
    PROVE  /\ Front(s) \in Seq(T) /\ Len(Front(s)) = Len(s) - 1 /\ Len(s) \in Nat \ {0}
           /\ \A i \in 1..(Len(s) - 1) : Front(s)[i] = s[i]
           /\ Last(s) = s[Len(s)] /\ Last(s) \in T
<1>1. Len(s) \in Nat /\ Len(s) # 0
  OBVIOUS
<1> DEFINE m == Len(s) - 1
<1>2. m \in 0..Len(s) /\ Len(s) \in 1..Len(s)
  BY <1>1
<1>3. Front(s) = SubSeq(s, 1, m) /\ Last(s) = s[Len(s)]
  BY DEF Front, Last
<1> HIDE DEF m
<1>4. /\ SubSeq(s, 1, m) \in Seq(T) /\ Len(SubSeq(s, 1, m)) = m
      /\ \A i \in 1..m : SubSeq(s, 1, m)[i] = s[i]
  BY <1>1, <1>2
<1>5. s[Len(s)] \in T
  BY <1>2
<1> QED
  BY <1>1, <1>3, <1>4, <1>5 DEF m

LEMMA Below ==
    ASSUME NEW n \in Nat, NEW k \in 0..n, NEW i \in 1..k
    PROVE  i \in 1..n
OBVIOUS

\* A constructor that has replaced main's variables.
LEMMA ConstructedKeeps ==
    ASSUME Nested, NEW x \in Instances, x \notin Names, NEW withEnv \in BOOLEAN,
           NEW c \in CommandLines, NEW e \in Environments, NEW strays \in Strays(e),
           Constructed(x, withEnv, c, e, strays), NEW n, n = Len(scopes)
    PROVE  Nested'
<1> DEFINE mine == [owner |-> x, at |-> 1]
           scope == [name |-> x, old |-> Remembered(withEnv)]
           array == [args |-> ArgsArray(c), env |-> IF withEnv THEN EnvArray(e, strays) ELSE <<>>,
                     block |-> IF withEnv THEN e ELSE <<>>]
           found == [argc |-> argc, argv |-> argv, env |-> env]
<1>1. ScopesType /\ NamesDiffer /\ Remembers /\ AllInUse
  BY DEF Nested
<1>2. /\ argc' = Len(c) /\ argv' = mine /\ env' = IF withEnv THEN mine ELSE env
      /\ scopes' = Append(scopes, scope) /\ arrays' = Append(arrays, array)
      /\ seen' = Append(seen, found) /\ dangling' = dangling
  BY DEF Constructed
<1>3. /\ scope \in Scopes /\ scope.name = x
      /\ scope.old.argc = argc /\ scope.old.argv = argv /\ scope.old.withEnv = withEnv
      /\ withEnv => scope.old.env = env
  <2>1. env \in Arrays(Instances \cup {Main, NullPtr})
    BY <1>1 DEF ScopesType, MainsArrays, Arrays
  <2>2. [owner |-> NullPtr, at |-> 1] \in Arrays(Instances \cup {Main, NullPtr})
    BY DEF Arrays
  <2> QED
    BY <1>1, <2>1, <2>2 DEF Scopes, Remembered, ScopesType
<1>4. /\ array \in OwnArrays
      /\ array.args = ArgsArray(c)
      /\ withEnv => array.env = EnvArray(e, strays) /\ array.block = e
  <2>1. EnvArray(e, strays) \in Seq(Nat) /\ ArgsArray(c) \in Seq(Pointers) /\ e \in Seq(Strings)
    BY ArgsEndWithNull, EnvArrayType, EnvironmentsAssumption
  <2> QED
    BY <2>1 DEF OwnArrays
<1>5. found \in [argc : Nat, argv : MainsArrays, env : MainsArrays]
  BY <1>1 DEF ScopesType
<1>6. mine \in MainsArrays /\ mine.owner = x /\ mine.at = 1
  BY DEF MainsArrays, Arrays
<1>7. Len(c) \in Nat
  BY ArgsEndWithNull
<1> HIDE DEF scope, array, mine
<1>8. /\ n \in Nat /\ Len(scopes') = n + 1
      /\ scopes' \in Seq(Scopes)
      /\ \A i \in 1..n : scopes'[i] = scopes[i]
      /\ scopes'[n + 1] = scope
  BY <1>1, <1>2, <1>3, AppendKeeps DEF ScopesType
<1>9. /\ Len(arrays') = n + 1
      /\ arrays' \in Seq(OwnArrays)
      /\ \A i \in 1..n : arrays'[i] = arrays[i]
      /\ arrays'[n + 1] = array
  <2>1. arrays \in Seq(OwnArrays) /\ Len(arrays) = n
    BY <1>1 DEF ScopesType
  <2> QED
    BY <1>2, <1>4, <2>1, AppendKeeps
<1>10. /\ Len(seen') = n + 1
       /\ seen' \in Seq([argc : Nat, argv : MainsArrays, env : MainsArrays])
       /\ \A i \in 1..n : seen'[i] = seen[i]
       /\ seen'[n + 1] = found
  <2>1. seen \in Seq([argc : Nat, argv : MainsArrays, env : MainsArrays]) /\ Len(seen) = n
    BY <1>1 DEF ScopesType
  <2> HIDE DEF found
  <2> QED
    BY <1>2, <1>5, <2>1, AppendKeeps
<1>11. \A k \in 0..n : WhatIs(k)' = WhatIs(k)
  <2> SUFFICES ASSUME NEW k \in 0..n PROVE WhatIs(k)' = WhatIs(k)
    OBVIOUS
  <2>1. k # n + 1 /\ k # n => k + 1 \in 1..n
    BY <1>8
  <2>2. CASE k = n
    BY <1>8, <1>10, <2>1, <2>2 DEF WhatIs
  <2>3. CASE k # n
    BY <1>8, <1>10, <2>1, <2>3 DEF WhatIs
  <2> QED
    BY <2>2, <2>3
<1>12. /\ WhatIs(n + 1)'.argc = Len(c) /\ WhatIs(n + 1)'.argv = mine
       /\ WhatIs(n + 1)'.env = IF withEnv THEN mine ELSE env
  BY <1>2, <1>8 DEF WhatIs
<1>13. ScopesType'
  BY <1>1, <1>2, <1>6, <1>7, <1>8, <1>9, <1>10 DEF ScopesType
<1>14. NamesDiffer'
  <2>1. \A i \in 1..n : scopes[i].name # x
    <3>1. DOMAIN scopes = 1..n
      BY <1>1 DEF ScopesType
    <3> QED
      BY <3>1 DEF Names
  <2>2. \A i \in 1..(n + 1) : i \in 1..n \/ i = n + 1
    BY <1>8
  <2> QED
    BY <1>1, <1>3, <1>8, <2>1, <2>2 DEF NamesDiffer
<1>15. Remembers'
  <2> SUFFICES ASSUME NEW k \in 1..(n + 1)
               PROVE  /\ scopes'[k].old.argc = seen'[k].argc /\ scopes'[k].old.argv = seen'[k].argv
                      /\ scopes'[k].old.withEnv => scopes'[k].old.env = seen'[k].env
                      /\ ~scopes'[k].old.withEnv => WhatIs(k)'.env = seen'[k].env
    BY <1>8 DEF Remembers
  <2>1. CASE k = n + 1
    <3>1. scopes'[k] = scope /\ seen'[k] = found /\ WhatIs(k)'.env = IF withEnv THEN mine ELSE env
      BY <1>8, <1>10, <1>12, <2>1
    <3>2. found.argc = argc /\ found.argv = argv /\ found.env = env
      OBVIOUS
    <3> HIDE DEF found
    <3> QED
      BY <1>3, <3>1, <3>2
  <2>2. CASE k # n + 1
    <3>1. k \in 1..n /\ k \in 0..n
      BY <1>8, <2>2
    <3>2. WhatIs(k)' = WhatIs(k) /\ scopes'[k] = scopes[k] /\ seen'[k] = seen[k]
      BY <1>8, <1>10, <1>11, <3>1
    <3> QED
      BY <1>1, <3>1, <3>2 DEF Remembers
  <2> QED
    BY <2>1, <2>2
<1>16. AllInUse'
  <2> SUFFICES ASSUME ~dangling', NEW k \in 0..(n + 1) PROVE ArgsInUse(k)' /\ EnvInUse(k)'
    BY <1>8 DEF AllInUse
  <2>1. \A j \in 0..n : ArgsInUse(j) /\ EnvInUse(j)
    BY <1>1, <1>2 DEF AllInUse
  <2>2. ASSUME NEW j \in 0..n PROVE ArgsInUse(j)' /\ EnvInUse(j)'
    <3>1. \A i \in 1..j : scopes'[i] = scopes[i] /\ arrays'[i] = arrays[i]
      BY <1>8, <1>9, Below
    <3>2. WhatIs(j)' = WhatIs(j)
      BY <1>11
    <3> QED
      BY <2>1, <3>1, <3>2 DEF ArgsInUse, EnvInUse
  <2>3. n + 1 \in 1..(n + 1) /\ n \in 0..n
    BY <1>8
  <2>4. ArgsInUse(n + 1)'
    <3>1. /\ Len(array.args) = Len(c) + 1
          /\ array.args[Len(array.args)] = NullPtr
      <4>1. Len(ArgsArray(c)) = Len(c) + 1 /\ ArgsArray(c)[Len(c) + 1] = NullPtr
        BY ArgsEndWithNull
      <4> QED
        BY <1>4, <4>1
    <3>2. mine.at + Len(c) = Len(c) + 1
      BY <1>6, <1>7
    <3>3. /\ scopes'[n + 1].name = WhatIs(n + 1)'.argv.owner
          /\ WhatIs(n + 1)'.argv.at + WhatIs(n + 1)'.argc = Len(arrays'[n + 1].args)
          /\ arrays'[n + 1].args[Len(arrays'[n + 1].args)] = NullPtr
      BY <1>3, <1>6, <1>8, <1>9, <1>12, <3>1, <3>2
    <3> QED
      BY <2>3, <3>3 DEF ArgsInUse
  <2>5. EnvInUse(n + 1)'
    <3>1. CASE withEnv
      <4>1. FindsItsEnv(array)
        BY <1>4, <3>1, EnvIsFound
      <4>2. scopes'[n + 1].name = WhatIs(n + 1)'.env.owner /\ arrays'[n + 1] = array
        BY <1>3, <1>6, <1>8, <1>9, <1>12, <3>1
      <4> QED
        BY <2>3, <4>1, <4>2 DEF EnvInUse
    <3>2. CASE ~withEnv
      <4>1. EnvInUse(n)' /\ WhatIs(n + 1)'.env = WhatIs(n)'.env
        BY <1>11, <1>12, <2>2, <2>3, <3>2 DEF WhatIs
      <4>2. \A i \in 1..n : i \in 1..(n + 1)
        BY <1>8
      <4> QED
        BY <4>1, <4>2 DEF EnvInUse
    <3> QED
      BY <3>1, <3>2
  <2>6. k \in 0..n \/ k = n + 1
    BY <1>8
  <2> QED
    BY <2>2, <2>4, <2>5, <2>6
<1> QED
  BY <1>13, <1>14, <1>15, <1>16 DEF Nested

\* fix_env throws: argc and argv are those of an instance that does not come to be.
LEMMA EnvFailKeeps ==
    ASSUME Nested, NEW x \in Instances, NEW c \in CommandLines, EnvFail(x, c)
    PROVE  Nested'
<1>1. ScopesType /\ NamesDiffer /\ Remembers
  BY DEF Nested
<1>2. /\ argc' = Len(c) /\ argv' = [owner |-> x, at |-> 1]
      /\ dangling' = TRUE
      /\ UNCHANGED <<env, scopes, arrays, seen>>
  BY DEF EnvFail
<1>3. ScopesType'
  <2>1. argc' \in Nat /\ argv' \in MainsArrays
    BY <1>2, ArgsEndWithNull DEF MainsArrays, Arrays
  <2> QED
    BY <1>1, <1>2, <2>1 DEF ScopesType
<1>4. NamesDiffer'
  BY <1>1, <1>2 DEF NamesDiffer
<1>5. Remembers'
  <2>1. ASSUME NEW k PROVE WhatIs(k)'.env = WhatIs(k).env
    BY <1>2 DEF WhatIs
  <2> QED
    BY <1>1, <1>2, <2>1 DEF Remembers
<1>6. AllInUse'
  BY <1>2 DEF AllInUse
<1> QED
  BY <1>3, <1>4, <1>5, <1>6 DEF Nested

\* What main has found before an instance is what its destructor gives back.
LEMMA GivesBack ==
    ASSUME Nested, Destruct, NEW n, n = Len(scopes)
    PROVE  /\ n \in Nat \ {0}
           /\ argc' = seen[n].argc /\ argv' = seen[n].argv /\ env' = seen[n].env
<1>1. ScopesType /\ Remembers /\ scopes # <<>>
  BY DEF Nested, Destruct
<1>2. n \in Nat \ {0} /\ Last(scopes) = scopes[n]
  BY <1>1, FrontKeeps DEF ScopesType
<1>3. n \in 1..n
  BY <1>2
<1>4. /\ scopes[n].old.argc = seen[n].argc /\ scopes[n].old.argv = seen[n].argv
      /\ scopes[n].old.withEnv => scopes[n].old.env = seen[n].env
      /\ ~scopes[n].old.withEnv => WhatIs(n).env = seen[n].env
  BY <1>1, <1>3 DEF Remembers
<1>5. WhatIs(n).env = env
  BY DEF WhatIs
<1>6. /\ argc' = scopes[n].old.argc /\ argv' = scopes[n].old.argv
      /\ env' = IF scopes[n].old.withEnv THEN scopes[n].old.env ELSE env
  BY <1>2 DEF Destruct
<1> QED
  BY <1>2, <1>4, <1>5, <1>6

LEMMA ScopeEnds ==
    ASSUME Nested, Destruct, NEW n, n = Len(scopes)
    PROVE  Nested'
<1>1. ScopesType /\ NamesDiffer /\ Remembers /\ AllInUse
  BY DEF Nested
<1>2. /\ n \in Nat \ {0}
      /\ argc' = seen[n].argc /\ argv' = seen[n].argv /\ env' = seen[n].env
  BY GivesBack
<1>3. /\ scopes # <<>> /\ scopes' = Front(scopes) /\ arrays' = Front(arrays)
      /\ seen' = Front(seen) /\ dangling' = dangling
  BY DEF Destruct
<1>4. PICK m \in Nat : m = n - 1
  BY <1>2
<1>5. m + 1 = n /\ n \in 1..n /\ m # n /\ \A i \in 1..m : i \in 1..n /\ i \in 0..m /\ i # n
  BY <1>2, <1>4
<1>6. /\ Len(scopes') = m /\ scopes' \in Seq(Scopes)
      /\ \A i \in 1..m : scopes'[i] = scopes[i]
  <2>1. scopes \in Seq(Scopes)
    BY <1>1 DEF ScopesType
  <2> QED
    BY <1>3, <1>4, <2>1, FrontKeeps
<1>7. /\ Len(arrays') = m /\ arrays' \in Seq(OwnArrays)
      /\ \A i \in 1..m : arrays'[i] = arrays[i]
  <2>1. arrays \in Seq(OwnArrays) /\ Len(arrays) = n
    BY <1>1 DEF ScopesType
  <2>2. arrays # <<>>
    BY <1>2, <2>1
  <2> QED
    BY <1>3, <1>4, <2>1, <2>2, FrontKeeps
<1>8. /\ Len(seen') = m
      /\ seen' \in Seq([argc : Nat, argv : MainsArrays, env : MainsArrays])
      /\ \A i \in 1..m : seen'[i] = seen[i]
      /\ seen[n] \in [argc : Nat, argv : MainsArrays, env : MainsArrays]
  <2>1. seen \in Seq([argc : Nat, argv : MainsArrays, env : MainsArrays]) /\ Len(seen) = n
    BY <1>1 DEF ScopesType
  <2>2. seen # <<>>
    BY <1>2, <2>1
  <2>3. Last(seen) = seen[n] /\ Last(seen) \in [argc : Nat, argv : MainsArrays, env : MainsArrays]
    BY <2>1, <2>2, FrontKeeps
  <2> QED
    BY <1>3, <1>4, <2>1, <2>2, <2>3, FrontKeeps
<1>9. \A k \in 0..m : WhatIs(k)' = WhatIs(k)
  <2> SUFFICES ASSUME NEW k \in 0..m PROVE WhatIs(k)' = WhatIs(k)
    OBVIOUS
  <2>1. WhatIs(k) = seen[k + 1]
    <3>1. k # n
      BY <1>4, <1>2
    <3> QED
      BY <3>1 DEF WhatIs
  <2>2. CASE k = m
    <3>1. WhatIs(k)' = [argc |-> seen[n].argc, argv |-> seen[n].argv, env |-> seen[n].env]
      BY <1>2, <1>6, <2>2 DEF WhatIs
    <3>2. seen[n] = [argc |-> seen[n].argc, argv |-> seen[n].argv, env |-> seen[n].env]
      BY <1>8
    <3> QED
      BY <1>5, <2>1, <2>2, <3>1, <3>2
  <2>3. CASE k # m
    <3>1. k + 1 \in 1..m
      BY <2>3
    <3>2. WhatIs(k)' = seen'[k + 1]
      BY <1>6, <2>3 DEF WhatIs
    <3> QED
      BY <1>8, <2>1, <3>1, <3>2
  <2> QED
    BY <2>2, <2>3
<1>10. ScopesType'
  <2>1. argc' \in Nat /\ argv' \in MainsArrays /\ env' \in MainsArrays
    BY <1>2, <1>8
  <2> QED
    BY <1>1, <1>3, <1>6, <1>7, <1>8, <2>1 DEF ScopesType
<1>11. NamesDiffer'
  BY <1>1, <1>5, <1>6 DEF NamesDiffer
<1>12. Remembers'
  BY <1>1, <1>5, <1>6, <1>8, <1>9 DEF Remembers
<1>13. AllInUse'
  <2> SUFFICES ASSUME ~dangling', NEW k \in 0..m PROVE ArgsInUse(k)' /\ EnvInUse(k)'
    BY <1>6 DEF AllInUse
  <2>1. k \in 0..n
    BY <1>4, <1>2
  <2>2. ArgsInUse(k) /\ EnvInUse(k)
    BY <1>1, <1>3, <2>1 DEF AllInUse
  <2>3. \A i \in 1..k : scopes'[i] = scopes[i] /\ arrays'[i] = arrays[i]
    BY <1>6, <1>7, Below
  <2>4. WhatIs(k)' = WhatIs(k)
    BY <1>9
  <2> QED
    BY <2>2, <2>3, <2>4 DEF ArgsInUse, EnvInUse
<1> QED
  BY <1>10, <1>11, <1>12, <1>13 DEF Nested

\* main moves on in its array: the end of it stays where it is.
LEMMA ShiftKeeps ==
    ASSUME Nested, Shift, NEW n, n = Len(scopes)
    PROVE  Nested'
<1>1. ScopesType /\ NamesDiffer /\ Remembers /\ AllInUse
  BY DEF Nested
<1>2. /\ argc > 1 /\ argc' = argc - 1 /\ argv' = [argv EXCEPT !.at = @ + 1]
      /\ UNCHANGED <<env, scopes, arrays, seen, dangling>>
  BY DEF Shift
<1>3. /\ argv \in MainsArrays /\ argv' \in MainsArrays /\ argv'.owner = argv.owner
      /\ argv'.at = argv.at + 1 /\ argv.at \in Nat
  <2> DEFINE O == Instances \cup {Main}
  <2>1. MainsArrays = [owner : O, at : Nat] /\ argv \in [owner : O, at : Nat]
    BY <1>1 DEF ScopesType, MainsArrays, Arrays
  <2> HIDE DEF O
  <2>2. argv.owner \in O /\ argv.at \in Nat /\ argv.at + 1 \in Nat
    BY <2>1
  <2>3. argv' = [owner |-> argv.owner, at |-> argv.at + 1]
    BY <1>2, <2>1
  <2> QED
    BY <2>1, <2>2, <2>3
<1>4. argc \in Nat /\ argc' \in Nat /\ argv'.at + argc' = argv.at + argc
  <2>1. argc \in Nat
    BY <1>1 DEF ScopesType
  <2> QED
    BY <1>2, <1>3, <2>1
<1>5. ScopesType'
  BY <1>1, <1>2, <1>3, <1>4 DEF ScopesType
<1>6. NamesDiffer'
  BY <1>1, <1>2 DEF NamesDiffer
<1>7. ASSUME NEW k
      PROVE  /\ WhatIs(k)'.env = WhatIs(k).env
             /\ WhatIs(k)'.argv.owner = WhatIs(k).argv.owner
             /\ WhatIs(k)'.argv.at + WhatIs(k)'.argc = WhatIs(k).argv.at + WhatIs(k).argc
  <2>1. CASE k = n
    <3>1. /\ WhatIs(k)'.env = env /\ WhatIs(k)'.argv = argv' /\ WhatIs(k)'.argc = argc'
          /\ WhatIs(k).env = env /\ WhatIs(k).argv = argv /\ WhatIs(k).argc = argc
      BY <1>2, <2>1 DEF WhatIs
    <3> QED
      BY <1>3, <1>4, <3>1
  <2>2. CASE k # n
    BY <1>2, <2>2 DEF WhatIs
  <2> QED
    BY <2>1, <2>2
<1>8. Remembers'
  BY <1>1, <1>2, <1>7 DEF Remembers
<1>9. AllInUse'
  BY <1>1, <1>2, <1>7 DEF AllInUse, ArgsInUse, EnvInUse
<1> QED
  BY <1>5, <1>6, <1>8, <1>9 DEF Nested

LEMMA ScopesKeep ==
    ASSUME Nested, [ArgsNext]_argsVars
    PROVE  Nested'
<1>1. ASSUME NEW x \in Instances, Construct(x) PROVE Nested'
  <2>1. CASE ArgsFail
    BY <2>1 DEF ArgsFail, Nested, ScopesType, NamesDiffer, Remembers, AllInUse, ArgsInUse,
                EnvInUse, WhatIs
  <2>2. ASSUME NEW withEnv \in BOOLEAN, NEW c \in CommandLines, NEW e \in Environments,
               NEW strays \in Strays(e), Constructed(x, withEnv, c, e, strays)
        PROVE  Nested'
    BY <1>1, <2>2, ConstructedKeeps DEF Construct
  <2>3. ASSUME NEW c \in CommandLines, EnvFail(x, c) PROVE Nested'
    BY <2>3, EnvFailKeeps
  <2> QED
    BY <1>1, <2>1, <2>2, <2>3 DEF Construct
<1>2. CASE Destruct
  BY <1>2, ScopeEnds
<1>3. CASE Shift
  BY <1>3, ShiftKeeps
<1>4. CASE UNCHANGED argsVars
  BY <1>4 DEF argsVars, Nested, ScopesType, NamesDiffer, Remembers, AllInUse, ArgsInUse,
              EnvInUse, WhatIs
<1> QED
  BY <1>1, <1>2, <1>3, <1>4 DEF ArgsNext

LEMMA MainBegins ==
    ASSUME ArgsInit
    PROVE  Nested
<1>1. /\ argc = 2 /\ argv = [owner |-> Main, at |-> 1] /\ env = [owner |-> Main, at |-> 1]
      /\ scopes = <<>> /\ arrays = <<>> /\ seen = <<>> /\ dangling = FALSE
  BY DEF ArgsInit, Start
<1>2. ScopesType
  <2>1. [owner |-> Main, at |-> 1] \in MainsArrays
    BY DEF MainsArrays, Arrays
  <2>2. \A T : <<>> \in Seq(T)
    OBVIOUS
  <2>3. argc \in Nat /\ argv \in MainsArrays /\ env \in MainsArrays /\ dangling \in BOOLEAN
    BY <1>1, <2>1
  <2> QED
    BY <1>1, <2>2, <2>3 DEF ScopesType
<1>3. NamesDiffer /\ Remembers
  BY <1>1 DEF NamesDiffer, Remembers
<1>4. ASSUME NEW k \in 0..0 PROVE ArgsInUse(k) /\ EnvInUse(k)
  <2>1. k = Len(scopes)
    BY <1>1
  <2> QED
    BY <1>1, <2>1 DEF ArgsInUse, EnvInUse, WhatIs
<1>5. AllInUse
  BY <1>1, <1>4 DEF AllInUse
<1> QED
  BY <1>2, <1>3, <1>5 DEF Nested

LEMMA ScopesAreNested == ArgsSpec => []Nested
<1>1. ArgsInit => Nested
  BY MainBegins
<1>2. Nested /\ [ArgsNext]_argsVars => Nested'
  BY ScopesKeep
<1> QED
  BY <1>1, <1>2, PTL DEF ArgsSpec

\* For any number of nested instances and any command lines and environments, unpaired surrogates
\* in them included: the arrays argv and env point into are there and end with a null pointer.
\* Main finds in env what does not begin with '=' and nothing else, if no entry but the last ends
\* in an unpaired high surrogate (fix_args, fix_env, ~args).
THEOREM MainsArraysAreInUse == ArgsSpec => []ArraysInUse
<1>1. ASSUME Nested PROVE ArraysInUse
  <2>1. ScopesType /\ NamesDiffer /\ AllInUse
    BY <1>1 DEF Nested
  <2>2. PICK n \in Nat : n = Len(scopes)
    BY <2>1 DEF ScopesType
  <2>3. n \in 0..n /\ DOMAIN scopes = 1..n
    BY <2>1, <2>2 DEF ScopesType
  <2>4. /\ WhatIs(n).argc = argc /\ WhatIs(n).argv = argv /\ WhatIs(n).env = env
    BY <2>2 DEF WhatIs
  <2>5. \A i \in 1..n : scopes[i].name \in Names /\ ArraysOf(scopes[i].name) = arrays[i]
    <3> SUFFICES ASSUME NEW i \in 1..n
                 PROVE  scopes[i].name \in Names /\ ArraysOf(scopes[i].name) = arrays[i]
      OBVIOUS
    <3>1. (CHOOSE j \in 1..n : scopes[j].name = scopes[i].name) = i
      BY <2>1, <2>2 DEF NamesDiffer
    <3> QED
      BY <2>3, <3>1 DEF Names, ArraysOf
  <2> SUFFICES ASSUME ~dangling PROVE ArraysInUse
    BY DEF ArraysInUse
  <2>6. ArgsInUse(n) /\ EnvInUse(n)
    BY <2>1, <2>2, <2>3 DEF AllInUse
  <2>7. ASSUME argv.owner # Main
        PROVE  /\ argv.owner \in Names
               /\ argv.at + argc = Len(ArraysOf(argv.owner).args)
               /\ ArraysOf(argv.owner).args[argv.at + argc] = NullPtr
    BY <2>4, <2>5, <2>6, <2>7 DEF ArgsInUse
  <2>8. ASSUME env.owner # Main
        PROVE  /\ env.owner \in Names
               /\ FindsItsEnv(ArraysOf(env.owner))
    BY <2>4, <2>5, <2>6, <2>8 DEF EnvInUse
  <2> QED
    BY <2>7, <2>8 DEF ArraysInUse, FindsItsEnv
<1>2. Nested => ArraysInUse
  BY <1>1
<1> QED
  BY <1>2, ScopesAreNested, PTL

\* Every destructor gives back what the constructor of its instance has found, however the
\* instances are nested and whatever was shifted in between or has thrown (~args).
THEOREM MainIsRestored == ArgsSpec => RestoresWhatWas
<1>1. ASSUME Nested, [ArgsNext]_argsVars
      PROVE  [ended' = "destroyed" =>
                 /\ argc' = Last(seen).argc /\ argv' = Last(seen).argv
                 /\ env' = Last(seen).env]_argsVars
  <2> SUFFICES ASSUME ArgsNext, ended' = "destroyed"
               PROVE  /\ argc' = Last(seen).argc /\ argv' = Last(seen).argv
                      /\ env' = Last(seen).env
    BY <1>1
  <2>1. Destruct
    BY DEF ArgsNext, Construct, ArgsFail, Constructed, EnvFail, Shift
  <2>2. Len(seen) = Len(scopes)
    BY <1>1 DEF Nested, ScopesType
  <2> QED
    BY <1>1, <2>1, <2>2, GivesBack DEF Last
<1>2. Nested /\ [ArgsNext]_argsVars =>
          [ended' = "destroyed" =>
                 /\ argc' = Last(seen).argc /\ argv' = Last(seen).argv
                 /\ env' = Last(seen).env]_argsVars
  BY <1>1
<1> QED
  BY <1>2, ScopesAreNested, PTL DEF ArgsSpec, RestoresWhatWas
============================================================================
