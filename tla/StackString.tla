---------------------------- MODULE StackString ----------------------------
(***************************************************************************)
(* basic_stackstring of include/boost/nowide/stackstring.hpp: a converted  *)
(* string that is kept in the object where it fits there and in a block    *)
(* from new[] otherwise.                                                   *)
(*                                                                         *)
(* An input is known by its name, its length and the length of its         *)
(* conversion (what utf::convert_buffer does is the matter of Convert).    *)
(* A pointer is null, an object (its buffer_) or a block.  new[] may throw.*)
(***************************************************************************)
EXTENDS Integers

CONSTANTS Objects,      \* the objects of the program
          Inputs,       \* the strings it converts
          InLength,     \* input_len of each, in characters of the input
          OutLength,    \* the length of its conversion, in characters of the output
          BufferSize,   \* buffer_size
          MaxWidth,     \* utf_traits<output_char>::max_width
          Blocks        \* what new[] may return

ASSUME SizesAssumption ==
    /\ BufferSize \in Nat \ {0} /\ MaxWidth \in Nat \ {0}
    /\ InLength \in [Inputs -> Nat] /\ OutLength \in [Inputs -> Nat]
    /\ \A i \in Inputs : OutLength[i] <= InLength[i] * MaxWidth
ASSUME PlacesAssumption ==
    /\ Blocks \cap Objects = {} /\ "null" \notin Objects \cup Blocks
    /\ "nothing" \notin Inputs /\ "garbage" \notin Inputs

Null == "null"
NoString == "nothing"      \* what a null pointer points to
Garbage == "garbage"

VARIABLES live,    \* the objects that exist
          data,    \* data_ of each
          text,    \* what each buffer_ and each block holds
          heap,    \* the blocks in use
          fault,   \* a block was freed that is not in use, or written behind its end
          meant,   \* history: the string each object is meant to hold
          last     \* how the last call ended
stringVars == <<live, data, text, heap, fault, meant, last>>

Places == Objects \cup Blocks

StringInit ==
    /\ live = {} /\ heap = {} /\ fault = FALSE
    /\ data = [x \in Objects |-> Null]
    /\ text = [p \in Places |-> Garbage]
    /\ meant = [x \in Objects |-> NoString]
    /\ last = "none"
----------------------------------------------------------------------------
\* uses_stack_memory
OnStack(x) == data[x] = x

\* Mutant: the block is not freed.
HeapAfterClear_Leaks(x) == heap

\* clear: delete[] data_ unless it is buffer_; null may be deleted.
HeapAfterClear(x) == IF OnStack(x) THEN heap ELSE heap \ {data[x]}

BadDelete(x) == ~OnStack(x) /\ data[x] # Null /\ data[x] \notin heap

\* "If there is a chance the converted string fits on stack, try it"
FitsOnStack(i) == InLength[i] + 1 <= BufferSize /\ OutLength[i] + 1 <= BufferSize

\* The attempt was made in vain: "the content of the buffer is undefined".
SpoilsBuffer(i) == InLength[i] + 1 <= BufferSize

\* The block convert allocates.
MaxOutputSize(i) == InLength[i] * MaxWidth + 1

\* What x is meant to hold after a call, and how that ended.
Holds(x, s, how) == meant' = [meant EXCEPT ![x] = s] /\ last' = how

\* clear, then data_ = buffer_ with s in it.
IntoBuffer(x, s, overflow) ==
    /\ data' = [data EXCEPT ![x] = x]
    /\ text' = [text EXCEPT ![x] = s]
    /\ heap' = HeapAfterClear(x)
    /\ fault' = (fault \/ BadDelete(x) \/ overflow)
    /\ live' = live \cup {x}
    /\ Holds(x, s, "returned")

\* clear, then data_ = a new block with s in it.
IntoBlock(x, s, spoils, overflow) ==
    /\ \E b \in Blocks \ HeapAfterClear(x) :
          /\ data' = [data EXCEPT ![x] = b]
          /\ text' = [text EXCEPT ![b] = s, ![x] = IF spoils THEN Garbage ELSE @]
          /\ heap' = HeapAfterClear(x) \cup {b}
    /\ fault' = (fault \/ BadDelete(x) \/ overflow)
    /\ live' = live \cup {x}
    /\ Holds(x, s, "returned")

\* clear, then new[] throws: an object under construction does not come to be.
NewThrows(x, spoils) ==
    /\ data' = [data EXCEPT ![x] = Null]
    /\ text' = [text EXCEPT ![x] = IF spoils THEN Garbage ELSE @]
    /\ heap' = HeapAfterClear(x)
    /\ fault' = (fault \/ BadDelete(x))
    /\ live' = live
    /\ Holds(x, NoString, "threw")

\* clear, and data_ stays null.
Clear(x) ==
    /\ data' = [data EXCEPT ![x] = Null]
    /\ heap' = HeapAfterClear(x)
    /\ fault' = (fault \/ BadDelete(x))
    /\ live' = live \cup {x}
    /\ Holds(x, NoString, "returned")
    /\ UNCHANGED text
----------------------------------------------------------------------------
\* The calls.  x is an object that exists, or one that is being constructed: its data_ is null.

\* convert of an input, and the constructors that take one.
Convert(x, i) ==
    \/ FitsOnStack(i) /\ IntoBuffer(x, i, OutLength[i] + 1 > BufferSize)
    \/ ~FitsOnStack(i) /\ IntoBlock(x, i, SpoilsBuffer(i), OutLength[i] + 1 > MaxOutputSize(i))
    \/ ~FitsOnStack(i) /\ NewThrows(x, SpoilsBuffer(i))

\* convert of a null pointer, clear and the default constructor.
Reset(x) == Clear(x)

\* Copy assignment and the copy constructor.
Assign(x, y) ==
    /\ y \in live /\ x # y
    /\ \/ OnStack(y) /\ IntoBuffer(x, text[y], FALSE)
       \/ /\ ~OnStack(y) /\ data[y] # Null
          /\ IntoBlock(x, text[data[y]], FALSE, FALSE) \/ NewThrows(x, FALSE)
       \/ data[y] = Null /\ Clear(x)

\* A pointer into one object becomes a pointer into the other.
SwapData(x, y) ==
    data' = [data EXCEPT ![x] = IF OnStack(y) THEN x ELSE data[y],
                         ![y] = IF OnStack(x) THEN y ELSE data[x]]

\* Mutant: the buffer is copied the wrong way when only x is on the stack.
SwapText_WrongWay(x, y) ==
    text' = [text EXCEPT ![x] = IF OnStack(x) \/ OnStack(y) THEN text[y] ELSE @,
                         ![y] = IF OnStack(x) /\ OnStack(y) THEN text[x] ELSE @]

\* The buffers that are in use change places.
SwapText(x, y) ==
    text' = [text EXCEPT ![x] = IF OnStack(y) THEN text[y] ELSE @,
                         ![y] = IF OnStack(x) THEN text[x] ELSE @]

Swap(x, y) ==
    /\ x \in live /\ y \in live /\ x # y
    /\ SwapData(x, y) /\ SwapText(x, y)
    /\ meant' = [meant EXCEPT ![x] = meant[y], ![y] = meant[x]]
    /\ last' = "returned"
    /\ UNCHANGED <<live, heap, fault>>

\* The destructor: buffer_ is gone with the object.
Destroy(x) ==
    /\ x \in live
    /\ live' = live \ {x}
    /\ data' = [data EXCEPT ![x] = Null]
    /\ text' = [text EXCEPT ![x] = Garbage]
    /\ heap' = HeapAfterClear(x)
    /\ fault' = (fault \/ BadDelete(x))
    /\ Holds(x, NoString, "returned")

StringNext ==
    \E x \in Objects :
        \/ Reset(x) \/ Destroy(x)
        \/ \E i \in Inputs : Convert(x, i)
        \/ \E y \in Objects : Assign(x, y) \/ Swap(x, y)

StringSpec == StringInit /\ [][StringNext]_stringVars
----------------------------------------------------------------------------
\* Properties.

\* Types of the members; data_ is null in an object that does not exist yet.
StringTypeOK ==
    /\ live \subseteq Objects /\ heap \subseteq Blocks
    /\ data \in [Objects -> {Null} \cup Places]
    /\ text \in [Places -> Inputs \cup {Garbage}]
    /\ fault \in BOOLEAN
    /\ meant \in [Objects -> Inputs \cup {NoString}]
    /\ last \in {"none", "returned", "threw"}
    /\ \A x \in Objects \ live : data[x] = Null

\* Whatever is converted, copied, swapped and destroyed in whatever order, and when new[] throws:
\* no object points into another one or shares a block with it, no block is freed twice, written
\* behind its end or lost (clear, swap, operator=, convert).
OwnsItsMemory ==
    /\ ~fault
    /\ \A x \in Objects : data[x] \in {Null, x} \cup heap
    /\ \A x, y \in Objects : data[x] = data[y] /\ x # y => data[x] = Null
    /\ \A b \in heap : \E x \in live : data[x] = b

\* What get() points to.
Get(x) == IF data[x] = Null THEN NoString ELSE text[data[x]]

\* get() points to the conversion of the last input that was converted into the object, assigned
\* or swapped to it; it is null where that was null, after clear and after an exception.
HoldsWhatIsMeant == \A x \in live : Get(x) = meant[x]
=============================================================================
