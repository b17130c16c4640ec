---------------------------- MODULE Transcoding ----------------------------
(***************************************************************************)
(* What a conversion in pieces owes its caller: what is due comes out, in  *)
(* order, and all of it.  The caller may go back to an earlier place of    *)
(* the output and have the rest converted again.                           *)
(***************************************************************************)
EXTENDS Naturals, Sequences

CONSTANTS Jobs,    \* what may be asked for
          Due      \* the output that each job comes to

VARIABLES given,   \* the job
          out,     \* what has been written
          rewinds  \* how often the caller may still go back
vars == <<given, out, rewinds>>

Init ==
    /\ given \in Jobs
    /\ out = <<>>
    /\ rewinds \in Nat

Deliver ==
    /\ \E n \in Len(out) + 1 .. Len(Due[given]) : out' = SubSeq(Due[given], 1, n)
    /\ UNCHANGED <<given, rewinds>>

Rewind ==
    /\ rewinds > 0
    /\ rewinds' = rewinds - 1
    /\ \E n \in 0..Len(out) : out' = SubSeq(out, 1, n)
    /\ UNCHANGED given

Next == Deliver \/ Rewind

Delivered == out = Due[given]

Spec == Init /\ [][Next]_vars /\ <>[]Delivered
=============================================================================
