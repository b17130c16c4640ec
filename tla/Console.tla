------------------------------ MODULE Console ------------------------------
(***************************************************************************)
(* What the two streambufs of src/console_buffer.cpp share: wchar_t, the   *)
(* code unit of the console's functions, and the value of eof.             *)
(***************************************************************************)
EXTENDS Utf

CONSTANT Wide   \* the bits of wchar_t

ASSUME WideAssumption == Wide \in {16, 32}

Eof == -1
=============================================================================
