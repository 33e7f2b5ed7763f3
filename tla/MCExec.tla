------------------------------- MODULE MCExec -------------------------------
(***************************************************************************)
(* Executables for Exec, in a space of pages of two bytes: one of two      *)
(* pages, one that meets it and whose segments exceed its file, and one    *)
(* that begins in the middle of a page, before the first user stack.       *)
(***************************************************************************)
EXTENDS Exec

Image(a, b, ok) == [lo |-> a, hi |-> b, sound |-> ok]

Executables ==
  { Image(2, 5, TRUE), Image(4, 6, FALSE), Image(9, 11, TRUE) }
=============================================================================
