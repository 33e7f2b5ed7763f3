------------------------------ MODULE MCInput ------------------------------
(***************************************************************************)
(* Movements for Input: -1 has bit 3 set, so that it can be taken for a    *)
(* header; 0 and 1 have not.                                               *)
(***************************************************************************)
EXTENDS Input

SomeMotions == {-1, 0, 1}
=============================================================================
