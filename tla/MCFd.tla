-------------------------------- MODULE MCFd --------------------------------
(***************************************************************************)
(* Fd with two bytes.  They are only moved, never looked at, so that       *)
(* exchanging them changes nothing.                                        *)
(***************************************************************************)
EXTENDS Fd, TLC

CONSTANTS BYTE_1, BYTE_2

AnyByte == Permutations({BYTE_1, BYTE_2})
=============================================================================
