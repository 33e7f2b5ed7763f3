---------------------------- MODULE MCFat12Store ----------------------------
(***************************************************************************)
(* Fat12Store on a disk of two clusters.                                   *)
(***************************************************************************)
EXTENDS Fat12Store

CONSTANTS NAME_A, NAME_B, PIECE_1, PIECE_2

MCNames   == {"a", "b"}
MCNames83 == {NAME_A, NAME_B}
MCTo83    == [n \in MCNames |-> IF n = "a" THEN NAME_A ELSE NAME_B]
MCPaths   == {<<"a">>, <<"b">>, <<"a", "b">>}
=============================================================================
