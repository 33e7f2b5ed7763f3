------------------------------ MODULE MCFat12 ------------------------------
(***************************************************************************)
(* Fat12 on a disk of three clusters of one entry each: the second name in *)
(* a subdirectory finds it full, and so may the second cluster of a file   *)
(* find the disk.                                                          *)
(***************************************************************************)
EXTENDS Fat12

CONSTANTS NAME_A, NAME_B, NAME_C, PIECE   \* 8.3 names and the contents of a unit

\* The names callers use: "long" is a second spelling of b (case, or a ninth
\* character to_83 drops).
MCNames   == {"a", "b", "long", "c"}
MCNames83 == {NAME_A, NAME_B, NAME_C}
MCTo83    == [n \in MCNames |-> CASE n = "a" -> NAME_A [] n = "c" -> NAME_C [] OTHER -> NAME_B]
MCPaths   == {<<"a">>, <<"b">>, <<"long">>, <<"a", "b">>, <<"a", "c">>}
=============================================================================
