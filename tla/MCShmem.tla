------------------------------ MODULE MCShmem ------------------------------
(***************************************************************************)
(* Shmem over a machine with three allocatable frames and five virtual     *)
(* pages, so that creates run out of frames, of addresses and of slots.    *)
(***************************************************************************)
EXTENDS Shmem

CONSTANTS a, b, bx   \* bx is a name of more than 31 characters that starts with b

MCMaps  == { <<[base |-> 0, length |-> 2, type |-> 1], [base |-> 4, length |-> 5, type |-> 1]>> }
MCNames == {a, b, bx}
MCCut   == [n \in MCNames |-> IF n = bx THEN b ELSE n]
\* No bytes, a byte more than a page, and a size whose rounding wraps.
MCSizes == {0, 5, 31}
=============================================================================
