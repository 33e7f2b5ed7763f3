------------------------------- MODULE MCPmm -------------------------------
(***************************************************************************)
(* Memory maps and two clients for PmmClients.  A bitmap page covers       *)
(* WORD_BITS * WORDS_PER_PAGE = 6 frames; the heap has 2 pages and         *)
(* kmalloc.cpp takes the bitmap to have 2, as it has for regions of 7 to   *)
(* 12 frames (on the real machine: 8 pages, for regions of 896 MB to 1 GB).*)
(***************************************************************************)
EXTENDS PmmClients

CONSTANTS c1, c2

MCClients == {c1, c2}

Entry(b, l, t) == [base |-> b, length |-> l, type |-> t]

\* Low memory, a reserved hole, regions in either order, two regions that tie,
\* and a machine with no usable region.
MapsOfAssumedSize ==
  { <<Entry(0, 3, 1), Entry(4, 9, 1), Entry(13, 20, 2)>>,
    <<Entry(4, 3, 1), Entry(8, 8, 1)>>,
    <<Entry(8, 7, 1), Entry(20, 7, 1)>>,
    <<Entry(0, 3, 1), Entry(4, 8, 2)>> }

\* A smaller machine: its bitmap takes one page less than kmalloc.cpp assumes.
SmallerMaps == { <<Entry(0, 3, 1), Entry(4, 6, 1)>> }
=============================================================================
