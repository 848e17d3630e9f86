----------------------------- MODULE MCSlabArena -----------------------------
(***************************************************************************)
(* SlabArena scaled to units in which every boundary is a few steps away:  *)
(* a chunk holds its header and two sregions with a remainder, an sregion  *)
(* two slabs of either class with a remainder; a request of 2 is below the *)
(* size of its class.                                                      *)
(***************************************************************************)
EXTENDS SlabArena

CONSTANTS t1, t2

MCThreads == {t1, t2}
MCSizeClass == <<1, 3>>
MCLowBytes == {0, 112}         \* the multiple of 16 next to 's' and 'l'
=============================================================================
