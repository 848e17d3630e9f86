----------------------------- MODULE MCLogArena -----------------------------
(***************************************************************************)
(* LogArena scaled: a chunk of 16 units with a header of 2 holds one       *)
(* region of a request of 12, or two of 4 and a remainder; 13 is the first *)
(* request that no chunk holds, and one of 9 behind it ends just before    *)
(* the header of a region whose data begin a chunk.                        *)
(***************************************************************************)
EXTENDS LogArena

CONSTANTS t1, t2

MCThreads == {t1, t2}
MCRequests == {4, 9, 12, 13}
MCLowBytes == {0, 112}         \* 112 is the multiple of 16 next to 'l'
=============================================================================
