---------------------------- MODULE MCArenaBinding ----------------------------
(* Three threads and two arenas: an arena is created lazily, emptied by    *)
(* exits and chosen again, and in the end shared.                          *)
EXTENDS ArenaBinding

CONSTANTS t1, t2, t3

MCThreads == {t1, t2, t3}
TwoThreads == {t1, t2}
=============================================================================
