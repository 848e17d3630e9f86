----------------------------- MODULE MCPoolFiles -----------------------------
(* Two arenas, and threads with huge objects.  The address space has room   *)
(* for two objects or for one that has to be mapped again; pmem_consmp      *)
(* wraps at the second file of a process.                                   *)
EXTENDS HugeFiles, TLC

CONSTANTS a1, a2, mnt, other, t1, t2

MCArenas == {a1, a2}
MCDirs == {mnt, other}
MCThreads == {t1, t2}
MCSymmetry == Permutations(MCArenas) \cup Permutations(MCThreads)

\* Bounds: a state is not followed after which only the parts of FilesInv that
\* always hold say anything, up to a restart, nor one in which lspmemdir gave
\* another path, which nothing reads.
Claimed == ~torn \/ "number" \notin races
PathAsBuilt == pmem_path = MntPmem
=============================================================================
