----------------------------- MODULE MCBaseAlloc -----------------------------
(***************************************************************************)
(* A chunk of two pages, a page of two cache lines: requests that fill     *)
(* less than a line, less than a chunk, and more than a chunk.  The first  *)
(* page is not a multiple of the chunk.                                    *)
(***************************************************************************)
EXTENDS BaseAlloc

CONSTANTS t1, t2

MCThreads == {t1, t2}
MCRequests == {1, 5, 9}
=============================================================================
