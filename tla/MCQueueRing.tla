----------------------------- MODULE MCQueueRing -----------------------------
(***************************************************************************)
(* Five elements in two lists: a list has a first, a last and inner ones,  *)
(* with enough left for a second list.                                     *)
(***************************************************************************)
EXTENDS QueueRing

CONSTANTS e1, e2, e3, e4, e5, h1, h2

MCElms == {e1, e2, e3, e4, e5}
MCHeads == {h1, h2}
=============================================================================
