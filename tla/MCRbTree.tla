------------------------------ MODULE MCRbTree ------------------------------
(* Twelve keys make trees of three black levels, in which every fix-up     *)
(* case of insert and remove is met, at the root and below it.             *)
EXTENDS RbTree
MCKeys == 1 .. 12
=============================================================================
