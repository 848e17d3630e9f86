------------------------------- MODULE RbTree -------------------------------
(***************************************************************************)
(* The left-leaning red-black tree of src/include/lsmalloc/internal/rb.h,  *)
(* which rb_gen makes into huge_tree_* (src/src/huge.c).  A node is the    *)
(* record of its key, colour and subtrees; keys stand for the addresses    *)
(* huge_ad_cmp compares.  The loops that wind a path down and unwind it    *)
(* are recursions: what a level does while unwinding is applied to what    *)
(* the level below returns.                                                *)
(***************************************************************************)
EXTENDS Integers, Sequences, SequencesExt, FiniteSetsExt

CONSTANT Keys       \* the addresses of huge objects

ASSUME KeysAssumption == Keys \subseteq Nat \ {0}

\* rbt_nil: black, and its own left and right.
Nil == [red |-> FALSE]

Left(t) == IF t = Nil THEN Nil ELSE t.left
Right(t) == IF t = Nil THEN Nil ELSE t.right

\* A node as rbt_node_new makes it.
NewNode(k) == [key |-> k, red |-> TRUE, left |-> Nil, right |-> Nil]

Red(t) == [t EXCEPT !.red = TRUE]
Black(t) == [t EXCEPT !.red = FALSE]

RotateLeft(t) == [t.right EXCEPT !.left = [t EXCEPT !.right = t.right.left]]
RotateRight(t) == [t.left EXCEPT !.right = [t EXCEPT !.left = t.left.right]]

-----------------------------------------------------------------------------
\* insert, unwinding from the left: a 4-node is fixed up.
FixLeft(t) ==
  IF t.left.red /\ Left(t.left).red
  THEN RotateRight([t EXCEPT !.left.left = Black(@)])
  ELSE t

\* Mutant: a red right child is left where it is.
LeanNothing(t) ==
  IF t.right.red /\ t.left.red
  THEN [t EXCEPT !.left = Black(@), !.right = Black(@), !.red = TRUE]
  ELSE t

\* insert, unwinding from the right: a 4-node is split, a 3-node leans left.
FixRight(t) ==
  CASE t.right.red /\ t.left.red ->
         [t EXCEPT !.left = Black(@), !.right = Black(@), !.red = TRUE]
    [] t.right.red /\ ~t.left.red ->
         LET u == RotateLeft(t)
         IN  [u EXCEPT !.red = t.red, !.left = Red(@)]
    [] OTHER -> t

\* The code returns at the first child that is not red; the levels above it
\* would find nothing to fix up either.
RECURSIVE InsertBelow(_, _)
InsertBelow(t, k) ==
  IF t = Nil THEN NewNode(k)
  ELSE IF k < t.key THEN FixLeft([t EXCEPT !.left = InsertBelow(@, k)])
  ELSE FixRight([t EXCEPT !.right = InsertBelow(@, k)])

huge_tree_insert(t, k) == Black(InsertBelow(t, k))

-----------------------------------------------------------------------------
\* What removing from a subtree leaves: the subtree, whether it is one black
\* node shorter, so that unwinding goes on, and whether all assertions held.
Result(t, short, ok) == [tree |-> t, short |-> short, ok |-> ok]

\* remove, unwinding from a left subtree that has become shorter.
FixShortLeft(t) ==
  LET r == t.right
  IN  CASE t.red /\ r.left.red ->
             Result(RotateLeft([Black(t) EXCEPT !.right = RotateRight(r)]),
                    FALSE, TRUE)
        [] t.red /\ ~r.left.red ->
             Result(RotateLeft(t), FALSE, TRUE)
        [] ~t.red /\ r.left.red ->
             Result(RotateLeft([t EXCEPT !.right =
                                  RotateRight([r EXCEPT !.left = Black(@)])]),
                    FALSE, TRUE)
        [] OTHER ->
             Result(RotateLeft(Red(t)), TRUE, TRUE)

\* remove, unwinding from a right subtree that has become shorter.
FixShortRight(t) ==
  LET l == t.left
  IN  CASE l.red /\ Left(l.right).red ->
             LET u == RotateRight([t EXCEPT !.left.right.left = Black(@)])
             IN  Result(RotateLeft([u EXCEPT !.right = RotateRight(@)]),
                        FALSE, TRUE)
        [] l.red /\ ~Left(l.right).red ->
             Result(Black(RotateRight([t EXCEPT !.left.right = Red(@)])),
                    FALSE, l.right # Nil)
        [] ~l.red /\ t.red /\ Left(l).red ->
             Result(RotateRight([Black(t) EXCEPT !.left =
                                   [Red(l) EXCEPT !.left = Black(@)]]),
                    FALSE, TRUE)
        [] ~l.red /\ t.red /\ ~Left(l).red ->
             Result([Black(t) EXCEPT !.left = Red(l)], FALSE, TRUE)
        [] ~l.red /\ ~t.red /\ Left(l).red ->
             Result(RotateRight([t EXCEPT !.left.left = Black(@)]), FALSE, TRUE)
        [] OTHER ->
             Result([t EXCEPT !.left = Red(l)], TRUE, TRUE)

\* One level of the unwinding over the result of the level below.
UnwindLeft(t, below) ==
  LET u == [t EXCEPT !.left = below.tree]
      fixed == FixShortLeft(u)
  IN  IF below.short
      THEN [fixed EXCEPT !.ok = @ /\ below.ok /\ ~below.tree.red]
      ELSE Result(u, FALSE, below.ok)

UnwindRight(t, below) ==
  LET u == [t EXCEPT !.right = below.tree]
      fixed == FixShortRight(u)
  IN  IF below.short
      THEN [fixed EXCEPT !.ok = @ /\ below.ok]
      ELSE Result(u, FALSE, below.ok)

\* The node's place is taken by its successor, with the node's colour, and
\* the node is pruned where the successor was.  A red node pruned must have
\* been a left child.
RECURSIVE rbtn_first(_)
rbtn_first(t) == IF t.left = Nil THEN t ELSE rbtn_first(t.left)

RECURSIVE PruneFirst(_, _)
PruneFirst(t, isLeft) ==
  IF t.left = Nil
  THEN Result(Nil, ~t.red, t.red => isLeft)
  ELSE UnwindLeft(t, PruneFirst(t.left, TRUE))

\* Mutants: the node is not replaced; the successor keeps its own colour.
SwapNothing(t) == t

SwapColour(t) == [t EXCEPT !.key = rbtn_first(t.right).key, !.red = rbtn_first(t.right).red]

SwapSuccessor(t) == [t EXCEPT !.key = rbtn_first(t.right).key]

RECURSIVE RemoveBelow(_, _, _)
RemoveBelow(t, k, isLeft) ==
  CASE k < t.key -> UnwindLeft(t, RemoveBelow(t.left, k, TRUE))
    [] k > t.key -> UnwindRight(t, RemoveBelow(t.right, k, FALSE))
    [] k = t.key /\ t.right # Nil ->
         UnwindRight(SwapSuccessor(t), PruneFirst(t.right, FALSE))
    [] k = t.key /\ t.right = Nil /\ t.left # Nil ->
         Result(Black(t.left), FALSE, ~t.red /\ t.left.red)
    [] OTHER -> Result(Nil, ~t.red, t.red => isLeft)

huge_tree_remove(t, k) == RemoveBelow(t, k, FALSE)

-----------------------------------------------------------------------------
NULL == 0

RECURSIVE huge_tree_search(_, _)
huge_tree_search(t, k) == CASE t = Nil -> NULL
                  [] t # Nil /\ k < t.key -> huge_tree_search(t.left, k)
                  [] t # Nil /\ k > t.key -> huge_tree_search(t.right, k)
                  [] OTHER -> t.key

\* Mutant: the node is not remembered on the way down.
RECURSIVE NsearchForgets(_, _, _)
NsearchForgets(t, k, ret) ==
  CASE t = Nil -> ret
    [] t # Nil /\ k < t.key -> NsearchForgets(t.left, k, ret)
    [] t # Nil /\ k > t.key -> NsearchForgets(t.right, k, ret)
    [] OTHER -> t.key

\* nsearch and psearch remember in ret the last node they left to the left,
\* or to the right.
RECURSIVE NsearchFrom(_, _, _)
NsearchFrom(t, k, ret) ==
  CASE t = Nil -> ret
    [] t # Nil /\ k < t.key -> NsearchFrom(t.left, k, t.key)
    [] t # Nil /\ k > t.key -> NsearchFrom(t.right, k, ret)
    [] OTHER -> t.key

RECURSIVE PsearchFrom(_, _, _)
PsearchFrom(t, k, ret) ==
  CASE t = Nil -> ret
    [] t # Nil /\ k < t.key -> PsearchFrom(t.left, k, ret)
    [] t # Nil /\ k > t.key -> PsearchFrom(t.right, k, t.key)
    [] OTHER -> t.key

huge_tree_nsearch(t, k) == NsearchFrom(t, k, NULL)
huge_tree_psearch(t, k) == PsearchFrom(t, k, NULL)

RECURSIVE rbtn_last(_)
rbtn_last(t) == IF t.right = Nil THEN t ELSE rbtn_last(t.right)

\* next and prev of a node of the tree: the end of a subtree, or what the
\* walk from the root has remembered.
RECURSIVE NextFrom(_, _, _)
NextFrom(t, k, ret) ==
  CASE k < t.key -> NextFrom(t.left, k, t.key)
    [] k > t.key -> NextFrom(t.right, k, ret)
    [] k = t.key /\ t.right # Nil -> rbtn_first(t.right).key
    [] OTHER -> ret

RECURSIVE PrevFrom(_, _, _)
PrevFrom(t, k, ret) ==
  CASE k < t.key -> PrevFrom(t.left, k, ret)
    [] k > t.key -> PrevFrom(t.right, k, t.key)
    [] k = t.key /\ t.left # Nil -> rbtn_last(t.left).key
    [] OTHER -> ret

\* iter visits the whole tree, or what follows a node of it.
RECURSIVE Iter(_)
Iter(t) == IF t = Nil THEN <<>> ELSE Iter(t.left) \o <<t.key>> \o Iter(t.right)

RECURSIVE IterStart(_, _)
IterStart(t, k) ==
  CASE k < t.key -> IterStart(t.left, k) \o <<t.key>> \o Iter(t.right)
    [] k > t.key -> IterStart(t.right, k)
    [] OTHER -> <<t.key>> \o Iter(t.right)

\* reverse_iter is its mirror image.
RECURSIVE ReverseIter(_)
ReverseIter(t) ==
  IF t = Nil THEN <<>> ELSE ReverseIter(t.right) \o <<t.key>> \o ReverseIter(t.left)

RECURSIVE ReverseIterStart(_, _)
ReverseIterStart(t, k) ==
  CASE k > t.key -> ReverseIterStart(t.right, k) \o <<t.key>> \o ReverseIter(t.left)
    [] k < t.key -> ReverseIterStart(t.left, k)
    [] OTHER -> <<t.key>> \o ReverseIter(t.left)

-----------------------------------------------------------------------------
VARIABLES
  tree,     \* rbt_root
  ok        \* every assertion of rb.h has held so far

vars == <<tree, ok>>

Members == {k \in Keys : huge_tree_search(tree, k) # NULL}

Init == tree = Nil /\ ok = TRUE

InsertKey(k) == /\ k \notin Members
                /\ tree' = huge_tree_insert(tree, k)
                /\ ok' = ok

RemoveKey(k) == LET r == huge_tree_remove(tree, k)
                IN  /\ k \in Members
                    /\ tree' = r.tree
                    /\ ok' = (ok /\ r.ok /\ ~r.tree.red)

Next == \E k \in Keys : InsertKey(k) \/ RemoveKey(k)

Spec == Init /\ [][Next]_vars

-----------------------------------------------------------------------------
(***************************************************************************)
(* The tree is a set of addresses: an insertion adds the one inserted, a   *)
(* removal takes out the one removed, and no other node comes or goes with *)
(* the rotations.                                                          *)
(***************************************************************************)
Contents == ToSet(Iter(tree))

BehavesLikeASet ==
  [][\A k \in Keys :
       /\ InsertKey(k) => k \notin Contents /\ Contents' = Contents \cup {k}
       /\ RemoveKey(k) => k \in Contents /\ Contents' = Contents \ {k}]_vars

(***************************************************************************)
(* The tree is a left-leaning 2-3 tree: every path from the root to a leaf *)
(* has as many black nodes, no right child is red and no red node has a    *)
(* red child.  Hence a path of n nodes lies in a tree of 2^(n/2) - 1 or    *)
(* more, and the array path of insert and remove, with 128 places, is long *)
(* enough.                                                                 *)
(***************************************************************************)
RECURSIVE BlackHeights(_)
BlackHeights(t) ==
  IF t = Nil THEN {0}
  ELSE {h + IF t.red THEN 0 ELSE 1 :
          h \in BlackHeights(t.left) \cup BlackHeights(t.right)}

RECURSIVE LeansLeft(_)
LeansLeft(t) ==
  t # Nil => /\ ~t.right.red
             /\ t.red => ~t.left.red
             /\ LeansLeft(t.left) /\ LeansLeft(t.right)

Balanced == /\ ~tree.red
            /\ LeansLeft(tree)
            /\ Cardinality(BlackHeights(tree)) = 1

(***************************************************************************)
(* No assertion of remove ever fails (rb.h:583, 584, 606, 619, 750, 852).  *)
(* Those at 656 and 788, that a red node is not the root, are the first    *)
(* conjunct of Balanced.                                                   *)
(***************************************************************************)
AssertionsHold == ok

(***************************************************************************)
(* The searches and the iterations agree with the order of the addresses,  *)
(* from whichever address they start, present or not.                      *)
(***************************************************************************)
Least(S) == IF S = {} THEN NULL ELSE Min(S)
Greatest(S) == IF S = {} THEN NULL ELSE Max(S)
Lists(s, S) == /\ ToSet(s) = S
               /\ \A i \in 1 .. Len(s) - 1 : s[i] < s[i + 1]

QueriesAgree ==
  LET S == Contents
  IN  /\ Lists(Iter(tree), S) /\ Lists(Reverse(ReverseIter(tree)), S)
      /\ tree # Nil => rbtn_first(tree).key = Min(S) /\ rbtn_last(tree).key = Max(S)
      /\ \A k \in Keys :
           /\ huge_tree_search(tree, k) = IF k \in S THEN k ELSE NULL
           /\ huge_tree_nsearch(tree, k) = Least({m \in S : m >= k})
           /\ huge_tree_psearch(tree, k) = Greatest({m \in S : m <= k})
      /\ \A k \in S :
           /\ NextFrom(tree, k, NULL) = Least({m \in S : m > k})
           /\ PrevFrom(tree, k, NULL) = Greatest({m \in S : m < k})
           /\ Lists(IterStart(tree, k), {m \in S : m >= k})
           /\ Lists(Reverse(ReverseIterStart(tree, k)), {m \in S : m <= k})
=============================================================================
