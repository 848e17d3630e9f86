------------------------------ MODULE QueueRing ------------------------------
(***************************************************************************)
(* The rings of src/include/lsmalloc/internal/qr.h, and the lists of ql.h, *)
(* a list being a ring with a pointer to its first element: pointer by     *)
(* pointer.  The arena keeps its chunks and regions in lists, the pool its *)
(* free chunks and files in rings; fl_now is the first pointer of a list   *)
(* that is rotated.  Callers hold a lock, so an operation is one step.     *)
(***************************************************************************)
EXTENDS Naturals, Sequences, SequencesExt, FiniteSets, FiniteSetsExt

CONSTANTS
  Elms,             \* the elements: structures with a qre_next and a qre_prev
  Heads,            \* the list heads
  NULL

ASSUME ElmsAssumption == IsFiniteSet(Elms) /\ NULL \notin Elms

VARIABLES
  qre,              \* the two pointers of every element
  qlh_first         \* the pointer of every head

vars == <<qre, qlh_first>>

-----------------------------------------------------------------------------
\* The operations on rings, in the order of their assignments.
qr_new(r, e) == [qre_next |-> [r.qre_next EXCEPT ![e] = e],
                 qre_prev |-> [r.qre_prev EXCEPT ![e] = e]]

\* Mutant: the element before does not learn of the new one.
InsertHalf(r, at, e) ==
  [qre_next |-> [r.qre_next EXCEPT ![e] = at],
   qre_prev |-> [r.qre_prev EXCEPT ![e] = r.qre_prev[at], ![at] = e]]

qr_before_insert(r, at, e) ==
  LET p == r.qre_prev[at]
  IN  [qre_next |-> [r.qre_next EXCEPT ![e] = at, ![p] = e],
       qre_prev |-> [r.qre_prev EXCEPT ![e] = p, ![at] = e]]

qr_after_insert(r, at, e) ==
  LET n == r.qre_next[at]
  IN  [qre_next |-> [r.qre_next EXCEPT ![e] = n, ![at] = e],
       qre_prev |-> [r.qre_prev EXCEPT ![e] = at, ![n] = e]]

\* Mutant: the element removed keeps its pointers.
RemoveDangling(r, e) ==
  [qre_next |-> [r.qre_next EXCEPT ![r.qre_prev[e]] = r.qre_next[e]],
   qre_prev |-> [r.qre_prev EXCEPT ![r.qre_next[e]] = r.qre_prev[e]]]

qr_remove(r, e) ==
  [qre_next |-> [r.qre_next EXCEPT ![r.qre_prev[e]] = r.qre_next[e], ![e] = e],
   qre_prev |-> [r.qre_prev EXCEPT ![r.qre_next[e]] = r.qre_prev[e], ![e] = e]]

\* The elements qr_foreach visits from e: along next until e comes again.  No
\* ring has more elements than there are.
Visits(next, e) ==
  LET at[k \in 0 .. Cardinality(Elms)] == IF k = 0 THEN e ELSE next[at[k - 1]]
      again == {k \in 1 .. Cardinality(Elms) : at[k] = e} \cup {Cardinality(Elms)}
  IN  [i \in 1 .. Min(again) |-> at[i - 1]]

qr_foreach(r, e) == IF e = NULL THEN <<>> ELSE Visits(r.qre_next, e)

\* From the last one along prev, down to e.
qr_reverse_foreach(r, e) ==
  IF e = NULL THEN <<>>
  ELSE LET back == Visits(r.qre_prev, r.qre_prev[e])
       IN  SubSeq(back, 1, Min({i \in DOMAIN back : back[i] = e} \cup {Len(back)}))

-----------------------------------------------------------------------------
ql_first(h) == qlh_first[h]
ql_last(h) == IF ql_first(h) # NULL THEN qre.qre_prev[ql_first(h)] ELSE NULL
ql_next(h, e) == IF ql_last(h) # e THEN qre.qre_next[e] ELSE NULL
ql_prev(h, e) == IF ql_first(h) # e THEN qre.qre_prev[e] ELSE NULL

ListOf(h) == qr_foreach(qre, ql_first(h))
Elements(h) == ToSet(ListOf(h))

\* Callers insert elements that are in no list, after ql_elm_new.
Free(e) == \A h \in Heads : e \notin Elements(h)

Init == /\ qre = [qre_next |-> [e \in Elms |-> e], qre_prev |-> [e \in Elms |-> e]]
        /\ qlh_first = [h \in Heads |-> NULL]

\* Mutant: an insertion at the head leaves the first pointer.
HeadInsertLast(h, e) ==
  /\ Free(e)
  /\ qre' = IF ql_first(h) # NULL
            THEN qr_before_insert(qr_new(qre, e), ql_first(h), e)
            ELSE qr_new(qre, e)
  /\ qlh_first' = IF ql_first(h) # NULL THEN qlh_first ELSE [qlh_first EXCEPT ![h] = e]

ql_head_insert(h, e) ==
  /\ Free(e)
  /\ qre' = IF ql_first(h) # NULL
            THEN qr_before_insert(qr_new(qre, e), ql_first(h), e)
            ELSE qr_new(qre, e)
  /\ qlh_first' = [qlh_first EXCEPT ![h] = e]

ql_tail_insert(h, e) ==
  /\ Free(e)
  /\ qre' = IF ql_first(h) # NULL
            THEN qr_before_insert(qr_new(qre, e), ql_first(h), e)
            ELSE qr_new(qre, e)
  /\ qlh_first' = [qlh_first EXCEPT ![h] = qre'.qre_next[e]]

ql_before_insert(h, at, e) ==
  /\ Free(e) /\ at \in Elements(h)
  /\ qre' = qr_before_insert(qr_new(qre, e), at, e)
  /\ qlh_first' = IF ql_first(h) = at THEN [qlh_first EXCEPT ![h] = e] ELSE qlh_first

\* Also pmempool_create_one, behind the last node it made.
ql_after_insert(h, at, e) ==
  /\ Free(e) /\ at \in Elements(h)
  /\ qre' = qr_after_insert(qr_new(qre, e), at, e)
  /\ UNCHANGED qlh_first

\* The first pointer moves on before the element goes, and becomes NULL if it
\* is the element even so.
ql_remove(h, e) ==
  LET first == IF ql_first(h) = e THEN qre.qre_next[e] ELSE ql_first(h)
  IN  /\ e \in Elements(h)
      /\ IF first # e
         THEN /\ qre' = qr_remove(qre, e)
              /\ qlh_first' = [qlh_first EXCEPT ![h] = first]
         ELSE /\ qlh_first' = [qlh_first EXCEPT ![h] = NULL]
              /\ UNCHANGED qre

ql_head_remove(h) == ql_first(h) # NULL /\ ql_remove(h, ql_first(h))
ql_tail_remove(h) == ql_last(h) # NULL /\ ql_remove(h, ql_last(h))

\* pmempool_chunk_alloc, SkipHeader: fl_now moves on.
Advance(h) ==
  /\ ql_first(h) # NULL
  /\ qlh_first' = [qlh_first EXCEPT ![h] = qre.qre_next[@]]
  /\ UNCHANGED qre

\* pmempool_chunk_alloc: fl_now moves on, the node left behind is taken out.
\* The dummy node is in the ring as well.
AdvanceRemove(h) ==
  /\ ql_first(h) # NULL
  /\ qre.qre_next[ql_first(h)] # ql_first(h)
  /\ qlh_first' = [qlh_first EXCEPT ![h] = qre.qre_next[@]]
  /\ qre' = qr_remove(qre, ql_first(h))

\* pmempool_free: a node is put before fl_now, which stays.
PushBack(h, e) ==
  /\ Free(e) /\ ql_first(h) # NULL
  /\ qre' = qr_before_insert(qr_new(qre, e), ql_first(h), e)
  /\ UNCHANGED qlh_first

Next ==
  \E h \in Heads :
    \/ \E e \in Elms :
         \/ ql_head_insert(h, e) \/ ql_tail_insert(h, e) \/ PushBack(h, e)
         \/ \E at \in Elms : ql_before_insert(h, at, e) \/ ql_after_insert(h, at, e)
         \/ ql_remove(h, e)
    \/ ql_head_remove(h) \/ ql_tail_remove(h)
    \/ Advance(h) \/ AdvanceRemove(h)

Spec == Init /\ [][Next]_vars

-----------------------------------------------------------------------------
(***************************************************************************)
(* The pointers of an element are those of one ring, both ways: reading a  *)
(* list backwards gives the reverse of reading it forwards, no element is  *)
(* in two lists, and one in no list points to itself alone: with a loose   *)
(* pointer an element could be freed and still be reached.  ql_next and    *)
(* ql_prev end where the ring goes on, which loops over a list rely on.    *)
(***************************************************************************)
RingsIntact ==
  /\ \A h \in Heads :
       qr_reverse_foreach(qre, ql_first(h)) = Reverse(ListOf(h))
  /\ \A h, g \in Heads : h # g => Elements(h) \cap Elements(g) = {}
  /\ \A h \in Heads :
       LET s == ListOf(h)
       IN  \A i \in 1 .. Len(s) :
             /\ ql_next(h, s[i]) = IF i = Len(s) THEN NULL ELSE s[i + 1]
             /\ ql_prev(h, s[i]) = IF i = 1 THEN NULL ELSE s[i - 1]
  /\ \A e \in Elms : Free(e) => qre.qre_next[e] = e /\ qre.qre_prev[e] = e

(***************************************************************************)
(* A list behaves as a sequence under every order of operations on all     *)
(* lists: insertion and removal at the ends and next to an element, and    *)
(* the rotations of the pool's ring.  PmemPoolOps, SlabArena and LogArena  *)
(* use sequences on the strength of this.                                  *)
(***************************************************************************)
Sequence == INSTANCE QueueLists WITH lists <- [h \in Heads |-> ListOf(h)]

ImplementsSequences == Sequence!Spec

(***************************************************************************)
(* Which sequence operation each one is: an insertion at the head puts the *)
(* element first, one at the tail or a push into the pool's ring last, a   *)
(* removal takes out the element named and keeps the order of the others.  *)
(***************************************************************************)
OperationsKeepOrder ==
  [][\A h \in Heads, e \in Elms :
       /\ ql_head_insert(h, e) => ListOf(h)' = <<e>> \o ListOf(h)
       /\ ql_tail_insert(h, e) \/ PushBack(h, e) =>
            ListOf(h)' = Append(ListOf(h), e)
       /\ ql_remove(h, e) => \E i \in 1 .. Len(ListOf(h)) :
            /\ ListOf(h)[i] = e
            /\ ListOf(h)' = RemoveAt(ListOf(h), i)]_vars
=============================================================================
