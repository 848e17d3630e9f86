----------------------------- MODULE QueueLists -----------------------------
(***************************************************************************)
(* What the lists of src/include/lsmalloc/internal/ql.h promise: finite    *)
(* sequences of elements, an element being in one list at most.  A ring of *)
(* qr.h read from one of its elements is such a list too.                  *)
(***************************************************************************)
EXTENDS Sequences, SequencesExt, Naturals

CONSTANTS Elms, Heads

VARIABLE lists      \* the elements of each list, first one first

Absent(e) == \A h \in Heads : e \notin ToSet(lists[h])

Init == lists = [h \in Heads |-> <<>>]

InsertHead(h, e) == /\ Absent(e)
                    /\ lists' = [lists EXCEPT ![h] = <<e>> \o @]

InsertTail(h, e) == /\ Absent(e)
                    /\ lists' = [lists EXCEPT ![h] = Append(@, e)]

\* e becomes the i-th element.
InsertBetween(h, i, e) == /\ Absent(e)
                          /\ lists' = [lists EXCEPT ![h] = InsertAt(@, i, e)]

RemoveFrom(h, i) == lists' = [lists EXCEPT ![h] = RemoveAt(@, i)]

Rotate(h) == /\ lists[h] # <<>>
             /\ lists' = [lists EXCEPT ![h] = Append(Tail(@), Head(@))]

Next == \E h \in Heads :
          \/ \E e \in Elms :
               \/ InsertHead(h, e) \/ InsertTail(h, e)
               \/ \E i \in 1 .. Len(lists[h]) + 1 : InsertBetween(h, i, e)
          \/ \E i \in 1 .. Len(lists[h]) : RemoveFrom(h, i)
          \/ Rotate(h)

Spec == Init /\ [][Next]_lists
=============================================================================
