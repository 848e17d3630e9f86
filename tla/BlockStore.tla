----------------------------- MODULE BlockStore -----------------------------
(***************************************************************************)
(* What an arena promises the threads that call it: each call is given,    *)
(* at one moment between its beginning and its return, one block that      *)
(* shares no byte with any other and is as long as was asked, and blocks   *)
(* once given stay where they are.                                         *)
(***************************************************************************)
EXTENDS Integers

CONSTANT Threads

VARIABLES
  asked,            \* the size each thread asks for, 0 outside of calls
  served,           \* whether it has its block
  blocks            \* the blocks given: a header and data, in one chunk

vars == <<asked, served, blocks>>

Init == /\ asked = [t \in Threads |-> 0]
        /\ served = [t \in Threads |-> FALSE]
        /\ blocks = {}

Apart(b, d) == b.base # d.base \/ b.end <= d.header \/ d.end <= b.header

Ask(t) == /\ asked[t] = 0
          /\ asked'[t] \in Nat \ {0}
          /\ asked' = [asked EXCEPT ![t] = asked'[t]]
          /\ UNCHANGED <<served, blocks>>

Serve(t) == /\ asked[t] # 0 /\ ~served[t]
            /\ \E b \in blocks' \ blocks :
                 /\ blocks' = blocks \cup {b}
                 /\ b.end - b.data >= asked[t]
                 /\ b.header < b.data
                 /\ \A d \in blocks : Apart(b, d)
            /\ served' = [served EXCEPT ![t] = TRUE]
            /\ UNCHANGED asked

Return(t) == /\ served[t]
             /\ asked' = [asked EXCEPT ![t] = 0]
             /\ served' = [served EXCEPT ![t] = FALSE]
             /\ UNCHANGED blocks

Next == \E t \in Threads : Ask(t) \/ Serve(t) \/ Return(t)

Spec == Init /\ [][Next]_vars
=============================================================================
