----------------------------- MODULE ChunkQueue -----------------------------
(***************************************************************************)
(* What the chunk pool promises its arena: a store of chunks that hands    *)
(* out each chunk to one holder at a time, in the order in which chunks    *)
(* became free (so that a freed chunk rests for as long as possible), and  *)
(* that maps a new pool only when no chunk is free.                        *)
(***************************************************************************)
EXTENDS Integers, Sequences

CONSTANTS PoolChunks,   \* chunks per pool
          MaxPools      \* bound: the pools the device has room for

VARIABLES avail,        \* the free chunks, oldest first
          out,          \* the chunks that are handed out
          npools,       \* pools mapped so far
          exited        \* mapping a pool failed and the process ended

vars == <<avail, out, npools, exited>>

Batch(k) == [i \in 1 .. PoolChunks |-> <<k, i>>]

Init == /\ avail = Batch(1)
        /\ out = {}
        /\ npools = 1
        /\ exited = FALSE

\* The oldest free chunk is taken.
Take == /\ ~exited
        /\ avail # <<>>
        /\ avail' = Tail(avail)
        /\ out' = out \cup {Head(avail)}
        /\ UNCHANGED <<npools, exited>>

\* No chunk is free: the first chunk of a new pool is taken.
GrowAndTake == /\ ~exited
               /\ avail = <<>>
               /\ npools < MaxPools
               /\ npools' = npools + 1
               /\ avail' = Tail(Batch(npools + 1))
               /\ out' = out \cup {<<npools + 1, 1>>}
               /\ UNCHANGED exited

GrowFails == /\ ~exited
             /\ avail = <<>>
             /\ exited' = TRUE
             /\ UNCHANGED <<avail, out, npools>>

\* A holder returns its chunk: it becomes the youngest free chunk.
Return(c) == /\ ~exited
             /\ avail' = Append(avail, c)
             /\ out' = out \ {c}
             /\ UNCHANGED <<npools, exited>>

Next == Take \/ GrowAndTake \/ GrowFails \/ (\E c \in out : Return(c))

Spec == Init /\ [][Next]_vars
=============================================================================
