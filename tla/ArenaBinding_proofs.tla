------------------------- MODULE ArenaBinding_proofs -------------------------
(***************************************************************************)
(* Proofs about ArenaBinding, for every set of threads, number of arenas   *)
(* and pool size: BindingInv, NthreadsExact and LeastLoaded.               *)
(*                                                                         *)
(* BindingInv and NthreadsExact are inductive together: what a thread      *)
(* reads under arenas_lock stays true until it stores because LocksExclude *)
(* keeps the others out, and a new arena starts from 0 threads because     *)
(* only initialised arenas are counted in.                                 *)
(***************************************************************************)
EXTENDS ArenaBinding, CommonLemmas, FiniteSetTheorems

IInv == BindingInv /\ NthreadsExact

\* A step of a thread.
Step(t) == Call(t) \/ InCall(t) \/ Exit(t) \/ Die(t)

-----------------------------------------------------------------------------
\* Min of a set of naturals that is not empty.
LEMMA MinOfNaturals ==
  ASSUME NEW S, S \subseteq Nat, S # {}
  PROVE  /\ Min(S) \in S
         /\ \A m \in S : Min(S) <= m
<1>1. PICK least \in S : \A m \in S : least <= m
  BY LeastElement
<1> QED
  BY <1>1 DEF Min

\* The threads counted in one arena are finitely many.
LEMMA Counts ==
  ASSUME IInv, NEW i \in Indices
  PROVE  /\ IsFiniteSet({t \in Threads : Counted(t) = i})
         /\ nthreads[i] = Cardinality({t \in Threads : Counted(t) = i})
         /\ nthreads[i] \in Nat
<1>1. IsFiniteSet({t \in Threads : Counted(t) = i})
  BY FS_Subset, BindingAssumption
<1> QED
  BY <1>1, FS_CardinalityType DEF IInv, NthreadsExact

\* The choice is an initialised arena with the fewest threads.
LEMMA ChooseOK ==
  ASSUME IInv, arenas # {}
  PROVE  /\ Choose \in arenas
         /\ \A j \in arenas : nthreads[Choose] <= nthreads[j]
<1> DEFINE counts == {nthreads[i] : i \in arenas}
           least == Min(counts)
           best == {i \in arenas : nthreads[i] = least}
<1>1. arenas \subseteq Indices /\ Indices \subseteq Nat
  BY BindingAssumption DEF IInv, BindingInv, TypeOK, Indices
<1>2. counts \subseteq Nat /\ counts # {}
  BY <1>1, Counts
<1>3. least \in counts /\ \A m \in counts : least <= m
  BY <1>2, MinOfNaturals
<1>4. best \subseteq Nat /\ best # {}
  BY <1>1, <1>3
<1>5. Min(best) \in best
  BY <1>4, MinOfNaturals
<1>6. Choose = Min(best)
  BY DEF Choose
<1> HIDE DEF least
<1> QED
  BY <1>3, <1>5, <1>6

\* The first empty slot, when the choice would share an arena.
LEMMA FirstNullOK ==
  ASSUME IInv, ~ReuseOK, narenas_auto = NArenas
  PROVE  Min(Slots \ arenas) \in Indices \ arenas
<1>1. Slots = Indices /\ Indices \subseteq Nat
  BY BindingAssumption DEF Slots, Indices
<1>2. Slots \ arenas # {} /\ Slots \ arenas \subseteq Nat
  BY <1>1 DEF ReuseOK
<1> QED
  BY <1>1, <1>2, MinOfNaturals

\* Every step keeps the types.
LEMMA TypeStep ==
  ASSUME IInv, NEW t \in Threads, Step(t)
  PROVE  TypeOK'
<1> USE DEF TypeOK, setup, life, Go, Halt, Places, Choosing, Cleaning, Initialising
<1>t. TypeOK
  BY DEF IInv, BindingInv
<1>i. 0 \in Indices
  BY BindingAssumption DEF Indices
<1>p. pc[t] = "scan" => narenas_auto = NArenas /\ arenas # {}
  BY DEF IInv, BindingInv, InitializedOnce, Past
<1>1. CASE Call(t)
  <2>1. late'[t] \in 0 .. MaxLate
    <3>1. late[t] \in 0 .. MaxLate
      BY <1>t
    <3>2. late'[t] = late[t] + (IF exiting[t] THEN 1 ELSE 0)
      BY <1>1, <1>t DEF Call
    <3> QED
      BY <3>1, <3>2, <1>1, BindingAssumption DEF Call
  <2>2. late' \in [Threads -> 0 .. MaxLate]
    BY <2>1, <1>1, <1>t DEF Call
  <2> QED
    BY <1>1, <1>t, <2>2 DEF Call
<1>2. CASE InitLock(t)
  BY <1>2, <1>t DEF InitLock
<1>3. CASE InitArena0(t)
  BY <1>3, <1>t, <1>i DEF InitArena0
<1>4. CASE InitArray(t)
  BY <1>4, <1>t, <1>i DEF InitArray
<1>5. CASE InitTpool(t)
  BY <1>5, <1>t DEF InitTpool
<1>6. CASE InitFlag(t)
  BY <1>6, <1>t DEF InitFlag
<1>7. CASE InitUnlock(t)
  BY <1>7, <1>t DEF InitUnlock
<1>8. CASE Hit(t)
  BY <1>8, <1>t DEF Hit
<1>9. CASE Miss(t)
  BY <1>9, <1>t DEF Miss
<1>10. CASE ArenasLock(t)
  BY <1>10, <1>t DEF ArenasLock
<1>11. CASE Reuse(t)
  <2>1. Choose \in Indices
    BY <1>11, <1>t, <1>p, ChooseOK DEF Reuse
  <2> QED
    BY <1>11, <1>t, <2>1 DEF Reuse
<1>12. CASE Extend(t)
  <2>1. Min(Slots \ arenas) \in Indices
    BY <1>12, <1>p, FirstNullOK DEF Extend
  <2> QED
    BY <1>12, <1>t, <2>1 DEF Extend
<1>13. CASE OutOfResources(t)
  BY <1>13, <1>t DEF OutOfResources
<1>14. CASE Load(t)
  <2>1. ret[t] \in Indices
    BY <1>14, <1>t DEF Load, IInv, BindingInv, ThreadsBound, ThreadBound
  <2> QED
    BY <1>14, <1>t, <2>1 DEF Load
<1>15. CASE Store(t)
  BY <1>15, <1>t DEF Store
<1>16. CASE ArenasUnlock(t)
  BY <1>16, <1>t DEF ArenasUnlock
<1>17. CASE TsdSet(t)
  BY <1>17, <1>t DEF TsdSet
<1>18. CASE Return(t)
  BY <1>18, <1>t DEF Return
<1>19. CASE Cleanup(t)
  BY <1>19, <1>t DEF Cleanup
<1>20. CASE Exit(t)
  BY <1>20, <1>t DEF Exit
<1>21. CASE Die(t)
  BY <1>21, <1>t DEF Die
<1> QED
  BY <1>1, <1>2, <1>3, <1>4, <1>5, <1>6, <1>7, <1>8, <1>9, <1>10, <1>11, <1>12,
     <1>13, <1>14, <1>15, <1>16, <1>17, <1>18, <1>19, <1>20, <1>21
     DEF Step, InCall

\* Every step keeps the mutual exclusion.
LEMMA LocksStep ==
  ASSUME IInv, NEW t \in Threads, Step(t)
  PROVE  LocksExclude'
<1> USE DEF LocksExclude, setup, life, Go, Halt, Initialising, LockHeld
<1>t. /\ pc \in [Threads -> Places]
      /\ NoThread \notin Threads
      /\ LocksExclude
      /\ \A u \in Threads : pc[u] \in LockHeld => malloc_initialized
      /\ pc[t] = "arena0" => ~malloc_initialized
  BY BindingAssumption DEF IInv, BindingInv, TypeOK, BootOrder, Past, Choosing,
                           Cleaning
<1>1. CASE Call(t)
  BY <1>1, <1>t DEF Call
<1>2. CASE InitLock(t)
  BY <1>2, <1>t DEF InitLock
<1>3. CASE InitArena0(t)
  BY <1>3, <1>t DEF InitArena0
<1>4. CASE InitArray(t)
  BY <1>4, <1>t DEF InitArray
<1>5. CASE InitTpool(t)
  BY <1>5, <1>t DEF InitTpool
<1>6. CASE InitFlag(t)
  BY <1>6, <1>t DEF InitFlag
<1>7. CASE InitUnlock(t)
  BY <1>7, <1>t DEF InitUnlock
<1>8. CASE Hit(t)
  BY <1>8, <1>t DEF Hit
<1>9. CASE Miss(t)
  BY <1>9, <1>t DEF Miss
<1>10. CASE ArenasLock(t)
  BY <1>10, <1>t DEF ArenasLock
<1>11. CASE Reuse(t)
  BY <1>11, <1>t DEF Reuse
<1>12. CASE Extend(t)
  BY <1>12, <1>t DEF Extend
<1>13. CASE OutOfResources(t)
  BY <1>13, <1>t DEF OutOfResources
<1>14. CASE Load(t)
  BY <1>14, <1>t DEF Load
<1>15. CASE Store(t)
  BY <1>15, <1>t DEF Store
<1>16. CASE ArenasUnlock(t)
  BY <1>16, <1>t DEF ArenasUnlock
<1>17. CASE TsdSet(t)
  BY <1>17, <1>t DEF TsdSet
<1>18. CASE Return(t)
  BY <1>18, <1>t DEF Return
<1>19. CASE Cleanup(t)
  BY <1>19, <1>t DEF Cleanup
<1>20. CASE Exit(t)
  BY <1>20, <1>t DEF Exit
<1>21. CASE Die(t)
  BY <1>21, <1>t DEF Die
<1> QED
  BY <1>1, <1>2, <1>3, <1>4, <1>5, <1>6, <1>7, <1>8, <1>9, <1>10, <1>11, <1>12,
     <1>13, <1>14, <1>15, <1>16, <1>17, <1>18, <1>19, <1>20, <1>21
     DEF Step, InCall

\* Every step keeps the order of the initialisation.
LEMMA BootStep ==
  ASSUME IInv, NEW t \in Threads, Step(t)
  PROVE  BootOrder'
<1> USE DEF BootOrder, setup, life, Go, Halt, Made, Past, Choosing, Cleaning
<1>t. /\ pc \in [Threads -> Places]
      /\ tls \in [Threads -> Indices \cup {NoArena}]
      /\ ret \in [Threads -> Indices \cup {NoArena}]
      /\ key[t] \in {NoArena, tls[t]}
      /\ NoThread \notin Threads
      /\ \A u \in Threads : pc[u] \in Initialising => init_lock = u
      /\ BootOrder
  BY BindingAssumption DEF IInv, BindingInv, TypeOK, ThreadsBound, ThreadBound,
                           LocksExclude
<1>1. CASE Call(t)
  BY <1>1, <1>t DEF Call
<1>2. CASE InitLock(t)
  BY <1>2, <1>t DEF InitLock, Initialising
<1>3. CASE InitArena0(t)
  <2>1. /\ pc[t] = "arena0" /\ pc' = [pc EXCEPT ![t] = "array"]
        /\ UNCHANGED <<tls, ret>>
    BY <1>3 DEF InitArena0
  <2>2. \A u \in Threads : u # t => pc'[u] = pc[u] /\ pc[u] \notin Initialising
    BY <2>1, <1>t DEF Initialising
  <2> QED
    BY <1>3, <2>1, <2>2, <1>t DEF InitArena0, Initialising
<1>4. CASE InitArray(t)
  <2>1. /\ pc[t] = "array" /\ pc' = [pc EXCEPT ![t] = "tpool"]
        /\ UNCHANGED <<tls, ret>>
    BY <1>4 DEF InitArray
  <2>2. \A u \in Threads : u # t => pc'[u] = pc[u] /\ pc[u] \notin Initialising
    BY <2>1, <1>t DEF Initialising
  <2> QED
    BY <1>4, <2>1, <2>2, <1>t DEF InitArray, Initialising
<1>5. CASE InitTpool(t)
  BY <1>5, <1>t DEF InitTpool
<1>6. CASE InitFlag(t)
  <2>1. /\ pc[t] = "flag" /\ pc' = [pc EXCEPT ![t] = "initunlock"]
        /\ UNCHANGED <<tls, ret>>
    BY <1>6 DEF InitFlag
  <2>2. \A u \in Threads : u # t => pc'[u] = pc[u] /\ pc[u] \notin Initialising
    BY <2>1, <1>t DEF Initialising
  <2> QED
    BY <1>6, <2>1, <2>2, <1>t DEF InitFlag, Initialising
<1>7. CASE InitUnlock(t)
  BY <1>7, <1>t DEF InitUnlock
<1>8. CASE Hit(t)
  BY <1>8, <1>t DEF Hit
<1>9. CASE Miss(t)
  BY <1>9, <1>t DEF Miss
<1>10. CASE ArenasLock(t)
  BY <1>10, <1>t DEF ArenasLock
<1>11. CASE Reuse(t)
  BY <1>11, <1>t DEF Reuse
<1>12. CASE Extend(t)
  BY <1>12, <1>t DEF Extend
<1>13. CASE OutOfResources(t)
  BY <1>13, <1>t DEF OutOfResources
<1>14. CASE Load(t)
  BY <1>14, <1>t DEF Load
<1>15. CASE Store(t)
  BY <1>15, <1>t DEF Store
<1>16. CASE ArenasUnlock(t)
  BY <1>16, <1>t DEF ArenasUnlock
<1>17. CASE TsdSet(t)
  BY <1>17, <1>t DEF TsdSet
<1>18. CASE Return(t)
  BY <1>18, <1>t DEF Return
<1>19. CASE Cleanup(t)
  BY <1>19, <1>t DEF Cleanup
<1>20. CASE Exit(t)
  BY <1>20, <1>t DEF Exit
<1>21. CASE Die(t)
  BY <1>21, <1>t DEF Die
<1> QED
  BY <1>1, <1>2, <1>3, <1>4, <1>5, <1>6, <1>7, <1>8, <1>9, <1>10, <1>11, <1>12,
     <1>13, <1>14, <1>15, <1>16, <1>17, <1>18, <1>19, <1>20, <1>21
     DEF Step, InCall

\* Every step keeps what holds of each thread.
LEMMA BoundStep ==
  ASSUME IInv, NEW t \in Threads, Step(t)
  PROVE  ThreadsBound'
<1> USE DEF setup, life, Go, Halt, Choosing, Cleaning
<1>t. /\ pc \in [Threads -> Places]
      /\ tls \in [Threads -> Indices \cup {NoArena}]
      /\ ret \in [Threads -> Indices \cup {NoArena}]
      /\ key \in [Threads -> Indices \cup {NoArena}]
      /\ n \in [Threads -> Int]
      /\ nthreads \in [Indices -> Int]
      /\ arenas \subseteq Indices
      /\ ThreadsBound
  BY DEF IInv, BindingInv, TypeOK
<1>l. \A u \in Threads : pc[u] \in LockHeld => arenas_lock = u
  BY DEF IInv, BindingInv, LocksExclude
<1>p. pc[t] = "scan" => narenas_auto = NArenas /\ arenas # {}
  BY DEF IInv, BindingInv, InitializedOnce, Past
<1>o. NoArena \notin Indices
  BY DEF NoArena, Indices
<1>1. CASE Call(t)
  BY <1>1, <1>t DEF ThreadsBound, ThreadBound, LeastOf, Slots, Call
<1>2. CASE InitLock(t)
  BY <1>2, <1>t DEF ThreadsBound, ThreadBound, LeastOf, Slots, InitLock
<1>3. CASE InitArena0(t)
  <2>1. \A u \in Threads : tls[u] = NoArena /\ ret[u] = NoArena /\ pc[u] \notin Past
    BY <1>3 DEF InitArena0, IInv, BindingInv, BootOrder, Made
  <2>2. \A u \in Threads : key[u] = NoArena /\ pc'[u] \notin Past
    BY <1>3, <2>1, <1>t DEF InitArena0, ThreadsBound, ThreadBound, Past
  <2> QED
    BY <1>3, <2>1, <2>2 DEF InitArena0, ThreadsBound, ThreadBound, Past
<1>4. CASE InitArray(t)
  <2>1. \A u \in Threads : tls[u] = NoArena /\ ret[u] = NoArena /\ pc[u] \notin Past
    BY <1>4 DEF InitArray, IInv, BindingInv, BootOrder, Made
  <2>2. \A u \in Threads : key[u] = NoArena /\ pc'[u] \notin Past
    BY <1>4, <2>1, <1>t DEF InitArray, ThreadsBound, ThreadBound, Past
  <2> QED
    BY <1>4, <2>1, <2>2 DEF InitArray, ThreadsBound, ThreadBound, Past
<1>5. CASE InitTpool(t)
  BY <1>5, <1>t DEF ThreadsBound, ThreadBound, LeastOf, Slots, InitTpool
<1>6. CASE InitFlag(t)
  BY <1>6, <1>t DEF ThreadsBound, ThreadBound, LeastOf, Slots, InitFlag
<1>7. CASE InitUnlock(t)
  BY <1>7, <1>t DEF ThreadsBound, ThreadBound, LeastOf, Slots, InitUnlock
<1>8. CASE Hit(t)
  BY <1>8, <1>t DEF ThreadsBound, ThreadBound, LeastOf, Slots, Hit
<1>9. CASE Miss(t)
  BY <1>9, <1>t DEF ThreadsBound, ThreadBound, LeastOf, Slots, Miss
<1>10. CASE ArenasLock(t)
  BY <1>10, <1>t DEF ThreadsBound, ThreadBound, LeastOf, Slots, ArenasLock
<1>11. CASE Reuse(t)
  <2>1. PICK i \in arenas : /\ i = Choose
                           /\ \A j \in arenas : nthreads[i] <= nthreads[j]
    BY <1>11, <1>p, ChooseOK DEF Reuse
  <2>2. nthreads[i] \in Nat /\ (nthreads[i] = 0 \/ Slots \subseteq arenas)
    BY <1>11, <1>t, <2>1, Counts DEF Reuse, ReuseOK
  <2>3. ret' = [ret EXCEPT ![t] = i]
    BY <1>11, <2>1 DEF Reuse
  <2>4. LeastOf(i)
    BY <2>1, <2>2 DEF LeastOf
  <2>5. i # NoArena
    BY <2>1, <1>t, <1>o
  <2>6. \A j \in Indices : LeastOf(j)' = LeastOf(j)
    BY <1>11 DEF Reuse, LeastOf, Slots
  <2> QED
    BY <1>11, <1>t, <1>o, <2>1, <2>3, <2>4, <2>5, <2>6 DEF Reuse, ThreadsBound, ThreadBound
<1>12. CASE Extend(t)
  <2>1. PICK i \in Indices \ arenas : i = Min(Slots \ arenas)
    BY <1>12, <1>p, FirstNullOK DEF Extend
  <2>2. /\ ret' = [ret EXCEPT ![t] = i] /\ arenas' = arenas \cup {i}
        /\ nthreads' = [nthreads EXCEPT ![i] = 0]
        /\ pc[t] = "scan" /\ pc' = [pc EXCEPT ![t] = "loadinc"]
        /\ UNCHANGED <<tls, key, n>>
    BY <1>12, <2>1 DEF Extend
  <2>3. \A u \in Threads : u # t => pc'[u] \notin LockHeld /\ pc'[u] = pc[u]
    BY <2>2, <1>t, <1>l DEF LockHeld
  <2>4. \A j \in Indices : nthreads[j] \in Nat
    BY Counts
  <2>5. LeastOf(i)'
    <3>1. nthreads'[i] = 0 /\ \A j \in Indices : nthreads'[j] \in Nat
      BY <2>1, <2>2, <2>4, <1>t
    <3>2. arenas' \subseteq Indices
      BY <2>1, <2>2, <1>t
    <3>3. \A j \in arenas' : nthreads'[i] <= nthreads'[j]
      BY <3>1, <3>2
    <3>4. ~(nthreads'[i] > 0)
      BY <3>1
    <3> QED
      BY <3>3, <3>4 DEF LeastOf
  <2>6. i # NoArena
    BY <2>1, <1>o
  <2> SUFFICES ASSUME NEW u \in Threads
               PROVE  ThreadBound(u)'
    BY DEF ThreadsBound
  <2>7. CASE u = t
    <3>1. ret'[t] = i /\ pc'[t] = "loadinc" /\ pc[t] = "scan"
      BY <2>2, <1>t
    <3>2. LeastOf(ret[t])'
      BY <3>1, <2>5
    <3>3. ThreadBound(t) /\ tls'[t] = tls[t] /\ key'[t] = key[t]
      BY <2>2, <1>t DEF ThreadsBound
    <3> QED
      BY <3>1, <3>2, <3>3, <2>2, <2>6, <2>7 DEF ThreadBound
  <2>8. CASE u # t
    <3>1. ret'[u] = ret[u] /\ pc'[u] = pc[u] /\ pc'[u] \notin LockHeld
      BY <2>2, <2>3, <2>8, <1>t
    <3> QED
      BY <3>1, <2>2, <1>t DEF ThreadsBound, ThreadBound, LockHeld
  <2> QED
    BY <2>7, <2>8
<1>13. CASE OutOfResources(t)
  BY <1>13, <1>t DEF ThreadsBound, ThreadBound, LeastOf, Slots, OutOfResources
<1>14. CASE Load(t)
  <2>1. UNCHANGED <<arenas, nthreads, narenas_auto>>
    BY <1>14 DEF Load
  <2>2. \A j \in Indices : LeastOf(j)' = LeastOf(j)
    BY <2>1 DEF LeastOf, Slots
  <2>3. ret[t] \in Indices /\ n'[t] = nthreads[ret[t]]
    BY <1>14, <1>t DEF Load, ThreadsBound, ThreadBound
  <2> QED
    BY <1>14, <1>t, <1>o, <2>1, <2>2, <2>3 DEF Load, ThreadsBound, ThreadBound
<1>15. CASE Store(t)
  <2>1. \A u \in Threads : u # t => pc'[u] \notin LockHeld /\ pc'[u] = pc[u]
    BY <1>15, <1>t, <1>l DEF Store, LockHeld
  <2>2. pc'[t] \in {"unlock", "cleaned"}
    BY <1>15, <1>t DEF Store
  <2>3. UNCHANGED <<tls, key, ret, arenas>>
    BY <1>15 DEF Store
  <2> SUFFICES ASSUME NEW u \in Threads
               PROVE  ThreadBound(u)'
    BY DEF ThreadsBound
  <2>4. ThreadBound(u)
    BY <1>t DEF ThreadsBound
  <2>5. CASE u = t
    <3>1. \/ pc[t] = "storeinc" /\ pc'[t] = "unlock"
          \/ pc[t] = "storedec" /\ pc'[t] = "cleaned"
      BY <1>15, <1>t DEF Store
    <3> QED
      BY <3>1, <2>3, <2>4, <2>5 DEF ThreadBound
  <2>6. CASE u # t
    BY <2>1, <2>3, <2>4, <2>6 DEF ThreadBound, LockHeld
  <2> QED
    BY <2>5, <2>6
<1>16. CASE ArenasUnlock(t)
  BY <1>16, <1>t DEF ThreadsBound, ThreadBound, LeastOf, Slots, ArenasUnlock
<1>17. CASE TsdSet(t)
  BY <1>17, <1>t DEF ThreadsBound, ThreadBound, LeastOf, Slots, TsdSet
<1>18. CASE Return(t)
  BY <1>18, <1>t DEF ThreadsBound, ThreadBound, LeastOf, Slots, Return
<1>19. CASE Cleanup(t)
  BY <1>19, <1>t DEF ThreadsBound, ThreadBound, LeastOf, Slots, Cleanup
<1>20. CASE Exit(t)
  BY <1>20, <1>t DEF ThreadsBound, ThreadBound, LeastOf, Slots, Exit
<1>21. CASE Die(t)
  BY <1>21, <1>t DEF ThreadsBound, ThreadBound, LeastOf, Slots, Die
<1> QED
  BY <1>1, <1>2, <1>3, <1>4, <1>5, <1>6, <1>7, <1>8, <1>9, <1>10, <1>11, <1>12,
     <1>13, <1>14, <1>15, <1>16, <1>17, <1>18, <1>19, <1>20, <1>21
     DEF Step, InCall

\* A step that moves nobody from arena to arena keeps the counts right.
LEMMA CountsStay ==
  ASSUME IInv, nthreads' = nthreads,
         \A u \in Threads : Counted(u)' = Counted(u)
  PROVE  NthreadsExact'
<1>1. \A i : {u \in Threads : Counted(u)' = i} = {u \in Threads : Counted(u) = i}
  OBVIOUS
<1> QED
  BY <1>1 DEF IInv, NthreadsExact

\* An arena nobody is counted in has no threads.
LEMMA NobodyThere ==
  ASSUME IInv, NEW i \in Indices, \A u \in Threads : Counted(u) # i
  PROVE  nthreads[i] = 0
<1>1. {u \in Threads : Counted(u) = i} = {}
  OBVIOUS
<1> QED
  BY <1>1, Counts, FS_EmptySet

\* The increment counts the thread in, and nobody else in or out.
LEMMA CountIn ==
  ASSUME IInv, NEW t \in Threads, NEW i \in Indices,
         nthreads' = [nthreads EXCEPT ![i] = nthreads[i] + 1],
         Counted(t) = NoArena, Counted(t)' = i,
         \A u \in Threads : u # t => Counted(u)' = Counted(u)
  PROVE  NthreadsExact'
<1>o. NoArena \notin Indices /\ nthreads \in [Indices -> Int]
  BY DEF NoArena, Indices, IInv, BindingInv, TypeOK
<1> SUFFICES ASSUME NEW j \in Indices
             PROVE  nthreads'[j] = Cardinality({u \in Threads : Counted(u)' = j})
  BY DEF NthreadsExact
<1> DEFINE S == {u \in Threads : Counted(u) = j}
<1>1. IsFiniteSet(S) /\ nthreads[j] = Cardinality(S) /\ t \notin S
  BY Counts, <1>o
<1>2. CASE j = i
  <2>1. {u \in Threads : Counted(u)' = j} = S \cup {t}
    BY <1>2
  <2>2. Cardinality(S \cup {t}) = Cardinality(S) + 1
    BY <1>1, FS_AddElement
  <2> QED
    BY <1>1, <1>2, <2>1, <2>2, <1>o
<1>3. CASE j # i
  <2>1. {u \in Threads : Counted(u)' = j} = S
    BY <1>3, <1>o
  <2> QED
    BY <1>1, <1>3, <2>1, <1>o
<1> QED
  BY <1>2, <1>3

\* The decrement counts it out.
LEMMA CountOut ==
  ASSUME IInv, NEW t \in Threads, NEW i \in Indices,
         nthreads' = [nthreads EXCEPT ![i] = nthreads[i] - 1],
         Counted(t) = i, Counted(t)' = NoArena,
         \A u \in Threads : u # t => Counted(u)' = Counted(u)
  PROVE  NthreadsExact'
<1>o. NoArena \notin Indices /\ nthreads \in [Indices -> Int]
  BY DEF NoArena, Indices, IInv, BindingInv, TypeOK
<1> SUFFICES ASSUME NEW j \in Indices
             PROVE  nthreads'[j] = Cardinality({u \in Threads : Counted(u)' = j})
  BY DEF NthreadsExact
<1> DEFINE S == {u \in Threads : Counted(u) = j}
<1>1. IsFiniteSet(S) /\ nthreads[j] = Cardinality(S)
  BY Counts
<1>2. CASE j = i
  <2>1. {u \in Threads : Counted(u)' = j} = S \ {t} /\ t \in S
    BY <1>2, <1>o
  <2>2. Cardinality(S \ {t}) = Cardinality(S) - 1
    BY <1>1, <2>1, FS_RemoveElement
  <2> QED
    BY <1>1, <1>2, <2>1, <2>2, <1>o
<1>3. CASE j # i
  <2>1. {u \in Threads : Counted(u)' = j} = S
    BY <1>3, <1>o
  <2> QED
    BY <1>1, <1>3, <2>1, <1>o
<1> QED
  BY <1>2, <1>3

\* Every step keeps the counts right.
LEMMA ExactStep ==
  ASSUME IInv, NEW t \in Threads, Step(t)
  PROVE  NthreadsExact'
<1> USE DEF setup, life, Go, Halt
<1>t. /\ pc \in [Threads -> Places]
      /\ tls \in [Threads -> Indices \cup {NoArena}]
      /\ ret \in [Threads -> Indices \cup {NoArena}]
      /\ key \in [Threads -> Indices \cup {NoArena}]
      /\ nthreads \in [Indices -> Int]
      /\ arenas \subseteq Indices
  BY DEF IInv, BindingInv, TypeOK
<1>b. \A u \in Threads :
        /\ {tls[u], ret[u]} \subseteq arenas \cup {NoArena}
        /\ key[u] \in {NoArena, tls[u]}
        /\ pc[u] \in Choosing => tls[u] = NoArena
        /\ pc[u] \in Cleaning => key[u] = NoArena
        /\ pc[u] \in (Choosing \ {"lock", "scan"}) \cup Cleaning => ret[u] # NoArena
        /\ pc[u] \in {"storeinc", "storedec"} => n[u] = nthreads[ret[u]]
  BY DEF IInv, BindingInv, ThreadsBound, ThreadBound
<1>p. pc[t] = "scan" => narenas_auto = NArenas /\ arenas # {}
  BY DEF IInv, BindingInv, InitializedOnce, Past, Choosing
<1>o. NoArena \notin Indices /\ 0 \in Indices
  BY BindingAssumption DEF NoArena, Indices
<1> USE DEF Choosing, Cleaning
<1>1. CASE Call(t)
  <2>1. nthreads' = nthreads
    BY <1>1 DEF Call
  <2>2. \A u \in Threads : Counted(u)' = Counted(u)
    BY <1>1, <1>t, <1>b DEF Call, Counted
  <2> QED
    BY <2>1, <2>2, CountsStay
<1>2. CASE InitLock(t)
  <2>1. nthreads' = nthreads
    BY <1>2 DEF InitLock
  <2>2. \A u \in Threads : Counted(u)' = Counted(u)
    BY <1>2, <1>t, <1>b DEF InitLock, Counted
  <2> QED
    BY <2>1, <2>2, CountsStay
<1>3. CASE InitArena0(t)
  <2>1. \A u \in Threads : /\ tls[u] = NoArena /\ ret[u] = NoArena
                           /\ pc[u] \notin Past
    BY <1>3 DEF InitArena0, IInv, BindingInv, BootOrder, Made
  <2>2. \A u \in Threads : Counted(u) = NoArena
    BY <2>1, <1>b DEF Counted, Past
  <2>3. nthreads[0] = 0
    BY <2>2, <1>o, NobodyThere
  <2>4. nthreads' = nthreads
    BY <1>3, <1>t, <2>3 DEF InitArena0
  <2>5. \A u \in Threads : Counted(u)' = Counted(u)
    BY <1>3, <1>t DEF InitArena0, Counted
  <2> QED
    BY <2>4, <2>5, CountsStay
<1>4. CASE InitArray(t)
  <2>1. nthreads' = nthreads
    BY <1>4 DEF InitArray
  <2>2. \A u \in Threads : Counted(u)' = Counted(u)
    BY <1>4, <1>t, <1>b DEF InitArray, Counted
  <2> QED
    BY <2>1, <2>2, CountsStay
<1>5. CASE InitTpool(t)
  <2>1. nthreads' = nthreads
    BY <1>5 DEF InitTpool
  <2>2. \A u \in Threads : Counted(u)' = Counted(u)
    BY <1>5, <1>t, <1>b DEF InitTpool, Counted
  <2> QED
    BY <2>1, <2>2, CountsStay
<1>6. CASE InitFlag(t)
  <2>1. nthreads' = nthreads
    BY <1>6 DEF InitFlag
  <2>2. \A u \in Threads : Counted(u)' = Counted(u)
    BY <1>6, <1>t, <1>b DEF InitFlag, Counted
  <2> QED
    BY <2>1, <2>2, CountsStay
<1>7. CASE InitUnlock(t)
  <2>1. nthreads' = nthreads
    BY <1>7 DEF InitUnlock
  <2>2. \A u \in Threads : Counted(u)' = Counted(u)
    BY <1>7, <1>t, <1>b DEF InitUnlock, Counted
  <2> QED
    BY <2>1, <2>2, CountsStay
<1>8. CASE Hit(t)
  <2>1. nthreads' = nthreads
    BY <1>8 DEF Hit
  <2>2. \A u \in Threads : Counted(u)' = Counted(u)
    BY <1>8, <1>t, <1>b DEF Hit, Counted
  <2> QED
    BY <2>1, <2>2, CountsStay
<1>9. CASE Miss(t)
  <2>1. nthreads' = nthreads
    BY <1>9 DEF Miss
  <2>2. \A u \in Threads : Counted(u)' = Counted(u)
    BY <1>9, <1>t, <1>b DEF Miss, Counted
  <2> QED
    BY <2>1, <2>2, CountsStay
<1>10. CASE ArenasLock(t)
  <2>1. nthreads' = nthreads
    BY <1>10 DEF ArenasLock
  <2>2. \A u \in Threads : Counted(u)' = Counted(u)
    BY <1>10, <1>t, <1>b DEF ArenasLock, Counted
  <2> QED
    BY <2>1, <2>2, CountsStay
<1>11. CASE Reuse(t)
  <2>1. nthreads' = nthreads
    BY <1>11 DEF Reuse
  <2>2. \A u \in Threads : Counted(u)' = Counted(u)
    BY <1>11, <1>t, <1>b DEF Reuse, Counted
  <2> QED
    BY <2>1, <2>2, CountsStay
<1>12. CASE Extend(t)
  <2>1. PICK i \in Indices \ arenas : i = Min(Slots \ arenas)
    BY <1>12, <1>p, FirstNullOK DEF Extend
  <2>2. \A u \in Threads : Counted(u) \in arenas \cup {NoArena}
    BY <1>b DEF Counted
  <2>3. nthreads[i] = 0
    BY <2>1, <2>2, <1>o, NobodyThere
  <2>4. nthreads' = nthreads
    BY <1>12, <1>t, <2>1, <2>3 DEF Extend
  <2>5. \A u \in Threads : Counted(u)' = Counted(u)
    BY <1>12, <1>t DEF Extend, Counted
  <2> QED
    BY <2>4, <2>5, CountsStay
<1>13. CASE OutOfResources(t)
  <2>1. nthreads' = nthreads
    BY <1>13 DEF OutOfResources
  <2>2. \A u \in Threads : Counted(u)' = Counted(u)
    BY <1>13, <1>t, <1>b DEF OutOfResources, Counted
  <2> QED
    BY <2>1, <2>2, CountsStay
<1>14. CASE Load(t)
  <2>1. nthreads' = nthreads
    BY <1>14 DEF Load
  <2>2. \A u \in Threads : Counted(u)' = Counted(u)
    BY <1>14, <1>t, <1>b DEF Load, Counted
  <2> QED
    BY <2>1, <2>2, CountsStay
<1>15. CASE Store(t)
  <2>1. PICK i \in Indices : i = ret[t] /\ n[t] = nthreads[i]
    BY <1>15, <1>t, <1>b DEF Store
  <2>2. \A u \in Threads : u # t => Counted(u)' = Counted(u)
    BY <1>15, <1>t DEF Store, Counted
  <2>3. CASE Go(t, "storeinc", "unlock")
    <3>1. nthreads' = [nthreads EXCEPT ![i] = nthreads[i] + 1]
      BY <1>15, <2>1, <2>3 DEF Store
    <3>2. Counted(t) = NoArena /\ Counted(t)' = i
      BY <1>15, <1>t, <1>b, <2>1, <2>3 DEF Store, Counted
    <3> QED
      BY <2>2, <3>1, <3>2, CountIn
  <2>4. CASE Go(t, "storedec", "cleaned")
    <3>1. nthreads' = [nthreads EXCEPT ![i] = nthreads[i] - 1]
      BY <1>15, <2>1, <2>4 DEF Store
    <3>2. Counted(t) = i /\ Counted(t)' = NoArena
      BY <1>15, <1>t, <1>b, <2>1, <2>4 DEF Store, Counted
    <3> QED
      BY <2>2, <3>1, <3>2, CountOut
  <2> QED
    BY <1>15, <2>3, <2>4 DEF Store
<1>16. CASE ArenasUnlock(t)
  <2>1. nthreads' = nthreads
    BY <1>16 DEF ArenasUnlock
  <2>2. \A u \in Threads : Counted(u)' = Counted(u)
    BY <1>16, <1>t, <1>b DEF ArenasUnlock, Counted
  <2> QED
    BY <2>1, <2>2, CountsStay
<1>17. CASE TsdSet(t)
  <2>1. nthreads' = nthreads
    BY <1>17 DEF TsdSet
  <2>2. \A u \in Threads : Counted(u)' = Counted(u)
    BY <1>17, <1>t, <1>b DEF TsdSet, Counted
  <2> QED
    BY <2>1, <2>2, CountsStay
<1>18. CASE Return(t)
  <2>1. nthreads' = nthreads
    BY <1>18 DEF Return
  <2>2. \A u \in Threads : Counted(u)' = Counted(u)
    BY <1>18, <1>t, <1>b DEF Return, Counted
  <2> QED
    BY <2>1, <2>2, CountsStay
<1>19. CASE Cleanup(t)
  <2>1. nthreads' = nthreads
    BY <1>19 DEF Cleanup
  <2>2. \A u \in Threads : Counted(u)' = Counted(u)
    BY <1>19, <1>t, <1>b DEF Cleanup, Counted
  <2> QED
    BY <2>1, <2>2, CountsStay
<1>20. CASE Exit(t)
  <2>1. nthreads' = nthreads
    BY <1>20 DEF Exit
  <2>2. \A u \in Threads : Counted(u)' = Counted(u)
    BY <1>20, <1>t, <1>b DEF Exit, Counted
  <2> QED
    BY <2>1, <2>2, CountsStay
<1>21. CASE Die(t)
  <2>1. nthreads' = nthreads
    BY <1>21 DEF Die
  <2>2. \A u \in Threads : Counted(u)' = Counted(u)
    BY <1>21, <1>t, <1>b DEF Die, Counted
  <2> QED
    BY <2>1, <2>2, CountsStay
<1> QED
  BY <1>1, <1>2, <1>3, <1>4, <1>5, <1>6, <1>7, <1>8, <1>9, <1>10, <1>11, <1>12,
     <1>13, <1>14, <1>15, <1>16, <1>17, <1>18, <1>19, <1>20, <1>21
     DEF Step, InCall

\* An arena whose count grows is one with the fewest threads.
LEMMA LeastStep ==
  ASSUME IInv, NEW t \in Threads, Step(t)
  PROVE  \A i \in arenas : nthreads'[i] > nthreads[i] => LeastOf(i)
<1> SUFFICES ASSUME NEW i \in arenas, nthreads'[i] > nthreads[i]
             PROVE  LeastOf(i)
  OBVIOUS
<1>t. /\ nthreads \in [Indices -> Int] /\ arenas \subseteq Indices
      /\ ThreadBound(t)
      /\ ret[t] \in Indices \cup {NoArena}
      /\ pc[t] = "scan" => narenas_auto = NArenas /\ arenas # {}
  BY DEF IInv, BindingInv, TypeOK, ThreadsBound, InitializedOnce, Past, Choosing
<1>n. nthreads[i] \in Nat
  BY <1>t, Counts
<1>1. InitArena0(t) \/ Extend(t) \/ Store(t)
  <2>1. nthreads' # nthreads
    BY <1>n
  <2> QED
    BY <2>1 DEF Step, InCall, Call, InitLock, InitArray, InitTpool, InitFlag,
       InitUnlock, Hit, Miss, ArenasLock, Reuse, OutOfResources, Halt, Load,
       ArenasUnlock, TsdSet, Return, Cleanup, Exit, Die
<1>2. CASE InitArena0(t)
  <2>1. nthreads'[i] = 0 \/ nthreads'[i] = nthreads[i]
    BY <1>2, <1>t DEF InitArena0
  <2> QED
    BY <2>1, <1>n
<1>3. CASE Extend(t)
  <2>1. nthreads'[i] = 0 \/ nthreads'[i] = nthreads[i]
    BY <1>3, <1>t DEF Extend
  <2> QED
    BY <2>1, <1>n
<1>4. CASE Store(t)
  <2>1. CASE Go(t, "storeinc", "unlock")
    <3>1. nthreads' = [nthreads EXCEPT ![ret[t]] = n[t] + 1]
      BY <1>4, <2>1 DEF Store, Go
    <3>2. i = ret[t]
      BY <3>1, <1>t, <1>n
    <3> QED
      BY <3>2, <2>1, <1>t DEF ThreadBound, Go
  <2>2. CASE Go(t, "storedec", "cleaned")
    <3>1. nthreads' = [nthreads EXCEPT ![ret[t]] = n[t] - 1]
      BY <1>4, <2>2 DEF Store, Go
    <3>2. n[t] = nthreads[ret[t]]
      BY <2>2, <1>t DEF ThreadBound, Go
    <3>3. nthreads'[i] = nthreads[i] - 1 \/ nthreads'[i] = nthreads[i]
      BY <3>1, <3>2, <1>t
    <3> QED
      BY <3>3, <1>n
  <2> QED
    BY <1>4, <2>1, <2>2 DEF Store
<1> QED
  BY <1>1, <1>2, <1>3, <1>4

-----------------------------------------------------------------------------
LEMMA InitIInv == Init => IInv
<1> SUFFICES ASSUME Init PROVE IInv
  OBVIOUS
<1> USE DEF Init, Choosing, Cleaning
<1>1. TypeOK
  <2>1. late \in [Threads -> 0 .. MaxLate]
    BY BindingAssumption
  <2>2. /\ tls \in [Threads -> Indices \cup {NoArena}]
        /\ key \in [Threads -> Indices \cup {NoArena}]
        /\ ret \in [Threads -> Indices \cup {NoArena}]
    OBVIOUS
  <2>3. pc \in [Threads -> Places]
    BY DEF Places
  <2>4. nthreads \in [Indices -> Int] /\ n \in [Threads -> Int]
    OBVIOUS
  <2>5. exiting \in [Threads -> BOOLEAN]
    OBVIOUS
  <2> QED
    BY <2>1, <2>2, <2>3, <2>4, <2>5 DEF TypeOK
<1>2. InitializedOnce /\ LocksExclude /\ BootOrder
  BY DEF InitializedOnce, LocksExclude, BootOrder, Past, Made, Initialising,
         LockHeld
<1>3. ThreadsBound
  BY DEF ThreadsBound, ThreadBound
<1>4. NthreadsExact
  <2>1. ASSUME NEW i \in Indices PROVE {t \in Threads : Counted(t) = i} = {}
    BY DEF Counted, NoArena, Indices
  <2> QED
    BY <2>1, FS_EmptySet DEF NthreadsExact
<1> QED
  BY <1>1, <1>2, <1>3, <1>4 DEF IInv, BindingInv

LEMMA StepIInv == IInv /\ [Next]_vars => IInv'
<1> SUFFICES ASSUME IInv, [Next]_vars PROVE IInv'
  OBVIOUS
<1>1. CASE UNCHANGED vars
  <2> USE <1>1 DEF vars, setup, life
  <2>1. TypeOK' = TypeOK /\ InitializedOnce' = InitializedOnce
    BY DEF TypeOK, InitializedOnce
  <2>2. LocksExclude' = LocksExclude /\ BootOrder' = BootOrder
    BY DEF LocksExclude, BootOrder
  <2>3. ThreadsBound' = ThreadsBound
    BY DEF ThreadsBound, ThreadBound, LeastOf, Slots
  <2>4. NthreadsExact' = NthreadsExact
    BY DEF NthreadsExact, Counted
  <2> QED
    BY <2>1, <2>2, <2>3, <2>4 DEF IInv, BindingInv
<1>2. ASSUME NEW t \in Threads, Step(t) PROVE IInv'
  <2>1. TypeOK' /\ LocksExclude' /\ BootOrder' /\ ThreadsBound' /\ NthreadsExact'
    BY <1>2, TypeStep, LocksStep, BootStep, BoundStep, ExactStep
  <2>2. InitializedOnce'
    BY <2>1 DEF BootOrder, InitializedOnce, Made, Past, TypeOK
  <2> QED
    BY <2>1, <2>2 DEF IInv, BindingInv
<1> QED
  BY <1>1, <1>2 DEF Next, Step, Finished

\* The initialisation runs once and is complete for whoever gets past it, and
\* the locks exclude, in every behaviour (lsmalloc.c, malloc_init_hard).
THEOREM BindingCorrect == Spec => []BindingInv
<1>1. IInv => BindingInv
  BY DEF IInv
<1> QED
  BY <1>1, InitIInv, StepIInv, PTL DEF Spec

\* No update of nthreads is lost: the count of an arena is the number of the
\* threads bound to it, whoever comes and goes (choose_arena_hard and
\* arenas_cleanup of lsmalloc.c).
THEOREM NthreadsCorrect == Spec => []NthreadsExact
<1>1. IInv => NthreadsExact
  BY DEF IInv
<1> QED
  BY <1>1, InitIInv, StepIInv, PTL DEF Spec

\* A thread is counted in where there are fewest (choose_arena_hard).
THEOREM LeastLoadedCorrect == Spec => LeastLoaded
<1> DEFINE Fair == \A i \in arenas : nthreads'[i] > nthreads[i] => LeastOf(i)
<1>1. IInv /\ [Next]_vars => [Fair]_vars
  <2> SUFFICES ASSUME IInv, Next, vars' # vars PROVE Fair
    OBVIOUS
  <2>1. PICK t \in Threads : Step(t)
    BY DEF Next, Step, Finished
  <2> QED
    BY <2>1, LeastStep
<1> QED
  BY <1>1, InitIInv, StepIInv, PTL DEF Spec, LeastLoaded
=============================================================================
