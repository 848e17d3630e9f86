----------------------------- MODULE ArenaBinding -----------------------------
(***************************************************************************)
(* How a thread gets its arena (src/src/lsmalloc.c): lsmalloc's unlocked   *)
(* test of malloc_initialized, malloc_init_hard under init_lock, the       *)
(* choice of the least loaded arena under arenas_lock, the store of the    *)
(* choice into the thread's TLS after the lock is released, and            *)
(* arenas_cleanup, the destructor of the arenas key, when a thread ends.   *)
(*                                                                         *)
(* An arena is its index in arenas[]; the allocation itself, which follows *)
(* once the arena is known, is the one state "using" (see SlabArena).      *)
(* Stores of one thread become visible in program order, as on the x86     *)
(* machines with pmem the library is written for.                          *)
(***************************************************************************)
EXTENDS Integers, FiniteSets, FiniteSetsExt

CONSTANTS
  Threads,
  NoThread,         \* the owner of a free mutex
  NArenas,          \* opt_narenas
  PoolThreads,      \* THREAD, the worker threads asked for
  MaxPoolThreads,   \* MAX_THREADS the thread pool library was built with
  MaxLate           \* bound: calls of lsmalloc from a thread's TSD destructors

ASSUME BindingAssumption ==
  /\ NoThread \notin Threads /\ IsFiniteSet(Threads)
  /\ NArenas \in Nat \ {0} /\ PoolThreads \in Nat /\ MaxPoolThreads \in Nat
  /\ MaxLate \in Nat

NoArena == -1
Indices == 0 .. NArenas - 1

VARIABLES
  init_lock, arenas_lock,
  malloc_initialized,
  booted,           \* arenas_booted: the TSD key exists
  narenas_auto,
  arenas,           \* the indices i with arenas[i] # NULL
  nthreads,         \* nthreads of each arena
  inits,            \* history: how often the initialisation has been started
  tls,              \* arenas_tls of each thread
  key,              \* its value of the pthread key, which makes cleanup run
  pc, ret, n,       \* each thread's place, chosen arena and nthreads it read
  exiting, late,    \* it has returned from its start routine; its late calls
  halted            \* "no", or how the process ended

setup == <<init_lock, malloc_initialized, booted, narenas_auto, inits>>
life == <<exiting, late>>
vars == <<setup, arenas_lock, arenas, nthreads, tls, key, pc, ret, n, life, halted>>

Init ==
  /\ init_lock = NoThread /\ arenas_lock = NoThread
  /\ malloc_initialized = FALSE /\ booted = FALSE
  /\ narenas_auto = 0 /\ arenas = {} /\ inits = 0
  /\ nthreads = [i \in Indices |-> 0]
  /\ tls = [t \in Threads |-> NoArena]
  /\ key = [t \in Threads |-> NoArena]
  /\ pc = [t \in Threads |-> "idle"]
  /\ ret = [t \in Threads |-> NoArena]
  /\ n = [t \in Threads |-> 0]
  /\ exiting = [t \in Threads |-> FALSE]
  /\ late = [t \in Threads |-> 0]
  /\ halted = "no"

Go(t, from, to) == /\ halted = "no"
                   /\ pc[t] = from
                   /\ pc' = [pc EXCEPT ![t] = to]

Halt(t, at, how) == /\ halted = "no"
                    /\ pc[t] = at
                    /\ halted' = how
                    /\ UNCHANGED <<setup, arenas_lock, arenas, nthreads, tls,
                                   key, pc, ret, n, life>>

-----------------------------------------------------------------------------
\* lsmalloc is called and looks at malloc_initialized without a lock.
Call(t) ==
  /\ Go(t, "idle", IF malloc_initialized THEN "choose" ELSE "init")
  /\ exiting[t] => late[t] < MaxLate
  /\ late' = [late EXCEPT ![t] = @ + IF exiting[t] THEN 1 ELSE 0]
  /\ UNCHANGED <<setup, arenas_lock, arenas, nthreads, tls, key, ret, n, exiting,
                 halted>>

\* Mutant: malloc_initialized is not read again.
InitLockUnchecked(t) ==
  /\ Go(t, "init", "arena0")
  /\ init_lock = NoThread
  /\ init_lock' = t
  /\ UNCHANGED <<malloc_initialized, booted, narenas_auto, inits, arenas_lock,
                 arenas, nthreads, tls, key, ret, n, life, halted>>

\* malloc_init_hard: init_lock is taken and malloc_initialized read again.
InitLock(t) ==
  /\ Go(t, "init", IF malloc_initialized THEN "initunlock" ELSE "arena0")
  /\ init_lock = NoThread
  /\ init_lock' = t
  /\ UNCHANGED <<malloc_initialized, booted, narenas_auto, inits, arenas_lock,
                 arenas, nthreads, tls, key, ret, n, life, halted>>

\* The subsystems boot, an array of one arena is made with arena 0 in it,
\* and the TSD key is created.
InitArena0(t) ==
  /\ Go(t, "arena0", "array")
  /\ arenas_lock' = NoThread
  /\ narenas_auto' = 1
  /\ arenas' = {0}
  /\ nthreads' = [nthreads EXCEPT ![0] = 0]
  /\ booted' = TRUE
  /\ inits' = inits + 1
  /\ UNCHANGED <<init_lock, malloc_initialized, tls, key, ret, n, life, halted>>

\* The array of opt_narenas pointers replaces it; arena 0 is carried over.
InitArray(t) ==
  /\ Go(t, "array", "tpool")
  /\ narenas_auto' = NArenas
  /\ arenas' = {0}
  /\ UNCHANGED <<init_lock, malloc_initialized, booted, inits, arenas_lock,
                 nthreads, tls, key, ret, n, life, halted>>

\* threadpool_create returns NULL when asked for more threads than it was
\* built for, and the assert around the call aborts.
InitTpool(t) ==
  /\ Go(t, "tpool", "flag")
  /\ halted' = IF PoolThreads > MaxPoolThreads THEN "abort" ELSE halted
  /\ UNCHANGED <<setup, arenas_lock, arenas, nthreads, tls, key, ret, n, life>>

InitFlag(t) ==
  /\ Go(t, "flag", "initunlock")
  /\ malloc_initialized' = TRUE
  /\ UNCHANGED <<init_lock, booted, narenas_auto, inits, arenas_lock, arenas,
                 nthreads, tls, key, ret, n, life, halted>>

InitUnlock(t) ==
  /\ Go(t, "initunlock", "choose")
  /\ init_lock' = NoThread
  /\ UNCHANGED <<malloc_initialized, booted, narenas_auto, inits, arenas_lock,
                 arenas, nthreads, tls, key, ret, n, life, halted>>

-----------------------------------------------------------------------------
\* choose_arena: the thread's TLS names its arena, or it is chosen now.
Hit(t) ==
  /\ Go(t, "choose", "using")
  /\ tls[t] # NoArena
  /\ ret' = [ret EXCEPT ![t] = tls[t]]
  /\ UNCHANGED <<setup, arenas_lock, arenas, nthreads, tls, key, n, life, halted>>

Miss(t) ==
  /\ Go(t, "choose", "lock")
  /\ tls[t] = NoArena
  /\ UNCHANGED <<setup, arenas_lock, arenas, nthreads, tls, key, ret, n, life,
                 halted>>

\* Mutant: arenas_cleanup does not wait for the lock.
CleanupUnlocked(t) ==
  /\ \/ Go(t, "lock", "scan") /\ arenas_lock = NoThread
     \/ Go(t, "cleanup", "loaddec")
  /\ arenas_lock' = t
  /\ UNCHANGED <<setup, arenas, nthreads, tls, key, ret, n, life, halted>>

\* choose_arena_hard and arenas_cleanup take arenas_lock.
ArenasLock(t) ==
  /\ Go(t, "lock", "scan") \/ Go(t, "cleanup", "loaddec")
  /\ arenas_lock = NoThread
  /\ arenas_lock' = t
  /\ UNCHANGED <<setup, arenas, nthreads, tls, key, ret, n, life, halted>>

Slots == 0 .. narenas_auto - 1

\* Mutant: nthreads is not compared.
ChooseFirst == Min(arenas)

\* The first arena that has the lowest number of threads.
Choose ==
  LET least == Min({nthreads[i] : i \in arenas})
  IN  Min({i \in arenas : nthreads[i] = least})

\* arenas[choose]->nthreads == 0 || first_null == narenas_auto
ReuseOK == nthreads[Choose] = 0 \/ Slots \subseteq arenas

Reuse(t) ==
  /\ Go(t, "scan", "loadinc")
  /\ ReuseOK
  /\ ret' = [ret EXCEPT ![t] = Choose]
  /\ UNCHANGED <<setup, arenas_lock, arenas, nthreads, tls, key, n, life, halted>>

\* arenas_extend(first_null), with the lock held.
Extend(t) ==
  LET first_null == Min(Slots \ arenas)
  IN  /\ Go(t, "scan", "loadinc")
      /\ ~ReuseOK
      /\ arenas' = arenas \cup {first_null}
      /\ nthreads' = [nthreads EXCEPT ![first_null] = 0]
      /\ ret' = [ret EXCEPT ![t] = first_null]
      /\ UNCHANGED <<setup, arenas_lock, tls, key, n, life, halted>>

\* Making an arena maps a pool file and allocates its DRAM objects, making
\* the thread pool starts threads; what cannot be had ends the process.
OutOfResources(t) ==
  \/ Halt(t, "arena0", "resources")
  \/ Halt(t, "tpool", "resources")
  \/ Halt(t, "scan", "resources") /\ ~ReuseOK

\* nthreads++ or nthreads--, a load and a store.
Load(t) ==
  /\ Go(t, "loadinc", "storeinc") \/ Go(t, "loaddec", "storedec")
  /\ n' = [n EXCEPT ![t] = nthreads[ret[t]]]
  /\ UNCHANGED <<setup, arenas_lock, arenas, nthreads, tls, key, ret, life, halted>>

Store(t) ==
  /\ \/ /\ Go(t, "storeinc", "unlock")
        /\ nthreads' = [nthreads EXCEPT ![ret[t]] = n[t] + 1]
     \/ /\ Go(t, "storedec", "cleaned")
        /\ nthreads' = [nthreads EXCEPT ![ret[t]] = n[t] - 1]
  /\ n' = [n EXCEPT ![t] = 0]
  /\ UNCHANGED <<setup, arenas_lock, arenas, tls, key, ret, life, halted>>

\* Mutant: arenas_cleanup returns with the lock held.
CleanupKeepsLock(t) ==
  /\ \/ Go(t, "unlock", "tsdset") /\ arenas_lock' = NoThread /\ UNCHANGED ret
     \/ /\ Go(t, "cleaned", "idle")
        /\ ret' = [ret EXCEPT ![t] = NoArena]
        /\ UNCHANGED arenas_lock
  /\ UNCHANGED <<setup, arenas, nthreads, tls, key, n, life, halted>>

ArenasUnlock(t) ==
  /\ \/ Go(t, "unlock", "tsdset") /\ UNCHANGED ret
     \/ Go(t, "cleaned", "idle") /\ ret' = [ret EXCEPT ![t] = NoArena]
  /\ arenas_lock' = NoThread
  /\ UNCHANGED <<setup, arenas, nthreads, tls, key, n, life, halted>>

\* arenas_tsd_set, after the lock is released.
TsdSet(t) ==
  /\ Go(t, "tsdset", "using")
  /\ tls' = [tls EXCEPT ![t] = ret[t]]
  /\ key' = [key EXCEPT ![t] = ret[t]]
  /\ UNCHANGED <<setup, arenas_lock, arenas, nthreads, ret, n, life, halted>>

\* The allocation in the arena ends, and the call with it.
Return(t) ==
  /\ Go(t, "using", "idle")
  /\ ret' = [ret EXCEPT ![t] = NoArena]
  /\ UNCHANGED <<setup, arenas_lock, arenas, nthreads, tls, key, n, life, halted>>

-----------------------------------------------------------------------------
\* The thread returns from its start routine; its TSD destructors run next.
Exit(t) ==
  /\ Go(t, "idle", "idle")
  /\ ~exiting[t]
  /\ exiting' = [exiting EXCEPT ![t] = TRUE]
  /\ UNCHANGED <<setup, arenas_lock, arenas, nthreads, tls, key, ret, n, late,
                 halted>>

\* The C library clears the key's value and calls arenas_cleanup, which
\* reads the arena from the TLS.
Cleanup(t) ==
  /\ Go(t, "idle", "cleanup")
  /\ exiting[t]
  /\ key[t] # NoArena
  /\ key' = [key EXCEPT ![t] = NoArena]
  /\ ret' = [ret EXCEPT ![t] = tls[t]]
  /\ UNCHANGED <<setup, arenas_lock, arenas, nthreads, tls, n, life, halted>>

\* No key has a value left: the thread is gone.
Die(t) ==
  /\ Go(t, "idle", "dead")
  /\ exiting[t]
  /\ key[t] = NoArena
  /\ UNCHANGED <<setup, arenas_lock, arenas, nthreads, tls, key, ret, n, life,
                 halted>>

Finished == /\ halted # "no" \/ \A t \in Threads : pc[t] = "dead"
            /\ UNCHANGED vars

InCall(t) == \/ InitLock(t) \/ InitArena0(t) \/ InitArray(t) \/ InitTpool(t)
             \/ InitFlag(t) \/ InitUnlock(t)
             \/ Hit(t) \/ Miss(t)
             \/ ArenasLock(t)
             \/ Reuse(t) \/ Extend(t) \/ OutOfResources(t)
             \/ Load(t) \/ Store(t) \/ ArenasUnlock(t)
             \/ TsdSet(t) \/ Return(t)
             \/ Cleanup(t)

Next == \/ \E t \in Threads : Call(t) \/ InCall(t) \/ Exit(t) \/ Die(t)
        \/ Finished

\* A thread inside a call, or with a destructor to run, is scheduled; a
\* mutex is granted in any order.
Spec == Init /\ [][Next]_vars /\ \A t \in Threads : WF_vars(InCall(t))

-----------------------------------------------------------------------------
Choosing == {"lock", "scan", "loadinc", "storeinc", "unlock", "tsdset"}
Cleaning == {"cleanup", "loaddec", "storedec", "cleaned"}
Initialising == {"arena0", "array", "tpool", "flag", "initunlock"}
LockHeld == {"scan", "loadinc", "storeinc", "unlock",
             "loaddec", "storedec", "cleaned"}
Places == Choosing \cup Cleaning \cup Initialising
            \cup {"idle", "init", "choose", "using", "dead"}

TypeOK ==
  /\ init_lock \in Threads \cup {NoThread}
  /\ arenas_lock \in Threads \cup {NoThread}
  /\ malloc_initialized \in BOOLEAN /\ booted \in BOOLEAN
  /\ narenas_auto \in {0, 1, NArenas} /\ arenas \subseteq Indices
  /\ nthreads \in [Indices -> Int] /\ inits \in Nat
  /\ tls \in [Threads -> Indices \cup {NoArena}]
  /\ key \in [Threads -> Indices \cup {NoArena}]
  /\ pc \in [Threads -> Places]
  /\ ret \in [Threads -> Indices \cup {NoArena}]
  /\ n \in [Threads -> Int]
  /\ exiting \in [Threads -> BOOLEAN] /\ late \in [Threads -> 0 .. MaxLate]
  /\ halted \in {"no", "resources", "abort"}

\* A thread past the initialisation, and one that makes the objects.
Past == {"choose", "using"} \cup Choosing \cup Cleaning
Made == {"array", "tpool", "flag"}

(***************************************************************************)
(* The double-checked initialisation works: it runs once, and a thread     *)
(* that has gone past it, by the unlocked test or by init_lock, finds the  *)
(* TSD key, the whole array and arena 0.                                   *)
(***************************************************************************)
InitializedOnce ==
  /\ inits <= 1
  /\ \A t \in Threads :
       pc[t] \in Past => booted /\ narenas_auto = NArenas /\ 0 \in arenas

\* Each mutex is held by the one thread inside its section.
LocksExclude ==
  \A t \in Threads : /\ pc[t] \in Initialising => init_lock = t
                     /\ pc[t] \in LockHeld => arenas_lock = t

\* What the thread that initialises has made at each point, and that no
\* other thread is past the initialisation, or has an arena, before the flag.
BootOrder ==
  /\ malloc_initialized =>
       inits = 1 /\ booted /\ narenas_auto = NArenas /\ 0 \in arenas
  /\ inits # 0 => malloc_initialized \/ \E t \in Threads : pc[t] \in Made
  /\ \A t \in Threads :
       /\ pc[t] \in Past \cup {"initunlock"} => malloc_initialized
       /\ {tls[t], ret[t]} # {NoArena} => malloc_initialized
       /\ pc[t] = "arena0" => inits = 0
       /\ pc[t] \in {"arena0"} \cup Made => ~malloc_initialized
       /\ pc[t] \in Made => inits = 1 /\ booted /\ 0 \in arenas
       /\ pc[t] \in {"tpool", "flag"} => narenas_auto = NArenas

\* No arena has fewer threads, and the arena is new unless all are in use.
LeastOf(i) == /\ \A j \in arenas : nthreads[i] <= nthreads[j]
              /\ nthreads[i] > 0 => Slots \subseteq arenas

\* A thread's arenas are initialised ones; it chooses only while it has none
\* and is destroyed only with its key cleared; and while it holds the lock,
\* what it has chosen and read stays as it was.
ThreadBound(t) ==
  /\ {tls[t], ret[t]} \subseteq arenas \cup {NoArena}
  /\ key[t] \in {NoArena, tls[t]}
  /\ pc[t] \in Choosing => tls[t] = NoArena
  /\ pc[t] \in Cleaning => key[t] = NoArena
  /\ pc[t] \in (Choosing \ {"lock", "scan"}) \cup Cleaning => ret[t] # NoArena
  /\ pc[t] \in {"storeinc", "storedec"} => n[t] = nthreads[ret[t]]
  /\ pc[t] \in {"loadinc", "storeinc"} => LeastOf(ret[t])

ThreadsBound == \A t \in Threads : ThreadBound(t)

\* InitializedOnce, and what it and NthreadsExact rest on: with NthreadsExact
\* this is inductive.
BindingInv == TypeOK /\ InitializedOnce /\ LocksExclude /\ BootOrder /\ ThreadsBound

(***************************************************************************)
(* nthreads is exact: it counts the threads whose key has a value, those   *)
(* between the increment and arenas_tsd_set, and those between the start   *)
(* of the destructor and its decrement; no update is lost.                 *)
(***************************************************************************)
Counted(t) == IF pc[t] \in {"unlock", "tsdset", "cleanup", "loaddec", "storedec"}
              THEN ret[t] ELSE key[t]

NthreadsExact ==
  \A i \in Indices : nthreads[i] = Cardinality({t \in Threads : Counted(t) = i})

(***************************************************************************)
(* A thread is counted in where there are fewest: no initialised arena has *)
(* fewer threads at the moment of the increment, and an arena is shared    *)
(* only when the whole array is initialised.                               *)
(***************************************************************************)
LeastLoaded ==
  [][\A i \in arenas : nthreads'[i] > nthreads[i] => LeastOf(i)]_vars

(***************************************************************************)
(* A call of lsmalloc and a destructor end, unless the process does:       *)
(* neither lock is kept, and each thread takes each lock a bounded number  *)
(* of times, so that no thread waits for ever.                             *)
(***************************************************************************)
CallsEnd == \A t \in Threads :
  pc[t] \notin {"idle", "dead"} ~> pc[t] = "idle" \/ halted # "no"
=============================================================================
