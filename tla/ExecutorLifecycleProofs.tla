----------------------- MODULE ExecutorLifecycleProofs -----------------------
(* Theorems about ExecutorLifecycle, for any processes and threads.          *)
EXTENDS ExecutorLifecycle, TLAPS

\* A thread that runs ordinary code: its process has been reset if it is a child.
Running(t) == pc[t] \notin {"unborn", "reset"}

\* The locked section is its holder's alone.
LockHeld ==
    \A t \in Threads : pc[t] \in {"recheck", "create", "release"} => lock[Home[t]] = t

\* The hook runs before the child has a second thread.
ResetAlone ==
    \A t, u \in Threads : pc[t] = "reset" /\ Home[u] = Home[t] /\ u # t => pc[u] = "unborn"

\* A pool that was created is what its process has, for ever after.
PoolsKept ==
    \A t \in pools : Running(t) /\ executor[Home[t]] = t

\* What a running process has is its own.
ExecutorLocal ==
    \A t \in Threads : Running(t) /\ executor[Home[t]] # None =>
        executor[Home[t]] \in pools /\ Home[executor[Home[t]]] = Home[t]

\* Whoever is about to create a pool still finds none.
CreatorFindsNone ==
    \A t \in Threads : pc[t] = "create" => executor[Home[t]] = None

UnbornGotNone == \A t \in Threads : pc[t] = "unborn" => got[t] = None

LifeInv ==
    /\ TypeOK
    /\ LockHeld
    /\ ResetAlone
    /\ PoolsKept
    /\ ExecutorLocal
    /\ CreatorFindsNone
    /\ UnbornGotNone
    /\ PoolIsLocal
    /\ LocksAreNotOrphaned

\* The invariant holds at the start: no thread is inside, and there is no pool.
LEMMA InitEstablishes == Init => LifeInv
BY LifecycleAssumption
   DEF Init, LifeInv, TypeOK, LockHeld, ResetAlone, PoolsKept, ExecutorLocal, CreatorFindsNone,
       UnbornGotNone, PoolIsLocal, LocksAreNotOrphaned, Running, None, Steps, Inside

\* Every step of a thread inside _get_executor(), or of the hook, keeps it.
LEMMA StatementPreserves ==
    ASSUME LifeInv, NEW t \in Threads, Look(t) \/ Statement(t)
    PROVE  LifeInv'
<1> USE LifecycleAssumption
    DEF LifeInv, TypeOK, LockHeld, ResetAlone, PoolsKept, ExecutorLocal, CreatorFindsNone,
        UnbornGotNone, PoolIsLocal, LocksAreNotOrphaned, Running, None, Steps, Inside, At
<1>1. CASE Look(t)
  BY <1>1 DEF Look
<1>2. CASE Acquire(t)
  BY <1>2 DEF Acquire
<1>3. CASE Recheck(t)
  BY <1>3 DEF Recheck
<1>4. CASE Create(t)
  BY <1>4 DEF Create
<1>5. CASE Release(t)
  BY <1>5 DEF Release
<1>6. CASE Return(t)
  BY <1>6 DEF Return
<1>7. CASE Reset(t)
  BY <1>7 DEF Reset
<1> QED BY <1>1, <1>2, <1>3, <1>4, <1>5, <1>6, <1>7 DEF Statement

\* So do new threads and new processes.
LEMMA BirthPreserves ==
    ASSUME LifeInv, NEW t \in Threads, NEW u \in Threads, Spawn(t, u) \/ Fork(t, u)
    PROVE  LifeInv'
<1> USE LifecycleAssumption
    DEF LifeInv, TypeOK, LockHeld, ResetAlone, PoolsKept, ExecutorLocal, CreatorFindsNone,
        UnbornGotNone, PoolIsLocal, LocksAreNotOrphaned, Running, None, Steps, Inside, At
<1>1. CASE Spawn(t, u)
  BY <1>1 DEF Spawn
<1>2. CASE Fork(t, u)
  BY <1>2 DEF Fork, Alive
<1> QED BY <1>1, <1>2

\* LifeInv is an invariant of the specification.
THEOREM LifecycleInvariant == Spec => []LifeInv
<1>1. LifeInv /\ [Next]_vars => LifeInv'
  <2> SUFFICES ASSUME LifeInv, [Next]_vars PROVE LifeInv'
    OBVIOUS
  <2>1. CASE Next
    BY <2>1, StatementPreserves, BirthPreserves DEF Next
  <2>2. CASE UNCHANGED vars
    BY <2>2 DEF vars, LifeInv, TypeOK, LockHeld, ResetAlone, PoolsKept, ExecutorLocal,
                CreatorFindsNone, UnbornGotNone, PoolIsLocal, LocksAreNotOrphaned, Running
  <2> QED BY <2>1, <2>2
<1> QED BY <1>1, InitEstablishes, PTL DEF Spec

\* The variables stay in their types; in particular nobody sees a pool that
\* has not been constructed (_offload.py:57-66).
THEOREM LifecycleTypeCorrect == Spec => []TypeOK
BY LifecycleInvariant, PTL DEF LifeInv

\* Double-checked locking creates one pool per process, for any number of
\* threads and forks (_offload.py:57-66, 119-135).
THEOREM OnePool == Spec => []OnePoolPerProcess
<1>1. LifeInv => OnePoolPerProcess
  BY DEF LifeInv, PoolsKept, OnePoolPerProcess
<1> QED BY <1>1, LifecycleInvariant, PTL

\* Nobody is handed another process's pool (_offload.py:119-144).
THEOREM LocalPool == Spec => []PoolIsLocal
BY LifecycleInvariant, PTL DEF LifeInv

\* Whatever forks, and wherever the other threads are when it does, a lock that
\* is held in a running process has a holder there that will release it
\* (_offload.py:57-66, 134).
THEOREM LocksHaveTheirHolder == Spec => []LocksAreNotOrphaned
BY LifecycleInvariant, PTL DEF LifeInv
==============================================================================
