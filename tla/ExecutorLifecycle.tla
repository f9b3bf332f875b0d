-------------------------- MODULE ExecutorLifecycle --------------------------
(***************************************************************************)
(* src/z4j_celerybeat/_offload.py: the lazily created thread pool.         *)
(*                                                                         *)
(* Any thread may ask for the pool, in any process.  _get_executor() is    *)
(* double-checked locking over two module globals, _executor and _lock.    *)
(* A process may fork at any moment: the child gets a copy of both globals *)
(* as they are, and of no thread but the one that forked.  The at-fork     *)
(* hook then gives the child a lock of its own and drops the copied pool,  *)
(* whose worker threads do not exist there.                                *)
(***************************************************************************)
CONSTANTS Procs,    \* processes
          Threads,  \* threads of all of them
          Home,     \* the process each thread belongs to
          Root,     \* the process that is there at the start
          NoThread

ASSUME LifecycleAssumption ==
    /\ Home \in [Threads -> Procs]
    /\ Root \in Procs
    /\ NoThread \notin Threads

VARIABLES pc,        \* per thread: the next statement of _get_executor()
          executor,  \* per process: _executor
          lock,      \* per process: which thread has locked _lock
          pools,     \* the pools that were created
          got        \* per thread: the pool it was last given

vars == <<pc, executor, lock, pools, got>>

\* A thread that is not there yet is "unborn"; "reset" is the forked child's
\* thread before its at-fork hook has run.
Inside == {"acquire", "recheck", "create", "release", "return"}
Steps  == {"unborn", "reset", "idle"} \cup Inside

\* A pool is named after the thread that created it.
None == NoThread

TypeOK ==
    /\ pc       \in [Threads -> Steps]
    /\ pools    \in SUBSET Threads
    /\ executor \in [Procs -> pools \cup {None}]
    /\ lock     \in [Procs -> Threads \cup {NoThread}]
    /\ got      \in [Threads -> pools \cup {None}]

Init ==
    /\ pc       = [t \in Threads |-> IF Home[t] = Root THEN "idle" ELSE "unborn"]
    /\ executor = [p \in Procs |-> None]
    /\ lock     = [p \in Procs |-> NoThread]
    /\ pools    = {}
    /\ got      = [t \in Threads |-> None]

At(t, step, next) == pc[t] = step /\ pc' = [pc EXCEPT ![t] = next]

-----------------------------------------------------------------------------
(* _get_executor(). *)

\* The check made without the lock.
Look(t) ==
    /\ IF executor[Home[t]] = None THEN At(t, "idle", "acquire") ELSE At(t, "idle", "return")
    /\ UNCHANGED <<executor, lock, pools, got>>

Acquire(t) ==
    /\ At(t, "acquire", "recheck")
    /\ lock[Home[t]] = NoThread
    /\ lock' = [lock EXCEPT ![Home[t]] = t]
    /\ UNCHANGED <<executor, pools, got>>

\* Mutant: the check is not repeated under the lock.
CreateUnchecked(t) ==
    /\ At(t, "recheck", "create")
    /\ UNCHANGED <<executor, lock, pools, got>>

\* Mutant: the global is bound before the pool has been constructed.
RecheckPublishing(t) ==
    /\ IF executor[Home[t]] = None THEN At(t, "recheck", "create") ELSE At(t, "recheck", "release")
    /\ executor' = [executor EXCEPT ![Home[t]] = IF @ = None THEN t ELSE @]
    /\ UNCHANGED <<lock, pools, got>>

\* The check repeated under the lock.
Recheck(t) ==
    /\ IF executor[Home[t]] = None THEN At(t, "recheck", "create") ELSE At(t, "recheck", "release")
    /\ UNCHANGED <<executor, lock, pools, got>>

Create(t) ==
    /\ At(t, "create", "release")
    /\ pools'    = pools \cup {t}
    /\ executor' = [executor EXCEPT ![Home[t]] = t]
    /\ UNCHANGED <<lock, got>>

Release(t) ==
    /\ At(t, "release", "return")
    /\ lock' = [lock EXCEPT ![Home[t]] = NoThread]
    /\ UNCHANGED <<executor, pools, got>>

\* The global is read once more, and the caller submits to what it holds.
Return(t) ==
    /\ At(t, "return", "idle")
    /\ got' = [got EXCEPT ![t] = executor[Home[t]]]
    /\ UNCHANGED <<executor, lock, pools>>

-----------------------------------------------------------------------------
(* Threads and processes. *)

Alive(p) == \E t \in Threads : Home[t] = p /\ pc[t] # "unborn"

\* A process starts another thread.
Spawn(t, u) ==
    /\ pc[t] = "idle"
    /\ Home[u] = Home[t]
    /\ At(u, "unborn", "idle")
    /\ UNCHANGED <<executor, lock, pools, got>>

\* t forks while the other threads of its process are anywhere; u is its copy
\* in the child, the only thread there.
Fork(t, u) ==
    /\ pc[t] = "idle"
    /\ ~Alive(Home[u])
    /\ At(u, "unborn", "reset")
    /\ executor' = [executor EXCEPT ![Home[u]] = executor[Home[t]]]
    /\ lock'     = [lock     EXCEPT ![Home[u]] = lock[Home[t]]]
    /\ got'      = [got      EXCEPT ![u] = got[t]]
    /\ UNCHANGED pools

\* Mutant: the child keeps the lock it inherited.
ResetKeepingTheLock(t) ==
    /\ At(t, "reset", "idle")
    /\ executor' = [executor EXCEPT ![Home[t]] = None]
    /\ got'      = [got EXCEPT ![t] = None]
    /\ UNCHANGED <<lock, pools>>

\* Mutant: the child keeps the pool it inherited.
ResetKeepingThePool(t) ==
    /\ At(t, "reset", "idle")
    /\ lock' = [lock EXCEPT ![Home[t]] = NoThread]
    /\ got'  = [got EXCEPT ![t] = None]
    /\ UNCHANGED <<executor, pools>>

\* reset_offload_executor() waits for nothing: a fresh lock, and no pool.  What
\* the copied thread was given in the parent is not used in the child.
Reset(t) ==
    /\ At(t, "reset", "idle")
    /\ executor' = [executor EXCEPT ![Home[t]] = None]
    /\ lock'     = [lock     EXCEPT ![Home[t]] = NoThread]
    /\ got'      = [got EXCEPT ![t] = None]
    /\ UNCHANGED pools

Statement(t) ==
    Acquire(t) \/ Recheck(t) \/ Create(t) \/ Release(t) \/ Return(t) \/ Reset(t)

Next == \E t \in Threads :
    \/ Look(t) \/ Statement(t)
    \/ \E u \in Threads : Spawn(t, u) \/ Fork(t, u)

\* A thread that is inside goes on, when the lock lets it.  Nobody has to ask
\* for the pool, to fork or to start a thread.
Fairness == \A t \in Threads : WF_vars(Statement(t))

Spec     == Init /\ [][Next]_vars
FairSpec == Spec /\ Fairness

-----------------------------------------------------------------------------
(* Properties. *)

\* However many threads find no pool at the same time, a process creates at
\* most one, so that the bound on its threads is a bound of the process.
OnePoolPerProcess ==
    \A t, u \in pools : Home[t] = Home[u] => t = u

\* Nobody is handed a pool of another process: in a forked child the parent's
\* pool is an object without threads, and what is submitted to it never runs.
PoolIsLocal ==
    \A t \in Threads :
        pc[t] \notin {"unborn", "reset"} /\ got[t] # None =>
            got[t] \in pools /\ Home[got[t]] = Home[t]

\* A lock that is held is held by a thread of the same process that is between
\* acquiring and releasing it, so that somebody will release it: a child never
\* starts out with a lock that a thread of its parent was holding.
LocksAreNotOrphaned ==
    \A t \in Threads :
        pc[t] \notin {"unborn", "reset"} /\ lock[Home[t]] # NoThread =>
            LET holder == lock[Home[t]]
            IN  Home[holder] = Home[t] /\ pc[holder] \in {"recheck", "create", "release"}

\* Whoever asks for the pool is given one, also in a child that was forked
\* while another thread was inside the locked section.
CallersGetAPool ==
    \A t \in Threads : pc[t] \in Inside ~> pc[t] = "idle" /\ got[t] # None
==============================================================================
