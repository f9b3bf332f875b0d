-------------------------- MODULE OffloadPoolProofs --------------------------
(***************************************************************************)
(* Proofs about OffloadPool, for every number of calls and threads.        *)
(*                                                                         *)
(* The properties are not inductive alone.  What carries them is the       *)
(* agreement between three views of a call: the state of its future, the   *)
(* thread that holds it, and what its coroutine has been told; and with    *)
(* the queue, which holds it while no thread does (QueueIsExact).          *)
(***************************************************************************)
EXTENDS OffloadPool, FiniteSetTheorems, TLAPS

\* A call is held by a thread, and by one only, exactly while its future is
\* RUNNING.
ThreadsAgree ==
    /\ \A v, w \in Workers : ~Idle(w) /\ running[v] = running[w] => v = w
    /\ \A w \in Workers : ~Idle(w) => future[running[w]] = "RUNNING"
    /\ \A c \in Calls : future[c] = "RUNNING" => \E w \in Workers : running[w] = c

\* Nothing lands before the function starts; an ending is known exactly when
\* the future is FINISHED, and "returned" means the effect has happened.
EndingsAgree ==
    \A c \in Calls :
        /\ future[c] \in {"none", "PENDING", "CANCELLED"} => landed[c] = 0
        /\ raised[c] # "none" <=> future[c] = "FINISHED"
        /\ raised[c] = "returned" => landed[c] = 1

\* The coroutine and the future change together when the wait begins or ends.
RepliesAgree ==
    \A c \in Calls :
        /\ reply[c] = "idle" <=> future[c] = "none"
        /\ future[c] = "PENDING" => reply[c] = "waiting"
        /\ future[c] = "CANCELLED" => reply[c] = "OffloadTimeoutError"

IndInv == TypeOK /\ ThreadsAgree /\ EndingsAgree /\ RepliesAgree /\ AnswersAreTrue

\* IndInv holds of the idle pool.
LEMMA InitIndInv == Init => IndInv
BY PoolAssumption
   DEF Init, IndInv, TypeOK, ThreadsAgree, EndingsAgree, RepliesAgree,
       AnswersAreTrue, Replies, FutureStates, Endings, Idle

\* Every action of the loop and of the threads keeps IndInv.
LEMMA NextIndInv == IndInv /\ [Next]_vars => IndInv'
<1> SUFFICES ASSUME IndInv, [Next]_vars PROVE IndInv'
  OBVIOUS
<1> USE PoolAssumption
     DEF TypeOK, ThreadsAgree, EndingsAgree, RepliesAgree, AnswersAreTrue,
         Replies, Answers, FutureStates, Endings, Idle
<1>1. ASSUME NEW c \in Calls, Submit(c) PROVE IndInv'
  <2>1. TypeOK' BY <1>1 DEF IndInv, Submit
  <2>2. ThreadsAgree' BY <1>1 DEF IndInv, Submit
  <2>3. EndingsAgree' BY <1>1 DEF IndInv, Submit
  <2>4. RepliesAgree' /\ AnswersAreTrue' BY <1>1 DEF IndInv, Submit
  <2> QED BY <2>1, <2>2, <2>3, <2>4 DEF IndInv
<1>2. ASSUME NEW c \in Calls, Deliver(c) PROVE IndInv'
  <2>1. /\ reply' = [reply EXCEPT ![c] = reply'[c]]
        /\ raised[c] = "returned" => reply'[c] = "result"
        /\ raised[c] = "raised" => reply'[c] = "exception"
        /\ raised[c] = "TimeoutError" => reply'[c] = "OffloadTimeoutError"
        /\ raised[c] \in {"returned", "raised", "TimeoutError"}
    BY <1>2 DEF IndInv, Deliver
  <2>2. TypeOK' BY <1>2, <2>1 DEF IndInv, Deliver
  <2>3. ThreadsAgree' /\ EndingsAgree' BY <1>2 DEF IndInv, Deliver
  <2>4. RepliesAgree' BY <1>2, <2>1 DEF IndInv, Deliver
  <2>5. AnswersAreTrue' BY <1>2, <2>1 DEF IndInv, Deliver
  <2> QED BY <2>2, <2>3, <2>4, <2>5 DEF IndInv
<1>3. ASSUME NEW c \in Calls, TimeOut(c) PROVE IndInv'
  <2>1. TypeOK' BY <1>3 DEF IndInv, TimeOut, Cancelled
  <2>2. ThreadsAgree' BY <1>3 DEF IndInv, TimeOut, Cancelled
  <2>3. EndingsAgree' BY <1>3 DEF IndInv, TimeOut, Cancelled
  <2>4. RepliesAgree' /\ AnswersAreTrue' BY <1>3 DEF IndInv, TimeOut, Cancelled
  <2> QED BY <2>1, <2>2, <2>3, <2>4 DEF IndInv
<1>4. ASSUME NEW w \in Workers, Start(w) PROVE IndInv'
  <2>1. PICK c \in Calls : c = Head(queue) BY <1>4 DEF IndInv, Start
  <2>2. TypeOK' BY <1>4, <2>1 DEF IndInv, Start
  <2>3. ThreadsAgree' BY <1>4, <2>1 DEF IndInv, Start
  <2>4. EndingsAgree' BY <1>4, <2>1 DEF IndInv, Start
  <2>5. RepliesAgree' /\ AnswersAreTrue' BY <1>4, <2>1 DEF IndInv, Start
  <2> QED BY <2>2, <2>3, <2>4, <2>5 DEF IndInv
<1>5. ASSUME NEW w \in Workers, Skip(w) PROVE IndInv'
  BY <1>5 DEF IndInv, Skip
<1>6. ASSUME NEW w \in Workers, Apply(w) PROVE IndInv'
  <2>1. PICK c \in Calls : c = running[w] /\ future[c] = "RUNNING"
    BY <1>6 DEF IndInv, Apply
  <2> QED BY <1>6, <2>1 DEF IndInv, Apply
<1>7. ASSUME NEW w \in Workers, Finish(w) PROVE IndInv'
  <2>1. PICK c \in Calls : c = running[w] /\ future[c] = "RUNNING"
    BY <1>7 DEF IndInv, Finish
  <2>2. TypeOK' BY <1>7, <2>1 DEF IndInv, Finish
  <2>4. ThreadsAgree' BY <1>7, <2>1 DEF IndInv, Finish
  <2>5. EndingsAgree' BY <1>7, <2>1 DEF IndInv, Finish
  <2>6. RepliesAgree' /\ AnswersAreTrue' BY <1>7, <2>1 DEF IndInv, Finish
  <2> QED BY <2>2, <2>4, <2>5, <2>6 DEF IndInv
<1>8. CASE UNCHANGED vars
  BY <1>8 DEF IndInv, vars
<1> QED BY <1>1, <1>2, <1>3, <1>4, <1>5, <1>6, <1>7, <1>8 DEF Next

-----------------------------------------------------------------------------

\* The reachable states of the pool satisfy IndInv.
THEOREM PoolInvariant == Spec => []IndInv
BY InitIndInv, NextIndInv, PTL DEF Spec

\* Every variable of the pool keeps its type; in particular no function is
\* applied twice.
THEOREM TypeCorrect == Spec => []TypeOK
<1>1. IndInv => TypeOK BY DEF IndInv
<1> QED BY PoolInvariant, <1>1, PTL

\* A call cancelled while queued never takes effect: its item may still be on
\* the queue, but no thread holds it and none will.
THEOREM CancelledCallsNeverLand == Spec => []CancelledNeverLands
<1>1. IndInv => CancelledNeverLands
  BY PoolAssumption
     DEF IndInv, TypeOK, ThreadsAgree, EndingsAgree, CancelledNeverLands, Idle
<1> QED BY PoolInvariant, <1>1, PTL

\* A coroutine is told "result" or "exception" only by a run that ended so.
THEOREM AnswersTrue == Spec => []AnswersAreTrue
<1>1. IndInv => AnswersAreTrue BY DEF IndInv
<1> QED BY PoolInvariant, <1>1, PTL

\* Whatever the number of calls, those that timed out and may still take
\* effect are each held by a thread of their own.
THEOREM LateEffectsBoundedByThreads == Spec => []LateEffectsBounded
<1>1. ASSUME IndInv PROVE LateEffectsBounded
  <2> DEFINE held == [c \in Outstanding |-> CHOOSE w \in Workers : running[w] = c]
  <2>1. \A c \in Outstanding : future[c] = "RUNNING"
    BY <1>1 DEF IndInv, RepliesAgree, Outstanding
  <2>2. \A c \in Outstanding : held[c] \in Workers /\ running[held[c]] = c
    BY <1>1, <2>1 DEF IndInv, ThreadsAgree, Outstanding
  <2>3. held \in Injection(Outstanding, Workers)
    BY <2>2 DEF Injection, IsInjective
  <2> HIDE DEF held
  <2> QED BY <2>3, FS_Injection, PoolAssumption DEF LateEffectsBounded
<1> QED BY PoolInvariant, <1>1, PTL

-----------------------------------------------------------------------------
(* The queue. *)

\* The empty queue of the idle pool is exact.
LEMMA QueueInit == Init => QueueIsExact
<1>1. Init => Len(queue) = 0 /\ \A c \in Calls : future[c] = "none" BY DEF Init
<1> QED BY <1>1 DEF QueueIsExact

\* Every step keeps it so: a call is put on the queue when its future is made,
\* and taken off by the thread that starts it or finds it cancelled.
LEMMA QueueNext == IndInv /\ QueueIsExact /\ [Next]_vars => QueueIsExact'
<1> SUFFICES ASSUME IndInv, QueueIsExact, [Next]_vars PROVE QueueIsExact'
  OBVIOUS
<1>0. queue \in Seq(Calls) /\ future \in [Calls -> FutureStates]
  BY DEF IndInv, TypeOK
<1>1. ASSUME NEW c \in Calls, Submit(c) PROVE QueueIsExact'
  <2>1. /\ queue' = Append(queue, c) /\ Len(queue') = Len(queue) + 1
        /\ queue'[Len(queue) + 1] = c
        /\ \A i \in 1..Len(queue) : queue'[i] = queue[i]
    BY <1>0, <1>1 DEF Submit
  <2>2. future[c] = "none" BY <1>1 DEF Submit, IndInv, RepliesAgree
  <2>3. \A i \in 1..Len(queue) : queue[i] \in Calls /\ queue[i] # c
    BY <1>0, <2>2 DEF QueueIsExact
  <2>4. future' = [future EXCEPT ![c] = "PENDING"] BY <1>1 DEF Submit
  <2> QED BY <1>0, <2>1, <2>3, <2>4 DEF QueueIsExact
<1>2. ASSUME NEW c \in Calls, Deliver(c) PROVE QueueIsExact'
  BY <1>2 DEF Deliver, QueueIsExact
<1>3. ASSUME NEW c \in Calls, TimeOut(c) PROVE QueueIsExact'
  BY <1>0, <1>3 DEF TimeOut, Cancelled, QueueIsExact
<1>4. ASSUME NEW w \in Workers, Start(w) \/ Skip(w) PROVE QueueIsExact'
  <2> DEFINE c == Head(queue)
  <2>1. /\ queue # <<>> /\ queue' = Tail(queue)
        /\ future' \in {future, [future EXCEPT ![c] = "RUNNING"]}
        /\ future'[c] # "PENDING"
    BY <1>0, <1>4 DEF Start, Skip
  <2>2. /\ c = queue[1] /\ c \in Calls /\ Len(queue) \in Nat /\ Len(queue) >= 1
        /\ Len(queue') = Len(queue) - 1
        /\ \A i \in 1..Len(queue') : queue'[i] = queue[i + 1]
    BY <1>0, <2>1
  <2>3. \A i \in 1..Len(queue') : queue'[i] \in Calls \ {c}
    BY <1>0, <2>2 DEF QueueIsExact
  <2>4. \A i, j \in 1..Len(queue') : queue'[i] = queue'[j] => i = j
    BY <2>2 DEF QueueIsExact
  <2>5. \A i \in 1..Len(queue') : future'[queue'[i]] \in {"PENDING", "CANCELLED"}
    BY <1>0, <2>1, <2>2, <2>3 DEF QueueIsExact
  <2>6. ASSUME NEW d \in Calls, future'[d] = "PENDING"
        PROVE  \E i \in 1..Len(queue') : queue'[i] = d
    <3>1. d # c /\ future[d] = "PENDING" BY <1>0, <2>1, <2>6
    <3>2. PICK i \in 1..Len(queue) : queue[i] = d BY <3>1 DEF QueueIsExact
    <3>3. i - 1 \in 1..Len(queue') /\ queue'[i - 1] = d BY <2>2, <3>1, <3>2
    <3> QED BY <3>3
  <2> QED BY <2>4, <2>5, <2>6 DEF QueueIsExact
<1>5. ASSUME NEW w \in Workers, Apply(w) PROVE QueueIsExact'
  BY <1>5 DEF Apply, QueueIsExact
<1>6. ASSUME NEW w \in Workers, Finish(w) PROVE QueueIsExact'
  <2>1. running[w] \in Calls /\ future[running[w]] = "RUNNING"
    BY <1>6 DEF Finish, IndInv, TypeOK, ThreadsAgree, Idle
  <2> QED BY <1>0, <1>6, <2>1 DEF Finish, QueueIsExact
<1>7. CASE UNCHANGED vars BY <1>7 DEF vars, QueueIsExact
<1> QED BY <1>1, <1>2, <1>3, <1>4, <1>5, <1>6, <1>7 DEF Next

\* No call is lost and none is queued twice, whatever the threads and the
\* time-outs do: the head of the queue can always be started or dropped.
THEOREM QueueNeverLoses == Spec => []QueueIsExact
BY QueueInit, QueueNext, PoolInvariant, PTL DEF Spec

-----------------------------------------------------------------------------
(* Refinement of CallPromise. *)

\* What each reply tells the coroutine, one fact per reply.
LEMMA ToldValues ==
    /\ Told["idle"] = "idle"
    /\ Told["waiting"] = "open"
    /\ Told["result"] = "ok"
    /\ Told["exception"] = "error"
    /\ Told["OffloadTimeoutError"] = "unknown"
BY DEF Told

\* The idle pool is an initial state of the promise.
LEMMA PromiseInit == Init => Promise!Init
<1> SUFFICES ASSUME Init PROVE Promise!Init
  OBVIOUS
<1>1. answer = [c \in Calls |-> "idle"]
  BY ToldValues DEF Init, answer
<1>2. ended = [c \in Calls |-> FALSE]
  <2>1. \A c \in Calls : (future[c] \in {"CANCELLED", "FINISHED"}) = FALSE
    BY DEF Init
  <2> QED BY <2>1, Zenon DEF ended
<1> QED BY <1>1, <1>2 DEF Init, Promise!Init

\* A step that moves one call's future moves only that call's "ended".
LEMMA EndedMoves ==
    ASSUME TypeOK, NEW c \in Calls, NEW f \in FutureStates,
           future' = [future EXCEPT ![c] = f]
    PROVE  /\ ended' = [ended EXCEPT ![c] = f \in {"CANCELLED", "FINISHED"}]
           /\ ended[c] = (future[c] \in {"CANCELLED", "FINISHED"})
BY DEF TypeOK, ended

\* Every step of the pool is a step of the promise or leaves it unchanged.
LEMMA PromiseStep == IndInv /\ [Next]_vars => [Promise!Next]_(Promise!vars)
<1> SUFFICES ASSUME IndInv, [Next]_vars PROVE [Promise!Next]_(Promise!vars)
  OBVIOUS
<1>0. TypeOK BY DEF IndInv
<1>1. ASSUME NEW c \in Calls, Submit(c) PROVE Promise!Begin(c)
  <2>1. answer[c] = "idle" /\ answer' = [answer EXCEPT ![c] = "open"]
    BY <1>0, <1>1, ToldValues DEF Submit, TypeOK, answer
  <2>2. UNCHANGED <<ended, landed>>
    BY <1>0, <1>1 DEF TypeOK, Submit, ended, IndInv, RepliesAgree
  <2> QED BY <2>1, <2>2 DEF Promise!Begin
<1>2. ASSUME NEW c \in Calls, Deliver(c)
      PROVE  Promise!AnswerDefinitely(c) \/ Promise!GiveUp(c)
  <2>1. UNCHANGED <<ended, landed>> /\ ended[c] /\ answer[c] = "open"
    BY <1>0, <1>2, ToldValues DEF Deliver, ended, answer
  <2>2. CASE raised[c] = "returned"
    <3>1. reply' = [reply EXCEPT ![c] = "result"] BY <1>2, <2>2 DEF Deliver
    <3>2. answer' = [answer EXCEPT ![c] = "ok"]
      BY <1>0, <3>1, ToldValues DEF TypeOK, answer
    <3>3. landed[c] = 1 BY <2>2 DEF IndInv, EndingsAgree
    <3> QED BY <2>1, <3>2, <3>3 DEF Promise!AnswerDefinitely
  <2>3. CASE raised[c] = "raised"
    <3>1. reply' = [reply EXCEPT ![c] = "exception"] BY <1>2, <2>3 DEF Deliver
    <3>2. answer' = [answer EXCEPT ![c] = "error"]
      BY <1>0, <3>1, ToldValues DEF TypeOK, answer
    <3> QED BY <2>1, <3>2 DEF Promise!AnswerDefinitely
  <2>4. CASE raised[c] = "TimeoutError"
    <3>1. reply' = [reply EXCEPT ![c] = "OffloadTimeoutError"]
      BY <1>2, <2>4 DEF Deliver
    <3>2. answer' = [answer EXCEPT ![c] = "unknown"]
      BY <1>0, <3>1, ToldValues DEF TypeOK, answer
    <3> QED BY <2>1, <3>2 DEF Promise!GiveUp
  <2>5. raised[c] \in {"returned", "raised", "TimeoutError"}
    BY <1>0, <1>2 DEF IndInv, TypeOK, Endings, EndingsAgree, Deliver
  <2> QED BY <2>2, <2>3, <2>4, <2>5
<1>3. ASSUME NEW c \in Calls, TimeOut(c) PROVE Promise!GiveUp(c)
  <2>1. answer[c] = "open" /\ answer' = [answer EXCEPT ![c] = "unknown"]
    BY <1>0, <1>3, ToldValues DEF TimeOut, TypeOK, answer
  <2>2. ended' \in {ended, [ended EXCEPT ![c] = TRUE]}
    BY <1>0, <1>3 DEF TypeOK, TimeOut, Cancelled, ended
  <2> QED BY <1>3, <2>1, <2>2 DEF TimeOut, Promise!GiveUp
<1>4. ASSUME NEW w \in Workers, Start(w) PROVE UNCHANGED Promise!vars
  BY <1>0, <1>4 DEF TypeOK, Start, Promise!vars, answer, ended
<1>5. ASSUME NEW w \in Workers, Skip(w) PROVE UNCHANGED Promise!vars
  BY <1>5 DEF Skip, Promise!vars, answer, ended
<1>6. ASSUME NEW w \in Workers, Apply(w) \/ Finish(w)
      PROVE  /\ running[w] \in Calls
             /\ future[running[w]] = "RUNNING"
             /\ answer[running[w]] \in {"open", "unknown"}
             /\ UNCHANGED answer
  <2>1. running[w] \in Calls /\ future[running[w]] = "RUNNING" /\ UNCHANGED reply
    BY <1>0, <1>6 DEF IndInv, TypeOK, ThreadsAgree, Apply, Finish, Idle
  <2>2. reply[running[w]] \in {"waiting", "OffloadTimeoutError"}
    BY <1>0, <2>1 DEF IndInv, TypeOK, Replies, Answers, RepliesAgree, AnswersAreTrue
  <2> QED BY <2>1, <2>2, ToldValues DEF answer
<1>7. ASSUME NEW w \in Workers, Apply(w) PROVE Promise!Land(running[w])
  <2>1. landed' = [landed EXCEPT ![running[w]] = 1]
    BY <1>0, <1>7 DEF Apply
  <2>2. UNCHANGED ended /\ ~ended[running[w]]
    BY <1>6, <1>7 DEF Apply, ended
  <2> QED BY <1>6, <1>7, <2>1, <2>2 DEF Apply, Promise!Land
<1>8. ASSUME NEW w \in Workers, Finish(w) PROVE Promise!End(running[w])
  <2>1. ended' = [ended EXCEPT ![running[w]] = TRUE]
    BY <1>0, <1>6, <1>8, EndedMoves DEF Finish, FutureStates
  <2> QED BY <1>6, <1>8, <2>1 DEF Finish, Promise!End
<1>9. CASE UNCHANGED vars
  BY <1>9 DEF vars, Promise!vars, answer, ended
<1> QED
  BY <1>1, <1>2, <1>3, <1>4, <1>5, <1>6, <1>7, <1>8, <1>9 DEF Next, Promise!Next

\* The pool implements the promise its callers are written against.
THEOREM PoolKeepsPromise == Spec => KeepsPromise
BY PromiseInit, PromiseStep, PoolInvariant, PTL DEF Spec, KeepsPromise, Promise!Spec
==============================================================================
