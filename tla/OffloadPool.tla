----------------------------- MODULE OffloadPool -----------------------------
(***************************************************************************)
(* src/z4j_celerybeat/_offload.py: offload() runs a blocking function on a *)
(* bounded thread pool and waits for it under a timeout.                   *)
(*                                                                         *)
(* Two kinds of actor interleave.  The event loop submits calls, resumes   *)
(* the awaiting coroutine with a result, or gives the wait up.  The pool's *)
(* threads take work items in FIFO order and run them; nothing can stop a  *)
(* function that has started.  Giving the wait up cancels the item's       *)
(* future, which only has an effect while the item is still queued.        *)
(***************************************************************************)
EXTENDS Naturals, Sequences, FiniteSets

CONSTANTS Calls,    \* the offload() calls of a behaviour; each is made once
          Workers,  \* the pool's threads; _MAX_WORKERS of them
          NoCall    \* what an idle thread is running

ASSUME PoolAssumption ==
    /\ Workers # {}
    /\ IsFiniteSet(Workers)
    /\ NoCall \notin Calls

VARIABLES reply,    \* per call: what its coroutine is doing or was given
          future,   \* per call: the state of its concurrent future
          raised,   \* per call: how its function ended
          queue,    \* the executor's work queue
          running,  \* per thread: the call it is running
          landed    \* per call: how often its side effect has happened

vars == <<reply, future, raised, queue, running, landed>>

Answers      == {"result", "exception", "OffloadTimeoutError"}
Replies      == {"idle", "waiting"} \cup Answers
FutureStates == {"none", "PENDING", "RUNNING", "CANCELLED", "FINISHED"}
Endings      == {"none", "returned", "raised", "TimeoutError"}

TypeOK ==
    /\ reply   \in [Calls -> Replies]
    /\ future  \in [Calls -> FutureStates]
    /\ raised  \in [Calls -> Endings]
    /\ queue   \in Seq(Calls)
    /\ running \in [Workers -> Calls \cup {NoCall}]
    /\ landed  \in [Calls -> 0..1]

Init ==
    /\ reply   = [c \in Calls |-> "idle"]
    /\ future  = [c \in Calls |-> "none"]
    /\ raised  = [c \in Calls |-> "none"]
    /\ queue   = <<>>
    /\ running = [w \in Workers |-> NoCall]
    /\ landed  = [c \in Calls |-> 0]

-----------------------------------------------------------------------------
(* The event loop. *)

\* run_in_executor() puts the work item on the queue, wait_for() starts.
Submit(c) ==
    /\ reply[c] = "idle"
    /\ reply'  = [reply  EXCEPT ![c] = "waiting"]
    /\ future' = [future EXCEPT ![c] = "PENDING"]
    /\ queue'  = Append(queue, c)
    /\ UNCHANGED <<raised, running, landed>>

\* Mutant: the function's exception is swallowed on the way to the coroutine.
DeliverSwallowingErrors(c) ==
    /\ reply[c] = "waiting"
    /\ future[c] = "FINISHED"
    /\ reply' = [reply EXCEPT ![c] = "result"]
    /\ UNCHANGED <<future, raised, queue, running, landed>>

\* The finished future reaches the loop before the timer does.  A built-in
\* TimeoutError raised by the function itself is caught by the same handler
\* as the timer's.
Deliver(c) ==
    /\ reply[c] = "waiting"
    /\ future[c] = "FINISHED"
    /\ reply' = [reply EXCEPT ![c] =
                   CASE raised[c] = "returned"            -> "result"
                     [] raised[c] = "raised"              -> "exception"
                     [] raised[c] = "TimeoutError" -> "OffloadTimeoutError"]
    /\ UNCHANGED <<future, raised, queue, running, landed>>

\* Mutant: giving up leaves the item on the queue, to be run later.
CancelledNever(state) == state

\* Mutant: cancelling is believed to stop a running function as well.
CancelledAlways(state) == IF state \in {"PENDING", "RUNNING"} THEN "CANCELLED" ELSE state

\* Cancelling a concurrent future works only before a thread has taken it.
Cancelled(state) == IF state = "PENDING" THEN "CANCELLED" ELSE state

\* Mutant: wait_for() waits until a function that has started comes back.
TimeOutUnlessRunning(c) ==
    /\ reply[c] = "waiting"
    /\ future[c] # "RUNNING"
    /\ reply'  = [reply  EXCEPT ![c] = "OffloadTimeoutError"]
    /\ future' = [future EXCEPT ![c] = Cancelled(@)]
    /\ UNCHANGED <<raised, queue, running, landed>>

\* Mutant: the timeout is passed on as a definite failure.
TimeOutAsFailure(c) ==
    /\ reply[c] = "waiting"
    /\ reply'  = [reply  EXCEPT ![c] = "exception"]
    /\ future' = [future EXCEPT ![c] = Cancelled(@)]
    /\ UNCHANGED <<raised, queue, running, landed>>

\* The timer fires first.  The thread may have finished already, with its
\* result not yet handed over to the loop.
TimeOut(c) ==
    /\ reply[c] = "waiting"
    /\ reply'  = [reply  EXCEPT ![c] = "OffloadTimeoutError"]
    /\ future' = [future EXCEPT ![c] = Cancelled(@)]
    /\ UNCHANGED <<raised, queue, running, landed>>

-----------------------------------------------------------------------------
(* The pool's threads. *)

Idle(w) == running[w] = NoCall

\* Mutant: the thread reads the item without taking it off the queue.
StartPeeking(w) ==
    /\ Idle(w)
    /\ queue # <<>>
    /\ future[Head(queue)] = "PENDING"
    /\ running' = [running EXCEPT ![w] = Head(queue)]
    /\ future'  = [future EXCEPT ![Head(queue)] = "RUNNING"]
    /\ UNCHANGED <<reply, raised, queue, landed>>

\* set_running_or_notify_cancel() accepts the item ...
Start(w) ==
    /\ Idle(w)
    /\ queue # <<>>
    /\ future[Head(queue)] = "PENDING"
    /\ running' = [running EXCEPT ![w] = Head(queue)]
    /\ future'  = [future EXCEPT ![Head(queue)] = "RUNNING"]
    /\ queue'   = Tail(queue)
    /\ UNCHANGED <<reply, raised, landed>>

\* Mutant: the thread leaves the cancelled item at the head of the queue.
SkipInPlace(w) ==
    /\ Idle(w)
    /\ queue # <<>>
    /\ future[Head(queue)] = "CANCELLED"
    /\ UNCHANGED <<reply, future, raised, queue, running, landed>>

\* ... or finds it cancelled, and the thread drops it.
Skip(w) ==
    /\ Idle(w)
    /\ queue # <<>>
    /\ future[Head(queue)] = "CANCELLED"
    /\ queue' = Tail(queue)
    /\ UNCHANGED <<reply, future, raised, running, landed>>

\* Mutant: the thread runs the function again while it still holds the item.
ApplyAgain(w) ==
    /\ ~Idle(w)
    /\ landed' = [landed EXCEPT ![running[w]] = @ + 1]
    /\ UNCHANGED <<reply, future, raised, queue, running>>

\* The function's side effect happens: the commit, the publish.
Apply(w) ==
    /\ ~Idle(w)
    /\ landed[running[w]] = 0
    /\ landed' = [landed EXCEPT ![running[w]] = @ + 1]
    /\ UNCHANGED <<reply, future, raised, queue, running>>

\* The function ends and the thread is free again.  It returns only after
\* its effect; it may raise before it, or after it when the acknowledgement
\* is what got lost.
Finish(w) ==
    /\ ~Idle(w)
    /\ \E ending \in Endings \ {"none"} :
          /\ ending = "returned" => landed[running[w]] = 1
          /\ raised' = [raised EXCEPT ![running[w]] = ending]
    /\ future'  = [future EXCEPT ![running[w]] = "FINISHED"]
    /\ running' = [running EXCEPT ![w] = NoCall]
    /\ UNCHANGED <<reply, queue, landed>>

-----------------------------------------------------------------------------

Next ==
    \/ \E c \in Calls : Submit(c) \/ Deliver(c) \/ TimeOut(c)
    \/ \E w \in Workers : Start(w) \/ Skip(w) \/ Apply(w) \/ Finish(w)

\* The loop keeps running, so a timer that stays armed fires.  Idle threads
\* take work.  Nothing is assumed of a function that has started: a database
\* or a broker may hang for ever.
Fairness ==
    /\ \A c \in Calls : WF_vars(TimeOut(c))
    /\ \A w \in Workers : WF_vars(Start(w)) /\ WF_vars(Skip(w))

Spec     == Init /\ [][Next]_vars
FairSpec == Spec /\ Fairness

-----------------------------------------------------------------------------
(* Properties. *)

\* The calls that were reported as indeterminate and can still have an effect.
Outstanding ==
    {c \in Calls : /\ reply[c] = "OffloadTimeoutError"
                   /\ future[c] \in {"PENDING", "RUNNING"}}

\* However many calls time out during a database or broker stall, no more of
\* them can still take effect later than the pool has threads: the rest were
\* still queued and their cancellation is final.  This is what bounding the
\* pool and cancelling the future buy together.
LateEffectsBounded == Cardinality(Outstanding) <= Cardinality(Workers)

\* A call that was cancelled while queued is never run, even though its item
\* stays in the queue and threads keep meeting it.
CancelledNeverLands ==
    \A c \in Calls : future[c] = "CANCELLED" =>
        /\ landed[c] = 0
        /\ \A w \in Workers : running[w] # c

\* The queue holds each call that waits for a thread, once, and nothing else but
\* cancelled ones: an idle thread can always start or drop the head, and no call
\* is lost, however time-outs and threads interleave.
QueueIsExact ==
    /\ \A i, j \in 1..Len(queue) : queue[i] = queue[j] => i = j
    /\ \A i \in 1..Len(queue) : future[queue[i]] \in {"PENDING", "CANCELLED"}
    /\ \A c \in Calls : future[c] = "PENDING" => \E i \in 1..Len(queue) : queue[i] = c

\* A result or an exception reaches the coroutine only from the run that
\* produced it, and a result only when the side effect has happened.
AnswersAreTrue ==
    \A c \in Calls :
        /\ reply[c] = "result" => raised[c] = "returned" /\ landed[c] = 1
        /\ reply[c] = "exception" => raised[c] = "raised"
        /\ reply[c] \in {"result", "exception"} => future[c] = "FINISHED"

\* The awaiting coroutine always gets an answer, also when every thread of
\* the pool hangs for ever: a stalled broker cannot freeze the event loop.
EveryCallAnswered == \A c \in Calls : reply[c] = "waiting" ~> reply[c] \in Answers

\* One thread that keeps coming back is enough to work off the backlog a
\* stall leaves behind, whatever the other threads do.
PoolRecovers == (\E w \in Workers : []<>Idle(w)) => []<>(queue = <<>>)

-----------------------------------------------------------------------------
(* The pool keeps the promise its callers rely on. *)

Told == [idle |-> "idle", waiting |-> "open", result |-> "ok",
         exception |-> "error", OffloadTimeoutError |-> "unknown"]

answer == [c \in Calls |-> Told[reply[c]]]
ended  == [c \in Calls |-> future[c] \in {"CANCELLED", "FINISHED"}]

Promise == INSTANCE CallPromise WITH
    Calls <- Calls, answer <- answer, ended <- ended, landed <- landed

\* Every behaviour of the pool is a behaviour of CallPromise.
KeepsPromise == Promise!Spec
==============================================================================
