--------------------------- MODULE SchedulerRouting ---------------------------
(***************************************************************************)
(* src/z4j_celerybeat/scheduler.py: CeleryBeatSchedulerAdapter asks its    *)
(* sources one after the other, in order of priority, and decides from     *)
(* each answer whether to go on to the next.                               *)
(*                                                                         *)
(* Commands are coroutines on one event loop: they interleave wherever     *)
(* they await a source or the broker, and the sources' contents change in  *)
(* between.  What a source answers is nondeterministic, within what its    *)
(* answers promise: a refusal means that nothing was changed, an exception *)
(* or a timeout that the change may have happened, a timeout that it may   *)
(* still happen (PeriodicTaskStore and OffloadPool show this of the        *)
(* built-in database source).                                              *)
(***************************************************************************)
EXTENDS Naturals, FiniteSets

CONSTANTS N,         \* the sources are 1..N, in order of priority
          Kind,      \* "dcb", "static" or "custom" for each source
          Commands,  \* commands in flight; each is given once
          Ids,       \* schedule ids, as far as routing tells them apart
          Requests,  \* what the commands may be
          ColdStart  \* whether Django may not be set up yet at the start

Sources   == 1..N
Mutations == {"create", "update", "delete", "set_enabled"}
Ops       == Mutations \cup {"external", "list", "trigger"}

ASSUME RoutingAssumption ==
    /\ N \in Nat
    /\ Kind \in [Sources -> {"dcb", "static", "custom"}]
    /\ Requests \subseteq [op : Ops, id : Ids]
    /\ ColdStart \in BOOLEAN

VARIABLES django,     \* whether importing django_celery_beat.models works
          loaded,     \* per source: the models were imported once
          holds,      \* per source: the schedules it has
          app,        \* whether the adapter was given a Celery app
          advertised, \* capabilities reported so far
          cmd,        \* per command: its request
          phase,      \* per command: where its coroutine is
          at,         \* per command: the source its loop has reached
          result,     \* per command: what it returned or raised
          touched,    \* per command: sources it has changed
          pending,    \* per command: sources that may still apply it
          found,      \* per command: the source its schedule was read from
          sent,       \* per command: how often its task was published
          listed,     \* per command: the inventory so far
          since,      \* per command: what was there ever since it started
          owners      \* per command: sources that held its id when asked

adapter == <<phase, at, result, touched, pending, found, sent, listed, owners>>
vars == <<django, loaded, holds, app, advertised, cmd, since, adapter>>

Phases  == {"idle", "looping", "awaiting", "found", "sending", "done"}
Results == {"none", "success", "failed", "NotFoundError", "indeterminate",
            "raised", "OffloadTimeoutError", "inventory"}

TypeOK ==
    /\ django     \in BOOLEAN
    /\ loaded     \in [Sources -> BOOLEAN]
    /\ holds      \in [Sources -> SUBSET Ids]
    /\ app        \in BOOLEAN
    /\ advertised \in SUBSET {"trigger_now", "write", "external", "stable"}
    /\ cmd        \in [Commands -> Requests]
    /\ phase      \in [Commands -> Phases]
    /\ at         \in [Commands -> 1..(N + 1)]
    /\ result     \in [Commands -> Results]
    /\ touched    \in [Commands -> SUBSET Sources]
    /\ pending    \in [Commands -> SUBSET (0..N)]
    /\ found      \in [Commands -> 0..N]
    /\ sent       \in [Commands -> 0..1]
    /\ listed     \in [Commands -> SUBSET Ids]
    /\ since      \in [Commands -> SUBSET (Sources \X Ids)]
    /\ owners     \in [Commands -> SUBSET Sources]

Init ==
    /\ django     \in {TRUE, ~ColdStart}
    /\ loaded     = [i \in Sources |-> FALSE]
    /\ holds      \in [Sources -> SUBSET Ids]
    /\ app        \in BOOLEAN
    /\ advertised = {}
    /\ cmd        \in [Commands -> Requests]
    /\ phase      = [c \in Commands |-> "idle"]
    /\ at         = [c \in Commands |-> 1]
    /\ result     = [c \in Commands |-> "none"]
    /\ touched    = [c \in Commands |-> {}]
    /\ pending    = [c \in Commands |-> {}]
    /\ found      = [c \in Commands |-> 0]
    /\ sent       = [c \in Commands |-> 0]
    /\ listed     = [c \in Commands |-> {}]
    /\ since      = [c \in Commands |-> {}]
    /\ owners     = [c \in Commands |-> {}]

-----------------------------------------------------------------------------
(* Availability. *)

\* Mutant: the models are imported afresh at every question.
AvailableNow(i) == django

\* The database source is available once its models could be imported, and for
\* ever after; every failure to import them reads as "not available".
Available(i) == loaded[i] \/ django

\* Asking the database sources of a set is what loads their models.
Ask(asked) == loaded' = [i \in Sources |->
                           loaded[i] \/ (i \in asked /\ Kind[i] = "dcb" /\ Available(i))]

\* The sources a mutation may be offered to.  A source of the embedder's own
\* may report anything, from one question to the next.
Editable(i) == \/ Kind[i] = "dcb" /\ Available(i)
               \/ Kind[i] = "custom"

ReadOnly(i) == \/ Kind[i] = "static"
               \/ Kind[i] = "dcb" /\ ~Available(i)
               \/ Kind[i] = "custom"

-----------------------------------------------------------------------------
(* The loop every command runs over the sources. *)

Start(c) ==
    /\ phase[c] = "idle"
    /\ phase' = [phase EXCEPT ![c] = "looping"]
    /\ since' = [since EXCEPT ![c] = {e \in Sources \X Ids : e[2] \in holds[e[1]]}]
    /\ UNCHANGED <<django, loaded, holds, app, advertised, cmd, at, result,
                   touched, pending, found, sent, listed, owners>>

Awaiting(c, ops) == phase[c] = "awaiting" /\ cmd[c].op \in ops

\* Mutant: the loop passes over the source after the one that refused.
GoOnTwo(c) == /\ phase' = [phase EXCEPT ![c] = "looping"]
              /\ at'    = [at    EXCEPT ![c] = @ + 2]
              /\ UNCHANGED result

\* The loop goes on to the next source, or the command ends.
GoOn(c) == /\ phase' = [phase EXCEPT ![c] = "looping"]
           /\ at'    = [at    EXCEPT ![c] = @ + 1]
           /\ UNCHANGED result

Return(c, r) == /\ phase'  = [phase  EXCEPT ![c] = "done"]
                /\ result' = [result EXCEPT ![c] = r]
                /\ UNCHANGED at

Await(c, i) == /\ phase' = [phase EXCEPT ![c] = "awaiting"]
               /\ at'    = [at    EXCEPT ![c] = i]
               /\ UNCHANGED result

Environment == <<django, holds, app, advertised, cmd, since>>

\* Source i is the next one to be called: those before it take no edits.
NextEditable(c, i) == Editable(i) /\ \A j \in at[c]..(i - 1) : ReadOnly(j)

\* Sources that take no edits are passed over without an await.
Offer(c) ==
    /\ phase[c] = "looping"
    /\ cmd[c].op \in Mutations
    /\ \E i \in at[c]..N :
          /\ NextEditable(c, i)
          /\ Await(c, i)
          /\ Ask(at[c]..i)
    /\ UNCHANGED <<Environment, touched, pending, found, sent, listed, owners>>

\* Compare-and-set edits go to the first database source that is available,
\* and to no other.
OfferExternal(c) ==
    /\ phase[c] = "looping"
    /\ cmd[c].op = "external"
    /\ \E i \in at[c]..N :
          /\ Kind[i] = "dcb" /\ Available(i)
          /\ \A j \in at[c]..(i - 1) : Kind[j] # "dcb" \/ ~Available(j)
          /\ Await(c, i)
          /\ Ask(at[c]..i)
    /\ UNCHANGED <<Environment, touched, pending, found, sent, listed, owners>>

\* Reads ask every source.
OfferRead(c) ==
    /\ phase[c] = "looping"
    /\ cmd[c].op \in {"list", "trigger"}
    /\ at[c] <= N
    /\ Await(c, at[c])
    /\ Ask({at[c]})
    /\ UNCHANGED <<Environment, touched, pending, found, sent, listed, owners>>

-----------------------------------------------------------------------------
(* What a source answers to a mutation, and what the loop makes of it. *)

ReadState == <<found, sent, listed, owners>>

\* The change was made; a delete may have found nothing left to do.
Accepted(c) ==
    /\ Awaiting(c, Mutations \cup {"external"})
    /\ \/ touched' = [touched EXCEPT ![c] = @ \cup {at[c]}]
       \/ cmd[c].op = "delete" /\ UNCHANGED touched
    /\ Return(c, "success")
    /\ UNCHANGED <<Environment, loaded, pending, ReadState>>

\* The source cannot do this at all: NotImplementedError, or no set_enabled.
NotImplemented(c) ==
    /\ Awaiting(c, Mutations)
    /\ Kind[at[c]] = "custom"
    /\ GoOn(c)
    /\ UNCHANGED <<Environment, loaded, touched, pending, ReadState>>

\* The source refuses and has changed nothing.  NotFoundError to an update and
\* "failed" to a delete or toggle send the loop on; create stops at any error.
Refused(c) ==
    /\ Awaiting(c, Mutations \cup {"external"})
    /\ \/ cmd[c].op \in {"update", "delete", "set_enabled"} /\ GoOn(c)
       \/ cmd[c].op \in {"create", "update", "external"} /\ Return(c, "raised")
    /\ UNCHANGED <<Environment, loaded, touched, pending, ReadState>>

\* The source raised something else; the change may have been made.
Failed(c) ==
    /\ Awaiting(c, Mutations \cup {"external"})
    /\ touched' \in {touched, [touched EXCEPT ![c] = @ \cup {at[c]}]}
    /\ Return(c, "raised")
    /\ UNCHANGED <<Environment, loaded, pending, ReadState>>

\* Mutant: an indeterminate answer is one failure among others.
TimedOutGoingOn(c) ==
    /\ Awaiting(c, Mutations \cup {"external"})
    /\ pending' = [pending EXCEPT ![c] = @ \cup {at[c]}]
    /\ IF cmd[c].op \in {"delete", "set_enabled"}
       THEN GoOn(c)
       ELSE Return(c, "OffloadTimeoutError")
    /\ UNCHANGED <<Environment, loaded, touched, ReadState>>

\* The call outlived its timeout.  Its change may have been made, or may be made
\* later.  The loop stops here for every operation.
TimedOut(c) ==
    /\ Awaiting(c, Mutations \cup {"external"})
    /\ pending' = [pending EXCEPT ![c] = @ \cup {at[c]}]
    /\ Return(c, IF cmd[c].op \in {"delete", "set_enabled"}
                 THEN "indeterminate" ELSE "OffloadTimeoutError")
    /\ UNCHANGED <<Environment, loaded, touched, ReadState>>

\* A call that timed out takes effect after all.
LandLate(c) ==
    /\ \E i \in pending[c] \cap Sources :
          touched' = [touched EXCEPT ![c] = @ \cup {i}]
    /\ UNCHANGED <<Environment, loaded, phase, at, result, pending, ReadState>>

\* No source is left that the command could be offered to.
Exhausted(c) ==
    /\ phase[c] = "looping"
    /\ \A j \in at[c]..N :
          \/ cmd[c].op \in Mutations /\ ReadOnly(j)
          \/ cmd[c].op = "external" /\ (Kind[j] # "dcb" \/ ~Available(j))
    /\ Ask(at[c]..N)
    /\ Return(c, CASE cmd[c].op \in {"create", "update", "external"} -> "NotFoundError"
                   [] cmd[c].op = "list"                              -> "inventory"
                   [] OTHER                                           -> "failed")
    /\ UNCHANGED <<Environment, touched, pending, ReadState>>

-----------------------------------------------------------------------------
(* list_schedules. *)

\* What a source that answers says it has; an unavailable one has nothing.
Reported(i) == IF Kind[i] = "dcb" /\ ~loaded[i] THEN {} ELSE holds[i]

\* Mutant: a source that cannot be read is left out of the inventory.
ListFailedGoingOn(c) ==
    /\ Awaiting(c, {"list"})
    /\ GoOn(c)
    /\ UNCHANGED <<Environment, loaded, touched, pending, ReadState>>

\* In an inventory ids are names: of the schedules of one scheduler that have
\* the same name, the first is kept.
ListRead(c) ==
    /\ Awaiting(c, {"list"})
    /\ listed' = [listed EXCEPT ![c] = @ \cup Reported(at[c])]
    /\ GoOn(c)
    /\ UNCHANGED <<Environment, loaded, touched, pending, found, sent, owners>>

\* A read that fails or times out ends the whole inventory.
ListFailed(c) ==
    /\ Awaiting(c, {"list"})
    /\ Return(c, "raised")
    /\ UNCHANGED <<Environment, loaded, touched, pending, ReadState>>

-----------------------------------------------------------------------------
(* trigger_now. *)

\* The sources asked so far that did hold the id.
Asked(c) == IF cmd[c].id \in holds[at[c]] THEN owners[c] \cup {at[c]} ELSE owners[c]

\* get_schedule() asks one source.
GetRead(c) ==
    /\ Awaiting(c, {"trigger"})
    /\ owners' = [owners EXCEPT ![c] = Asked(c)]
    /\ IF cmd[c].id \in Reported(at[c])
       THEN /\ found' = [found EXCEPT ![c] = at[c]]
            /\ phase' = [phase EXCEPT ![c] = "found"]
            /\ UNCHANGED <<at, result>>
       ELSE GoOn(c) /\ UNCHANGED found
    /\ UNCHANGED <<Environment, loaded, touched, pending, sent, listed>>

\* Mutant: a source that cannot be read is taken not to have the schedule.
GetFailedGoingOn(c) ==
    /\ Awaiting(c, {"trigger"})
    /\ owners' = [owners EXCEPT ![c] = Asked(c)]
    /\ GoOn(c)
    /\ UNCHANGED <<Environment, loaded, touched, pending, found, sent, listed>>

\* A read that fails or times out is not absence: nothing is fired.
GetFailed(c) ==
    /\ Awaiting(c, {"trigger"})
    /\ owners' = [owners EXCEPT ![c] = Asked(c)]
    /\ Return(c, "failed")
    /\ UNCHANGED <<Environment, loaded, touched, pending, found, sent, listed>>

\* send_task is offloaded, if there is an app to send with.
Send(c) ==
    /\ phase[c] = "found"
    /\ IF app
       THEN phase' = [phase EXCEPT ![c] = "sending"] /\ UNCHANGED <<at, result>>
       ELSE Return(c, "failed")
    /\ UNCHANGED <<Environment, loaded, touched, pending, ReadState>>

\* The broker takes the message; send_task returns, or raises because the
\* acknowledgement is what got lost.
Published(c) ==
    /\ phase[c] = "sending"
    /\ sent' = [sent EXCEPT ![c] = 1]
    /\ \E r \in {"success", "failed"} : Return(c, r)
    /\ UNCHANGED <<Environment, loaded, touched, pending, found, listed, owners>>

NotPublished(c) ==
    /\ phase[c] = "sending"
    /\ Return(c, "failed")
    /\ UNCHANGED <<Environment, loaded, touched, pending, ReadState>>

\* Mutant: a publish that timed out is a publish that failed.
SendTimedOutAsFailure(c) ==
    /\ phase[c] = "sending"
    /\ pending' = [pending EXCEPT ![c] = @ \cup {0}]
    /\ Return(c, "failed")
    /\ UNCHANGED <<Environment, loaded, touched, ReadState>>

\* The publish outlived its timeout.  0 stands for the broker.
SendTimedOut(c) ==
    /\ phase[c] = "sending"
    /\ pending' = [pending EXCEPT ![c] = @ \cup {0}]
    /\ Return(c, "indeterminate")
    /\ UNCHANGED <<Environment, loaded, touched, ReadState>>

PublishLate(c) ==
    /\ 0 \in pending[c]
    /\ sent' = [sent EXCEPT ![c] = 1]
    /\ UNCHANGED <<Environment, loaded, phase, at, result, touched, pending,
                   found, listed, owners>>

-----------------------------------------------------------------------------
(* capabilities(), and the world around the adapter. *)

DcbSources == {i \in Sources : Kind[i] = "dcb"}

\* any() stops at the first database source that is available.
FirstAvailable ==
    {i \in DcbSources : /\ Available(i)
                        /\ \A j \in DcbSources : j < i => ~Available(j)}

\* What holds at the moment of asking; a custom source may or may not say that
\* it takes edits.
Advertise ==
    /\ \E custom \in BOOLEAN :
          /\ custom => \E i \in Sources : Kind[i] = "custom"
          /\ advertised' = advertised \cup
                 {x \in {"trigger_now", "write", "external", "stable"} :
                     \/ x = "trigger_now" /\ app
                     \/ x = "write" /\ (custom \/ FirstAvailable # {})
                     \/ x = "external" /\ FirstAvailable # {}
                     \/ x = "stable" /\ N > 0 /\ \A i \in Sources : Kind[i] # "custom"}
    /\ Ask(FirstAvailable)
    /\ UNCHANGED <<django, holds, app, cmd, since, adapter>>

\* Django is set up, or stops being importable.
DjangoChanges ==
    /\ ColdStart
    /\ django' = ~django
    /\ UNCHANGED <<loaded, holds, app, advertised, cmd, since, adapter>>

\* Schedules are added and removed behind the adapter's back.
Added(i, x) ==
    /\ x \notin holds[i]
    /\ holds' = [holds EXCEPT ![i] = @ \cup {x}]
    /\ UNCHANGED <<django, loaded, app, advertised, cmd, since, adapter>>

Removed(i, x) ==
    /\ x \in holds[i]
    /\ holds' = [holds EXCEPT ![i] = @ \ {x}]
    /\ since' = [c \in Commands |-> since[c] \ {<<i, x>>}]
    /\ UNCHANGED <<django, loaded, app, advertised, cmd, adapter>>

Step(c) ==
    \/ Start(c) \/ Offer(c) \/ OfferExternal(c) \/ OfferRead(c)
    \/ Accepted(c) \/ NotImplemented(c) \/ Refused(c) \/ Failed(c) \/ TimedOut(c)
    \/ Exhausted(c) \/ ListRead(c) \/ ListFailed(c) \/ GetRead(c) \/ GetFailed(c)
    \/ Send(c) \/ Published(c) \/ NotPublished(c) \/ SendTimedOut(c)

Next ==
    \/ \E c \in Commands : Step(c) \/ LandLate(c) \/ PublishLate(c)
    \/ Advertise \/ DjangoChanges
    \/ \E i \in Sources, x \in Ids : Added(i, x) \/ Removed(i, x)

Spec == Init /\ [][Next]_vars

-----------------------------------------------------------------------------
(* Properties. *)

\* One command changes at most one source, also when the source it was offered
\* to first timed out and applies it later.
AtMostOneSource ==
    \A c \in Commands : Cardinality(touched[c] \cup (pending[c] \ {0})) <= 1

\* What a command returns covers what it did to the sources, and what it may
\* still do to them or publish.  A definite failure means that no source was
\* changed, none may still be, and no publish is on its way (one whose
\* acknowledgement got lost may have happened); success means that the change or
\* the publish has happened.
AnswersCoverEffects ==
    \A c \in Commands :
        /\ result[c] \in {"failed", "NotFoundError"} => touched[c] = {} /\ pending[c] = {}
        /\ result[c] = "success" =>
               /\ pending[c] = {}
               /\ \/ touched[c] = {at[c]}
                  \/ cmd[c].op = "delete"
                  \/ cmd[c].op = "trigger" /\ sent[c] = 1

\* trigger_now never fires a schedule of one source while a source of higher
\* priority had the id when it was asked: an unreadable source is not absence.
FiresTheOwner ==
    \A c \in Commands : sent[c] = 1 => \A i \in owners[c] : i >= found[c]

\* An inventory that is returned misses nothing that was there all along, so a
\* reconciler that deletes what it does not list deletes nothing that exists.
InventoryComplete ==
    \A c \in Commands : result[c] = "inventory" =>
        \A e \in since[c] : e[2] \in listed[c]

\* Once compare-and-set edits have been advertised, no such edit is turned away
\* for want of a source.
AdvertisedIsKept ==
    [][\A c \in Commands :
          "external" \in advertised /\ cmd[c].op = "external" =>
              result'[c] # "NotFoundError" \/ result[c] = "NotFoundError"]_vars
==============================================================================
