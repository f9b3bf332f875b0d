-------------------------- MODULE PeriodicTaskStore --------------------------
(***************************************************************************)
(* src/z4j_celerybeat/sources/dcb.py: the operations of                    *)
(* DjangoCeleryBeatSource on django-celery-beat's PeriodicTask table, one  *)
(* action per database statement.                                          *)
(*                                                                         *)
(* A session is one offloaded call.  Its function runs on a pool thread    *)
(* and goes on after its coroutine has timed out; OffloadPool shows what   *)
(* may be relied on there, and only that is used here.  Several sessions,  *)
(* the administration site and the Beat process work on the table at once. *)
(* A statement that changes a row waits while another session's            *)
(* transaction has the row locked; plain reads do not wait (row-locking    *)
(* database, READ COMMITTED).                                              *)
(***************************************************************************)
EXTENDS Naturals

CONSTANTS Sessions,  \* calls of the source's operations; each is made once
          Pks,       \* primary keys
          Names,     \* values of the unique name column
          Defs,      \* the schedule and task columns, as one value
          Requests,  \* what the sessions may be asked to do
          Table,     \* the rows at the start
          AsPk,      \* the primary keys that names like "7" read as
          MaxRuns,   \* bound on Beat's run counter
          NoPk, NoName, NoRow, NoSession

Ops     == {"get", "create", "update", "delete", "set_enabled",
            "mutate_create", "mutate_update", "mutate_delete"}
Native  == {"mutate_create", "mutate_update", "mutate_delete"}

Configs == [name : Names, def : Defs, enabled : BOOLEAN]
Rows    == [config : Configs, runs : 0..MaxRuns]

\* A schedule id is an exact "dcb:<pk>" or a bare text; NoPk tells them apart.
\* "skip" is the overlap policy the table has no column for.
RequestType == [op : Ops, pk : Pks \cup {NoPk}, text : Names \cup {NoName},
                spec : Configs, overlap : {"allow", "skip"}, expected : Configs]

ASSUME StoreAssumption ==
    /\ MaxRuns \in Nat
    /\ NoPk \notin Pks
    /\ NoName \notin Names
    /\ NoRow \notin Rows
    /\ NoSession \notin Sessions
    /\ Requests \subseteq RequestType
    /\ \A r \in Requests : r.op = "create" => r.pk = NoPk
    /\ Table \in [Pks -> Rows \cup {NoRow}]
    /\ DOMAIN AsPk \subseteq Names
    /\ AsPk \in [DOMAIN AsPk -> Pks]

VARIABLES rows,    \* the committed table
          used,    \* primary keys handed out; never handed out again
          lock,    \* per row: the transaction that selected it FOR UPDATE
          req,     \* per session: its request
          pc,      \* per session: the next statement of its function
          target,  \* per session: the primary key it found
          seen,    \* per session: the row as it read it
          verdict, \* per session: how its function ended
          reply,   \* per session: what its coroutine was told
          landed   \* per session: whether it has committed a change

vars == <<rows, used, lock, req, pc, target, seen, verdict, reply, landed>>

Steps    == {"idle", "queued", "check", "insert", "resolve", "resolve_pk",
             "lock", "write", "done"}
Refusals == {"NotFoundError", "ConflictError", "refused", "failed", "missing"}
Verdicts == {"none", "ok", "raised"} \cup Refusals
Replies  == Verdicts \cup {"waiting", "indeterminate", "OffloadTimeoutError"}

TypeOK ==
    /\ rows    \in [Pks -> Rows \cup {NoRow}]
    /\ used    \in SUBSET Pks
    /\ lock    \in [Pks -> Sessions \cup {NoSession}]
    /\ req     \in [Sessions -> Requests]
    /\ pc      \in [Sessions -> Steps]
    /\ target  \in [Sessions -> Pks \cup {NoPk}]
    /\ seen    \in [Sessions -> Rows \cup {NoRow}]
    /\ verdict \in [Sessions -> Verdicts]
    /\ reply   \in [Sessions -> Replies]
    /\ landed  \in [Sessions -> BOOLEAN]

Exists(p)       == rows[p] # NoRow
Named(n)        == {p \in Pks : Exists(p) /\ rows[p].config.name = n}
NameFree(n, p)  == Named(n) \subseteq {p}
Available(p, s) == lock[p] \in {NoSession, s}

Init ==
    /\ rows    = Table
    /\ used    = {p \in Pks : Table[p] # NoRow}
    /\ lock    = [p \in Pks |-> NoSession]
    /\ req     \in [Sessions -> Requests]
    /\ pc      = [s \in Sessions |-> "idle"]
    /\ target  = [s \in Sessions |-> NoPk]
    /\ seen    = [s \in Sessions |-> NoRow]
    /\ verdict = [s \in Sessions |-> "none"]
    /\ reply   = [s \in Sessions |-> "none"]
    /\ landed  = [s \in Sessions |-> FALSE]

-----------------------------------------------------------------------------
(* The coroutine's side. *)

Submit(s) ==
    /\ pc[s] = "idle"
    /\ pc'    = [pc    EXCEPT ![s] = "queued"]
    /\ reply' = [reply EXCEPT ![s] = "waiting"]
    /\ UNCHANGED <<rows, used, lock, req, target, seen, verdict, landed>>

\* Mutant: a timeout is a definite failure, as it was before RM4.
TimedOutAsFailure(op) == IF op \in {"delete", "set_enabled"}
                         THEN "failed" ELSE "OffloadTimeoutError"

\* A timed-out toggle or delete is reported as indeterminate; the operations
\* that return a Schedule, and the native ones, let the timeout propagate.
TimedOut(op) == IF op \in {"delete", "set_enabled"}
                THEN "indeterminate" ELSE "OffloadTimeoutError"

\* A function still queued is cancelled; one that has started goes on.
TimeOut(s) ==
    /\ reply[s] = "waiting"
    /\ reply' = [reply EXCEPT ![s] = TimedOut(req[s].op)]
    /\ pc'    = [pc EXCEPT ![s] = IF @ = "queued" THEN "done" ELSE @]
    /\ UNCHANGED <<rows, used, lock, req, target, seen, verdict, landed>>

Deliver(s) ==
    /\ reply[s] = "waiting"
    /\ pc[s] = "done"
    /\ reply' = [reply EXCEPT ![s] = verdict[s]]
    /\ UNCHANGED <<rows, used, lock, req, pc, target, seen, verdict, landed>>

-----------------------------------------------------------------------------
(* The function's side. *)

\* Mutant: the transaction of a function that raises is left open.
ReleaseNothing(s) == UNCHANGED lock

\* The function ends; transaction.atomic() commits or rolls back, and either
\* way lets go of the row.
Release(s) == lock' = [p \in Pks |-> IF lock[p] = s THEN NoSession ELSE lock[p]]

End(s, v) ==
    /\ pc'      = [pc      EXCEPT ![s] = "done"]
    /\ verdict' = [verdict EXCEPT ![s] = v]
    /\ Release(s)

Goto(s, step) ==
    /\ pc' = [pc EXCEPT ![s] = step]
    /\ UNCHANGED <<lock, verdict>>

\* The checks made before the first statement.  A native creation must name no
\* row, a native edit an exact one; the native path builds its specification
\* from fields that leave the overlap policy at its default.  (A native command
\* with an unknown operation or field is refused here as well: RelatedSchedules.)
Begin(s) ==
    /\ pc[s] = "queued"
    /\ LET r == req[s] IN
       \/ /\ r.op \in {"create", "update"}
          /\ r.overlap = "skip"
          /\ End(s, "refused")
       \/ /\ \/ r.op = "mutate_create" /\ r.pk = NoPk
             \/ r.op = "create" /\ r.overlap = "allow"
          /\ Goto(s, "check")
       \/ /\ \/ r.op \in {"get", "delete", "set_enabled"}
             \/ r.op = "update" /\ r.overlap = "allow"
          /\ Goto(s, "resolve")
       \/ /\ r.op \in {"mutate_update", "mutate_delete"}
          /\ r.pk # NoPk
          /\ Goto(s, "lock")
       \/ /\ \/ r.op \in {"mutate_update", "mutate_delete"} /\ r.pk = NoPk
             \/ r.op = "mutate_create" /\ r.pk # NoPk
          /\ End(s, "refused")
    /\ target' = [target EXCEPT ![s] = req[s].pk]
    /\ UNCHANGED <<rows, used, req, seen, reply, landed>>

\* The row was found, and read.
Found(s, p) ==
    /\ target' = [target EXCEPT ![s] = p]
    /\ seen'   = [seen   EXCEPT ![s] = rows[p]]
    /\ CASE req[s].op = "get"         -> End(s, "ok")
         [] req[s].op = "set_enabled" -> Goto(s, "lock")
         [] OTHER                     -> Goto(s, "write")

\* It was not.  Deleting an exact identity that is gone counts as done.
Missing(s) ==
    /\ End(s, CASE req[s].op = "get"         -> "missing"
                [] req[s].op = "update"      -> "NotFoundError"
                [] req[s].op = "set_enabled" -> "failed"
                [] req[s].op = "delete"      -> IF req[s].pk # NoPk THEN "ok" ELSE "failed")
    /\ UNCHANGED <<target, seen>>

\* Mutant: any identity is tried as a name before it is taken as a key.
ResolveNameFirst(s) ==
    /\ pc[s] = "resolve"
    /\ LET hits == {p \in Pks : /\ Exists(p)
                                /\ rows[p].config.name \in DOMAIN AsPk
                                /\ AsPk[rows[p].config.name] = req[s].pk}
       IN IF hits # {} THEN \E p \in hits : Found(s, p)
          ELSE IF req[s].pk # NoPk /\ Exists(req[s].pk)
               THEN Found(s, req[s].pk) ELSE Missing(s)
    /\ UNCHANGED <<rows, used, req, reply, landed>>

\* An exact identity is looked up by primary key, a bare text by name first.
Resolve(s) ==
    /\ pc[s] = "resolve"
    /\ IF req[s].pk # NoPk
       THEN IF Exists(req[s].pk) THEN Found(s, req[s].pk) ELSE Missing(s)
       ELSE \/ \E p \in Named(req[s].text) : Found(s, p)
            \/ Named(req[s].text) = {} /\ Goto(s, "resolve_pk") /\ UNCHANGED <<target, seen>>
    /\ UNCHANGED <<rows, used, req, reply, landed>>

ResolvePk(s) ==
    /\ pc[s] = "resolve_pk"
    /\ LET n == req[s].text IN
       IF n \in DOMAIN AsPk /\ Exists(AsPk[n]) THEN Found(s, AsPk[n]) ELSE Missing(s)
    /\ UNCHANGED <<rows, used, req, reply, landed>>

\* Mutant: the row is read without FOR UPDATE.
ReadRow(s) ==
    /\ seen' = [seen EXCEPT ![s] = rows[target[s]]]
    /\ pc'   = [pc   EXCEPT ![s] = "write"]
    /\ UNCHANGED <<lock, verdict>>

\* Mutant: the row is locked, but an object that was read earlier is kept.
LockOnly(s) ==
    /\ lock' = [lock EXCEPT ![target[s]] = s]
    /\ seen' = [seen EXCEPT ![s] = IF @ = NoRow THEN rows[target[s]] ELSE @]
    /\ pc'   = [pc   EXCEPT ![s] = "write"]
    /\ UNCHANGED verdict

\* SELECT ... FOR UPDATE reads the row afresh once it is free.
LockRow(s) ==
    /\ lock' = [lock EXCEPT ![target[s]] = s]
    /\ seen' = [seen EXCEPT ![s] = rows[target[s]]]
    /\ pc'   = [pc   EXCEPT ![s] = "write"]
    /\ UNCHANGED verdict

\* The toggle locks the row it resolved; a row that went away in between is
\* an error the code does not expect.
LockToToggle(s) ==
    /\ pc[s] = "lock"
    /\ req[s].op = "set_enabled"
    /\ Available(target[s], s)
    /\ IF Exists(target[s])
       THEN LockRow(s)
       ELSE End(s, "raised") /\ UNCHANGED seen
    /\ UNCHANGED <<rows, used, req, target, reply, landed>>

\* Mutant: the row that is compared is not locked.
CompareOnly(s) ==
    /\ pc[s] = "lock"
    /\ req[s].op \in Native
    /\ IF Exists(target[s]) /\ rows[target[s]].config = req[s].expected
       THEN ReadRow(s) ELSE End(s, "ConflictError") /\ UNCHANGED seen
    /\ UNCHANGED <<rows, used, req, target, reply, landed>>

\* The native path compares the locked row with what its caller last saw.
LockToMutate(s) ==
    /\ pc[s] = "lock"
    /\ req[s].op \in Native
    /\ Available(target[s], s)
    /\ LET row == rows[target[s]] IN
       \/ Exists(target[s]) /\ row.config = req[s].expected /\ LockRow(s)
       \/ /\ Exists(target[s]) /\ row.config # req[s].expected
          /\ End(s, "ConflictError")
          /\ UNCHANGED seen
       \/ ~Exists(target[s]) /\ End(s, "NotFoundError") /\ UNCHANGED seen
    /\ UNCHANGED <<rows, used, req, target, reply, landed>>

\* A statement writes and commits a change.  What a transaction still does in
\* between (its schedule row, the row that tells Beat of a change), and may wait
\* for, is part of it.  The function then returns, or raises because the
\* acknowledgement is what got lost.
Commit(s) ==
    /\ landed' = [landed EXCEPT ![s] = TRUE]
    /\ \E v \in {"ok", "raised"} : End(s, v)
    /\ UNCHANGED <<req, target, seen, reply>>

\* exists(): the friendly check before the insert.
CheckName(s) ==
    /\ pc[s] = "check"
    /\ IF Named(req[s].spec.name) = {}
       THEN Goto(s, "insert")
       ELSE End(s, "ConflictError")
    /\ UNCHANGED <<rows, used, req, target, seen, reply, landed>>

\* objects.create(); the unique index has the last word.
Insert(s) ==
    /\ pc[s] = "insert"
    /\ Named(req[s].spec.name) = {}
    /\ \E p \in Pks \ used :
          /\ rows' = [rows EXCEPT ![p] = [config |-> req[s].spec, runs |-> 0]]
          /\ used' = used \cup {p}
    /\ Commit(s)

\* Mutant: saving a row counts as a run of its task.
WriteRowCounting(s) ==
    /\ pc[s] = "write"
    /\ req[s].op \in {"update", "mutate_update"}
    /\ Available(target[s], s)
    /\ NameFree(req[s].spec.name, target[s])
    /\ rows' = [rows EXCEPT ![target[s]] =
                  [config |-> req[s].spec, runs |-> seen[s].runs + 1]]
    /\ Commit(s)
    /\ UNCHANGED used

\* save() of every column: the new configuration beside whatever else the row
\* held when it was read.  If the row has gone, save() inserts it again.
WriteRow(s) ==
    /\ pc[s] = "write"
    /\ req[s].op \in {"update", "mutate_update"}
    /\ Available(target[s], s)
    /\ NameFree(req[s].spec.name, target[s])
    /\ rows' = [rows EXCEPT ![target[s]] = [config |-> req[s].spec, runs |-> seen[s].runs]]
    /\ Commit(s)
    /\ UNCHANGED used

\* save(update_fields=...) on the locked row.
WriteEnabled(s) ==
    /\ pc[s] = "write"
    /\ req[s].op = "set_enabled"
    /\ Available(target[s], s)
    /\ rows' = [rows EXCEPT ![target[s]].config.enabled = req[s].spec.enabled]
    /\ Commit(s)
    /\ UNCHANGED used

\* delete() of the row that was read, by its primary key; deleting nothing is
\* no error.
WriteDelete(s) ==
    /\ pc[s] = "write"
    /\ req[s].op \in {"delete", "mutate_delete"}
    /\ Available(target[s], s)
    /\ rows' = [rows EXCEPT ![target[s]] = NoRow]
    /\ Commit(s)
    /\ UNCHANGED used

\* The unique index rejects the name: IntegrityError, and a rollback.
NameClash(s) ==
    /\ \/ pc[s] = "insert" /\ Named(req[s].spec.name) # {}
       \/ /\ pc[s] = "write"
          /\ req[s].op \in {"update", "mutate_update"}
          /\ ~NameFree(req[s].spec.name, target[s])
    /\ End(s, "raised")
    /\ UNCHANGED <<rows, used, req, target, seen, reply, landed>>

\* The database refuses or drops a statement: nothing is committed and the
\* transaction is rolled back.
DatabaseError(s) ==
    /\ pc[s] \notin {"idle", "queued", "done"}
    /\ End(s, "raised")
    /\ UNCHANGED <<rows, used, req, target, seen, reply, landed>>

-----------------------------------------------------------------------------
(* The administration site and Beat, as far as the source meets them.      *)
(* Each saves a row in one step; both wait for a locked row.               *)

Unlocked(p) == Exists(p) /\ lock[p] = NoSession

AdminSave(p, c) ==
    /\ Unlocked(p)
    /\ NameFree(c.name, p)
    /\ rows' = [rows EXCEPT ![p].config = c]
    /\ UNCHANGED <<used, lock, req, pc, target, seen, verdict, reply, landed>>

AdminDelete(p) ==
    /\ Unlocked(p)
    /\ rows' = [rows EXCEPT ![p] = NoRow]
    /\ UNCHANGED <<used, lock, req, pc, target, seen, verdict, reply, landed>>

\* Beat records that it sent the task.
BeatTick(p) ==
    /\ Unlocked(p)
    /\ rows[p].config.enabled
    /\ rows[p].runs < MaxRuns
    /\ rows' = [rows EXCEPT ![p].runs = @ + 1]
    /\ UNCHANGED <<used, lock, req, pc, target, seen, verdict, reply, landed>>

-----------------------------------------------------------------------------

\* What the function goes on to do when the database answers.
Statement(s) ==
    \/ Begin(s)
    \/ Resolve(s) \/ ResolvePk(s) \/ CheckName(s) \/ Insert(s)
    \/ LockToToggle(s) \/ LockToMutate(s)
    \/ WriteRow(s) \/ WriteEnabled(s) \/ WriteDelete(s) \/ NameClash(s)

Session(s) == Submit(s) \/ TimeOut(s) \/ Deliver(s) \/ Statement(s) \/ DatabaseError(s)

Others(p) == (\E c \in Configs : AdminSave(p, c)) \/ AdminDelete(p) \/ BeatTick(p)

Next == (\E s \in Sessions : Session(s)) \/ (\E p \in Pks : Others(p))

\* Threads run what they were given, and a statement that can be executed is.
\* A statement that waits for a row is not helped along.
Fairness == \A s \in Sessions : WF_vars(Statement(s))

Spec     == Init /\ [][Next]_vars
FairSpec == Spec /\ Fairness

-----------------------------------------------------------------------------
(* Properties. *)

Lands(s) == landed'[s] # landed[s]

\* A definite answer is the truth and stays it: after a refusal or "failed"
\* nothing of the call is in the table, nor will be; "ok" means the change was
\* committed (a delete may have found nothing left to do).
AnswersAreFinal ==
    \A s \in Sessions :
        /\ reply[s] \in Refusals => ~landed[s]
        /\ reply[s] = "ok" => landed[s] \/ req[s].op \in {"get", "delete"}

\* A native update or delete takes effect only on a row that is, at that
\* moment, exactly what the caller last saw, whoever else writes meanwhile.
CasCommitsOnExpected ==
    [][\A s \in Sessions :
          Lands(s) /\ req[s].op \in {"mutate_update", "mutate_delete"} =>
              /\ Exists(req[s].pk)
              /\ rows[req[s].pk].config = req[s].expected]_vars

\* A toggle or a native update writes over the very row it read: no edit, no
\* run of Beat and no deletion falls between its read and its write.
NoLostUpdates ==
    [][\A s \in Sessions :
          Lands(s) /\ req[s].op \in {"set_enabled", "mutate_update", "mutate_delete"} =>
              Exists(target[s]) /\ seen[s] = rows[target[s]]]_vars

\* Only update_schedule, which saves every column of a row it did not lock, can
\* set Beat's run counter back or bring a deleted row back to life.
OnlyPlainUpdateUndoes ==
    [][\A p \in Pks :
          \/ Exists(p) /\ rows'[p] # NoRow /\ rows'[p].runs < rows[p].runs
          \/ ~Exists(p) /\ p \in used /\ rows'[p] # NoRow
          => \E s \in Sessions : Lands(s) /\ req[s].op = "update"]_vars

\* A command addressed to "dcb:<pk>" changes that row and no other, also when
\* another row's name reads as that number.
ExactIdentity ==
    [][\A s \in Sessions :
          Lands(s) /\ req[s].pk # NoPk =>
              \A p \in Pks \ {req[s].pk} : rows'[p] = rows[p]]_vars

\* No session waits for a row for ever: every lock that is taken is given back,
\* on the refusals and errors too.
EverySessionEnds == \A s \in Sessions : pc[s] = "queued" ~> pc[s] = "done"

-----------------------------------------------------------------------------
(* The operations as single steps. *)

Told(r) == CASE r \in {"none", "waiting"} -> "open"
             [] r = "ok"                  -> "ok"
             [] r \in Refusals            -> "no"
             [] OTHER                     -> "unknown"

answer == [s \in Sessions |-> Told(reply[s])]

Atomic == INSTANCE AtomicTable WITH
    Configs <- Configs, rows <- rows, used <- used, req <- req, answer <- answer, landed <- landed

\* Whatever the statements of concurrent sessions do in between, every behaviour
\* of the table is one of AtomicTable: each operation seems to take effect at
\* one moment, and its answer to be given when nothing can follow.
SeemsAtomic == Atomic!Spec
==============================================================================
