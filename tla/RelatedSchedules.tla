--------------------------- MODULE RelatedSchedules ---------------------------
(***************************************************************************)
(* src/z4j_celerybeat/sources/dcb.py, the schedule side of its writes: a   *)
(* task's schedule is a row of its own, shared by every task that happens  *)
(* to have the same one, and found or made by get_or_create().  Together   *)
(* with mapper.py, which reads the rows back, and with the static source,  *)
(* which shares the space of schedule ids.                                 *)
(*                                                                         *)
(* A session is the function of one create or update; PeriodicTaskStore    *)
(* has its waiting, its timeouts and the other columns.  A native session  *)
(* runs in one transaction, a plain one commits statement by statement.    *)
(* The administration site edits tasks and the shared rows meanwhile.      *)
(***************************************************************************)
EXTENDS ScheduleMapper, FiniteSets

CONSTANTS Sessions, Pks,
          Rids,       \* keys of the related rows
          Texts,      \* task names
          ArgTexts,   \* the args column
          Values,     \* what a related row may be edited to
          MaxEvery,   \* the largest number an interval row can hold
          Tasks,      \* the task table at the start
          Related,    \* the related rows at the start
          Entries,    \* beat_schedule
          Requests,   \* what the sessions may be asked to do
          MaxEdits,   \* bound on the administration site's steps
          FiveFields, \* expressions of five fields
          Timestamps, \* expressions that parse as a time with an offset
          Naive,      \* a time without one
          Empty,      \* the expression of no characters
          EveryMinute,\* "* * * * *"
          Canonical,  \* the text such an expression is read back as
          RoundedQueries, \* whether the database rounds what a query looks for
          NoId,       \* a foreign key that is null
          Site,       \* who made the rows that are there at the start
          NoSession   \* who made a row that never was

NativeOps == {"mutate_create", "mutate_update"}
Creations  == {"create", "mutate_create"}
Attrs      == {"interval", "crontab", "clocked", "solar"}
Kinds      == {"interval", "cron", "clocked", "solar"}

\* The fields of a native definition that are taken.
Allowed == {"name", "kind", "expression", "timezone", "args"}

ASSUME RelatedAssumption ==
    /\ {Site, NoSession} \cap Sessions = {}
    /\ Site # NoSession
    /\ NoId \notin Rids
    /\ DOMAIN Related = Rids
    /\ DOMAIN Tasks = Pks
    /\ \A p \in Pks : Tasks[p] # NoRow =>
          \A a \in Attrs :
              /\ a \in DOMAIN Tasks[p]
              /\ Tasks[p][a] # NoId =>
                     /\ Tasks[p][a] \in Rids
                     /\ Related[Tasks[p][a]] # NoRow
                     /\ Related[Tasks[p][a]].attr = a
    /\ MaxEdits \in Nat
    /\ \A r \in Requests :
          /\ r.op \in Creations \cup {"update", "mutate_update"}
          /\ r.op \notin Creations => r.pk \in Pks

\* A row of one of the four schedule tables, with its table's columns.
WellFormed(row) ==
    CASE row.attr = "interval" -> row = [attr |-> "interval", every |-> row.every, period |-> row.period]
      [] row.attr = "crontab"  -> row = [attr |-> "crontab", fields |-> row.fields, timezone |-> row.timezone]
      [] row.attr = "clocked"  -> row = [attr |-> "clocked", time |-> row.time]
      [] row.attr = "solar"    ->
            /\ row = [attr |-> "solar", event |-> row.event, place |-> row.place]
            /\ row.place \in Int /\ row.place % Microdegree = 0
      [] OTHER                 -> FALSE

\* A task has one schedule at most, which django-celery-beat sees to.
\* beat_schedule is a dict.  Arguments are sent as lists, which json.dumps() turns
\* into text that reads back as the same list.
ASSUME TablesAssumption ==
    /\ \A r \in Rids : Related[r] # NoRow => WellFormed(Related[r])
    /\ \A v \in Values : WellFormed(v)
    /\ \A p \in Pks : Tasks[p] # NoRow =>
          \A a, b \in Attrs : Tasks[p][a] # NoId /\ Tasks[p][b] # NoId => a = b
    /\ \A e, f \in Entries : e.name = f.name => e = f
    /\ \A r \in Requests :
          /\ r.op # "mutate_update" => {"kind", "args"} \subseteq DOMAIN r.changes
          /\ "kind" \in DOMAIN r.changes => r.changes.kind \in Kinds \cup {"other"}
          /\ "args" \in DOMAIN r.changes => ParseJsonField(r.changes.args) = r.changes.args

\* Five fields are read back with one blank between them, a time in UTC; what is
\* read back reads as itself.
ASSUME TextAssumption ==
    /\ Canonical \in [FiveFields \cup Timestamps -> FiveFields \cup Timestamps]
    /\ \A e \in FiveFields : Canonical[e] \in FiveFields
    /\ \A e \in Timestamps : Canonical[e] \in Timestamps
    /\ \A e \in DOMAIN Canonical : Canonical[Canonical[e]] = Canonical[e]
    /\ EveryMinute \in FiveFields
    /\ Canonical[EveryMinute] = EveryMinute
    /\ Empty \notin FiveFields \cup Timestamps \cup Int
    /\ Naive \notin Timestamps
    /\ RoundedQueries \in BOOLEAN

VARIABLES tasks,     \* per primary key: the task row
          related,   \* per key: the related row, committed or not
          maker,     \* per key: who inserted it; keys are not used again
          hidden,    \* rows of transactions that are not committed
          req,       \* per session: its request
          pc,        \* per session: its next statement
          seen,      \* per session: the task its caller knows, with its schedule row
          spec,      \* per session: the Schedule it is to write
          fk,        \* per session: the related row it found or made
          verdict,   \* per session: how its function ended
          disturbed, \* sessions during which a shared row was edited in place
          edits      \* steps the administration site has made

vars == <<tasks, related, maker, hidden, req, pc, seen, spec, fk, verdict, disturbed, edits>>

Steps    == {"idle", "begin", "build", "insert", "save", "done"}
Refusals == {"NotFoundError", "ConflictError", "ValueError", "MultipleObjectsReturned"}
Verdicts == {"none", "ok", "raised"} \cup Refusals

Exists(p)    == tasks[p] # NoRow
Named(n)     == {p \in Pks : Exists(p) /\ tasks[p].name = n}
Committed    == {r \in Rids : related[r] # NoRow /\ r \notin hidden}
IsNative(s)  == req[s].op \in NativeOps
Mine(s)      == {r \in hidden : maker[r] = s}

\* A native update holds the row lock from its comparison to its end.
Locked(p) == \E s \in Sessions : /\ req[s].op = "mutate_update"
                                 /\ req[s].pk = p
                                 /\ pc[s] \in {"build", "insert", "save"}

\* What a task comes to: its own columns and the rows it points to.
Joined(p) == [task |-> tasks[p], rows |-> [a \in Attrs |->
                 IF Exists(p) /\ tasks[p][a] # NoId THEN related[tasks[p][a]] ELSE NoRow]]

TypeOK ==
    /\ \A p \in Pks : Exists(p) =>
          \A a \in Attrs : tasks[p][a] # NoId =>
              tasks[p][a] \in Committed /\ related[tasks[p][a]].attr = a
    /\ hidden  \subseteq {r \in Rids : related[r] # NoRow /\ maker[r] \in Sessions}
    /\ req     \in [Sessions -> Requests]
    /\ pc      \in [Sessions -> Steps]
    /\ fk      \in [Sessions -> Rids \cup {NoId}]
    /\ verdict \in [Sessions -> Verdicts]
    /\ edits   \in 0..MaxEdits

Init ==
    /\ tasks     = Tasks
    /\ related   = Related
    /\ maker     = [r \in Rids |-> IF Related[r] = NoRow THEN NoSession ELSE Site]
    /\ hidden    = {}
    /\ req       \in [Sessions -> Requests]
    /\ pc        = [s \in Sessions |-> "idle"]
    /\ seen      = [s \in Sessions |-> NoRow]
    /\ spec      = [s \in Sessions |-> NoRow]
    /\ fk        = [s \in Sessions |-> NoId]
    /\ verdict   = [s \in Sessions |-> "none"]
    /\ disturbed = {}
    /\ edits     = 0

-----------------------------------------------------------------------------
(* Reading: the two sources' list_schedules() and get_schedule().            *)

Mapped(p) == MapPeriodicTask(p, Joined(p))

DcbList    == {Mapped(p) : p \in {q \in Pks : Exists(q)}}
StaticList == {MapStaticEntry(e) : e \in Entries}

\* The inventory; a name that an earlier source had is not listed again.
Inventory == LET rows == DcbList
             IN  rows \cup {e \in StaticList : \A d \in rows : d.name # e.name}

\* Mutant: any text is tried as a task's name.
DcbGetByName(id) ==
    IF Named(id) # {} THEN {Mapped(p) : p \in Named(id)}
    ELSE {Mapped(p) : p \in {q \in Pks : Exists(q) /\ id.scheme # "static" /\ id.of = q}}

DcbGet(id) ==
    IF id.scheme = "static" THEN {}
    ELSE IF id.scheme = "bare" /\ Named(id) # {} THEN {Mapped(p) : p \in Named(id)}
    ELSE {Mapped(p) : p \in {q \in Pks : Exists(q) /\ id.of = q}}

StaticGet(id) ==
    IF id.scheme = "dcb" THEN {}
    ELSE {e \in StaticList : id = e.external_id \/ (id.scheme # "static" /\ id = e.name)}

Get(id) == LET found == DcbGet(id) IN IF found # {} THEN found ELSE StaticGet(id)

-----------------------------------------------------------------------------
(* Writing. *)

\* The function ends with what it has written; a native session's transaction
\* commits.
Commit(s, v) ==
    /\ pc'      = [pc      EXCEPT ![s] = "done"]
    /\ verdict' = [verdict EXCEPT ![s] = v]
    /\ hidden'  = hidden \ Mine(s)
    /\ UNCHANGED related

\* Mutant: the schedule row is inserted outside the transaction.
EndKeeping(s, v) == Commit(s, v)

\* The function is refused or fails; a native session's transaction rolls back.
End(s, v) ==
    /\ pc'      = [pc      EXCEPT ![s] = "done"]
    /\ verdict' = [verdict EXCEPT ![s] = v]
    /\ hidden'  = hidden \ Mine(s)
    /\ related' = [r \in Rids |-> IF r \in Mine(s) THEN NoRow ELSE related[r]]

Goto(s, step) ==
    /\ pc' = [pc EXCEPT ![s] = step]
    /\ UNCHANGED <<verdict, hidden, related>>

\* A caller makes its request; for a compare-and-set edit it names the task as
\* it has last seen it.
Start(s) ==
    /\ pc[s] = "idle"
    /\ req[s].op = "mutate_update" => Exists(req[s].pk)
    /\ seen' = [seen EXCEPT ![s] = IF req[s].op = "mutate_update" THEN Joined(req[s].pk) ELSE @]
    /\ Goto(s, "begin")
    /\ UNCHANGED <<tasks, maker, req, spec, fk, disturbed, edits>>

\* The fields a native edit does not name keep their value.
Patched(prior, changes) ==
    [f \in {"name", "kind", "expression", "timezone", "args", "place"} |->
        IF f \in DOMAIN changes THEN changes[f] ELSE prior[f]]

Blank == [place |-> NoPlace]

Unsupported(s) == IsNative(s) /\ ~(DOMAIN req[s].changes \subseteq Allowed)

\* A native command with other fields is refused.  A creation checks the name; an
\* update reads the task; a native update locks it and compares it with what the
\* caller saw.
Begin(s) ==
    /\ pc[s] = "begin"
    /\ LET r == req[s] IN
       \/ Unsupported(s) /\ End(s, "ValueError") /\ UNCHANGED spec
       \/ /\ r.op \in Creations /\ ~Unsupported(s)
          /\ IF Named(r.changes.name) = {}
             THEN Goto(s, "build") ELSE End(s, "ConflictError")
          /\ spec' = [spec EXCEPT ![s] = Patched(Blank, r.changes)]
       \/ /\ r.op = "update"
          /\ IF Exists(r.pk) THEN Goto(s, "build") ELSE End(s, "NotFoundError")
          /\ spec' = [spec EXCEPT ![s] = Patched(Blank, r.changes)]
       \/ /\ r.op = "mutate_update" /\ ~Unsupported(s)
          /\ ~Locked(r.pk)
          /\ \/ /\ Exists(r.pk) /\ Mapped(r.pk) = MapPeriodicTask(r.pk, seen[s])
                /\ Goto(s, "build")
                /\ spec' = [spec EXCEPT ![s] = Patched(Mapped(r.pk), r.changes)]
             \/ /\ Exists(r.pk) /\ Mapped(r.pk) # MapPeriodicTask(r.pk, seen[s])
                /\ End(s, "ConflictError") /\ UNCHANGED spec
             \/ ~Exists(r.pk) /\ End(s, "NotFoundError") /\ UNCHANGED spec
    /\ UNCHANGED <<tasks, maker, req, seen, fk, disturbed, edits>>

\* An empty cron expression stands for every minute.
CronText(d) == IF d.expression = Empty THEN EveryMinute ELSE d.expression

\* Coordinates are kept with six decimals.
Rounded(at) == ((at + 1) \div Microdegree) * Microdegree

\* Why a schedule cannot be written: "none" if it can.  A native edit may name
\* a new kind and leave the old kind's expression in place.
Rejection(d) ==
    CASE d.kind = "interval" /\ d.expression = Empty     -> "ValueError"
      [] d.kind = "interval" /\ d.expression \notin Int \cup {Empty} -> "raised"
      [] d.kind = "interval" /\ d.expression \in Int
         /\ (d.expression <= 0 \/ d.expression % Microsecond # 0)    -> "ValueError"
      [] d.kind = "cron" /\ CronText(d) \notin FiveFields -> "ValueError"
      [] d.kind = "clocked" /\ d.expression = Naive      -> "ValueError"
      [] d.kind = "clocked" /\ d.expression \notin Timestamps \cup {Naive} -> "NotFoundError"
      [] d.kind = "solar" /\ d.place = NoPlace           -> "ValueError"
      [] d.kind = "solar" /\ d.place \notin Int \cup {NoPlace} -> "raised"
      [] d.kind = "other"                                -> "NotFoundError"
      [] OTHER                                           -> "none"

\* Mutant: every interval is stored in seconds.
RowForSeconds(d) ==
    CASE d.kind = "interval" ->
           [attr |-> "interval", every |-> d.expression \div Second, period |-> "seconds"]
      [] d.kind = "cron"    ->
           [attr |-> "crontab", fields |-> Canonical[CronText(d)], timezone |-> d.timezone]
      [] d.kind = "clocked" -> [attr |-> "clocked", time |-> Canonical[d.expression]]
      [] d.kind = "solar"   -> [attr |-> "solar", event |-> d.expression, place |-> Rounded(d.place)]

\* The schedule row that says what d says, as it is stored.
RowFor(d) ==
    CASE d.kind = "interval" ->
           IF d.expression % Second = 0
           THEN [attr |-> "interval", every |-> d.expression \div Second, period |-> "seconds"]
           ELSE [attr |-> "interval", every |-> d.expression \div Microsecond, period |-> "microseconds"]
      [] d.kind = "cron"    ->
           [attr |-> "crontab", fields |-> Canonical[CronText(d)], timezone |-> d.timezone]
      [] d.kind = "clocked" -> [attr |-> "clocked", time |-> Canonical[d.expression]]
      [] d.kind = "solar"   -> [attr |-> "solar", event |-> d.expression, place |-> Rounded(d.place)]

\* Whether a query for d can find that row: a coordinate that is finer than the
\* table's equals none of its rows, unless the query rounds it too.
Findable(d) == d.kind = "solar" => RoundedQueries \/ d.place % Microdegree = 0

\* The rows a session's query finds.
Matches(s) == {r \in Committed \cup Mine(s) :
                  Findable(spec[s]) /\ related[r] = RowFor(spec[s])}

Fetch(s, r) == fk' = [fk EXCEPT ![s] = r] /\ Goto(s, "save")

\* The expression is parsed; then get_or_create() looks for the row.
Lookup(s) ==
    /\ pc[s] = "build"
    /\ \/ /\ Rejection(spec[s]) # "none"
          /\ End(s, Rejection(spec[s])) /\ UNCHANGED fk
       \/ /\ Rejection(spec[s]) = "none"
          /\ \/ \E r \in Matches(s) : Matches(s) = {r} /\ Fetch(s, r)
             \/ Matches(s) = {} /\ Goto(s, "insert") /\ UNCHANGED fk
             \/ /\ Cardinality(Matches(s)) > 1
                /\ End(s, "MultipleObjectsReturned") /\ UNCHANGED fk
    /\ UNCHANGED <<tasks, maker, req, seen, spec, disturbed, edits>>

TooLarge(row) == row.attr = "interval" /\ row.every > MaxEvery

\* Mutant: a task that has an interval gets the new one in its place.
InsertInPlace(s) ==
    /\ pc[s] = "insert"
    /\ LET row == RowFor(spec[s])
           old == IF req[s].op \in Creations \/ ~Exists(req[s].pk) THEN NoId ELSE tasks[req[s].pk][row.attr]
       IN IF old \in Committed
          THEN /\ related' = [related EXCEPT ![old] = row]
               /\ fk' = [fk EXCEPT ![s] = old]
               /\ pc' = [pc EXCEPT ![s] = "save"]
               /\ UNCHANGED <<verdict, hidden>>
          ELSE End(s, "raised") /\ UNCHANGED fk
    /\ UNCHANGED <<tasks, maker, req, seen, spec, disturbed, edits>>

\* The row was not there, so it is inserted.  Only solar rows are unique: there
\* the row inserted meanwhile is looked for once more, when its transaction has
\* ended.  A plain session's row lands by itself, and may land although it raises.
InsertRelated(s) ==
    /\ pc[s] = "insert"
    /\ LET row  == RowFor(spec[s])
           same == {r \in Rids : related[r] = row}
       IN \/ TooLarge(row) /\ End(s, "raised") /\ UNCHANGED <<maker, fk>>
          \/ /\ row.attr = "solar"
             /\ \E r \in same \cap Committed :
                    \/ Findable(spec[s]) /\ Fetch(s, r)
                    \/ ~Findable(spec[s]) /\ End(s, "raised") /\ UNCHANGED fk
             /\ UNCHANGED maker
          \/ /\ ~TooLarge(row)
             /\ row.attr = "solar" => same = {}
             /\ \E r \in Rids :
                   /\ maker[r] = NoSession
                   /\ related' = [related EXCEPT ![r] = row]
                   /\ maker'   = [maker   EXCEPT ![r] = s]
                   /\ hidden'  = IF IsNative(s) THEN hidden \cup {r} ELSE hidden
                   /\ fk'      = [fk EXCEPT ![s] = r]
             /\ \/ pc' = [pc EXCEPT ![s] = "save"] /\ UNCHANGED verdict
                \/ /\ ~IsNative(s)
                   /\ pc'      = [pc      EXCEPT ![s] = "done"]
                   /\ verdict' = [verdict EXCEPT ![s] = "raised"]
    /\ UNCHANGED <<tasks, req, seen, spec, disturbed, edits>>

\* Mutant: the keys of the old schedule are left in place.
WrittenOver(s, old) ==
    LET row == RowFor(spec[s])
    IN  [name |-> spec[s].name, args |-> spec[s].args, one_off |-> spec[s].kind = "clocked",
         interval |-> IF row.attr = "interval" THEN fk[s] ELSE IF old = NoRow THEN NoId ELSE old.interval,
         crontab  |-> IF row.attr = "crontab" THEN fk[s] ELSE NoId,
         clocked  |-> IF row.attr = "clocked" THEN fk[s] ELSE NoId,
         solar    |-> IF row.attr = "solar" THEN fk[s] ELSE NoId]

\* Mutant: every schedule row is attached as an interval.
WrittenAsInterval(s, old) ==
    [name |-> spec[s].name, args |-> spec[s].args, one_off |-> spec[s].kind = "clocked",
     interval |-> fk[s], crontab |-> NoId, clocked |-> NoId, solar |-> NoId]

\* The old schedule is detached, whatever its kind, and the new one attached.
Written(s, old) ==
    LET row == RowFor(spec[s])
    IN  [name |-> spec[s].name, args |-> spec[s].args, one_off |-> spec[s].kind = "clocked",
         interval |-> IF row.attr = "interval" THEN fk[s] ELSE NoId,
         crontab  |-> IF row.attr = "crontab" THEN fk[s] ELSE NoId,
         clocked  |-> IF row.attr = "clocked" THEN fk[s] ELSE NoId,
         solar    |-> IF row.attr = "solar" THEN fk[s] ELSE NoId]

\* The task row is inserted or saved; the database checks the name and the key.
\* What has landed may still be reported as an error: the answer to the statement,
\* or to the commit, is lost.
Save(s) ==
    /\ pc[s] = "save"
    /\ \E p \in IF req[s].op \in Creations
                THEN {q \in Pks : ~Exists(q)} ELSE {req[s].pk} :
          /\ req[s].op = "update" => ~Locked(p)
          /\ IF Named(spec[s].name) \subseteq {p} /\ fk[s] \in Committed \cup Mine(s)
             THEN /\ tasks' = [tasks EXCEPT ![p] = Written(s, tasks[p])]
                  /\ Commit(s, "ok") \/ Commit(s, "raised")
             ELSE End(s, "raised") /\ UNCHANGED tasks
    /\ UNCHANGED <<maker, req, seen, spec, fk, disturbed, edits>>

\* The database refuses or drops a statement.
DatabaseError(s) ==
    /\ pc[s] \in {"begin", "build", "insert", "save"}
    /\ End(s, "raised")
    /\ UNCHANGED <<tasks, maker, req, seen, spec, fk, disturbed, edits>>

-----------------------------------------------------------------------------
(* The administration site. *)

Edit == /\ edits < MaxEdits
        /\ edits' = edits + 1
        /\ UNCHANGED <<maker, hidden, req, pc, seen, spec, fk, verdict>>

Attached(task, r) == [a \in DOMAIN task |->
    IF a \in Attrs THEN (IF a = related[r].attr THEN r ELSE NoId) ELSE task[a]]

AdminSave(p) ==
    /\ Exists(p) /\ ~Locked(p)
    /\ \/ \E n \in Texts :
             Named(n) = {} /\ tasks' = [tasks EXCEPT ![p].name = n]
       \/ \E x \in ArgTexts : tasks' = [tasks EXCEPT ![p].args = x]
       \/ \E r \in Committed : tasks' = [tasks EXCEPT ![p] = Attached(@, r)]
    /\ Edit
    /\ UNCHANGED <<related, disturbed>>

AdminDelete(p) ==
    /\ Exists(p) /\ ~Locked(p)
    /\ tasks' = [tasks EXCEPT ![p] = NoRow]
    /\ Edit
    /\ UNCHANGED <<related, disturbed>>

Building == {s \in Sessions : pc[s] \in {"build", "insert", "save"}}

\* A shared row is edited in place, under every task that points to it.  The
\* solar table refuses a second row with the same columns.
AdminEditRelated(r) ==
    /\ r \in Committed
    /\ \E v \in Values :
          /\ v.attr = related[r].attr
          /\ v.attr = "solar" => \A q \in Rids \ {r} : related[q] # v
          /\ related' = [related EXCEPT ![r] = v]
    /\ disturbed' = disturbed \cup Building
    /\ Edit
    /\ UNCHANGED tasks

\* Deleting a shared row deletes the tasks that point to it.
AdminDeleteRelated(r) ==
    /\ r \in Committed
    /\ LET users == {p \in Pks : Exists(p) /\ \E a \in Attrs : tasks[p][a] = r}
       IN /\ \A p \in users : ~Locked(p)
          /\ tasks' = [p \in Pks |-> IF p \in users THEN NoRow ELSE tasks[p]]
    /\ related' = [related EXCEPT ![r] = NoRow]
    /\ Edit
    /\ UNCHANGED disturbed

-----------------------------------------------------------------------------

Session(s) ==
    \/ Start(s) \/ Begin(s) \/ Lookup(s) \/ InsertRelated(s) \/ Save(s) \/ DatabaseError(s)

Next ==
    \/ \E s \in Sessions : Session(s)
    \/ \E p \in Pks : AdminSave(p) \/ AdminDelete(p)
    \/ \E r \in Rids : AdminEditRelated(r) \/ AdminDeleteRelated(r)

Spec == Init /\ [][Next]_vars

-----------------------------------------------------------------------------
(* Properties. *)

\* A session's task is written, whatever its function reports.
Lands(s) == /\ pc[s] = "save" /\ pc'[s] = "done"
            /\ verdict'[s] = "ok" \/ tasks' # tasks

\* What others can read of the schedule tables.
Public == [r \in Rids |-> IF r \in hidden THEN NoRow ELSE related[r]]

\* Schedule rows are shared, so writing one task's schedule could change
\* another's: no step of a session does.
OthersKeepTheirSchedule ==
    [][\A s \in Sessions : pc'[s] # pc[s] =>
          \A p \in Pks : Exists(p) /\ p # req[s].pk => Joined(p)' = Joined(p)]_vars

\* Coordinates in the table that are nearer than half its last decimal.
Nearest(at, asked) ==
    /\ at % Microdegree = 0
    /\ 2 * (at - asked) < Microdegree /\ 2 * (asked - at) < Microdegree

\* The expression that stands for what was asked: an empty crontab is every
\* minute, five fields are the same whatever their blanks, a time is a moment.
Meant(d) == CASE d.kind = "cron"    -> Canonical[CronText(d)]
              [] d.kind = "clocked" -> Canonical[d.expression]
              [] OTHER              -> d.expression

\* What the mapper says of a task just written is what was asked for: an
\* interval to the microsecond, coordinates to the nearest millionth of a degree,
\* whatever schedule the task had before; and a clocked task is one-shot.  (A
\* shared row edited in place meanwhile is the administrator's business.)
WrittenIsRead ==
    [][\A s \in Sessions : Lands(s) /\ s \notin disturbed =>
          \E p \in IF req[s].op \in Creations THEN {q \in Pks : ~Exists(q)} ELSE {req[s].pk} :
              /\ tasks'[p] # NoRow
              /\ Mapped(p)'.name = spec[s].name
              /\ Mapped(p)'.kind = spec[s].kind
              /\ Mapped(p)'.expression = Meant(spec[s])
              /\ spec[s].kind = "cron" => Mapped(p)'.timezone = spec[s].timezone
              /\ spec[s].kind = "solar" => Nearest(Mapped(p)'.place, spec[s].place)
              /\ Mapped(p)'.args = spec[s].args
              /\ tasks'[p].one_off = (spec[s].kind = "clocked")]_vars

\* A native edit lands only on a task whose every column, and whose schedule
\* row, is what the caller saw, although the comparison sees parsed values and
\* a digest only; shared rows edited in place after the comparison excepted.
CasSeesNativeColumns ==
    [][\A s \in Sessions : Lands(s) /\ req[s].op = "mutate_update" /\ s \notin disturbed =>
          Joined(req[s].pk) = seen[s]]_vars

\* The same without the exception: "so a compare-and-set cannot silently
\* overwrite an intervening admin edit" (mapper.py:60).
NoEditIsOverwritten ==
    [][\A s \in Sessions : Lands(s) /\ req[s].op = "mutate_update" =>
          Joined(req[s].pk) = seen[s]]_vars

\* A native command takes effect as a whole: until its last step nobody else can
\* see any of it; then the task and the schedule row it points to become visible
\* together, or nothing does.  Only "ok" and an unexpected error can mean the
\* former (the acknowledgement of a commit may be lost), a refusal never.
NativeIsAllOrNothing ==
    [][\A s \in Sessions : IsNative(s) /\ pc'[s] # pc[s] =>
          \/ UNCHANGED <<tasks, Public>>
          \/ /\ verdict'[s] \in {"ok", "raised"}
             /\ \E p \in Pks :
                   /\ tasks'[p] # NoRow /\ \E attr \in Attrs : tasks'[p][attr] = fk[s]
                   /\ \A q \in Pks \ {p} : tasks'[q] = tasks[q]
             /\ \A r \in Rids \ {fk[s]} : Public'[r] = Public[r]]_vars

\* "Create or fetch" (dcb.py:440): a schedule that can be written is never
\* turned away because its row is already there.
FetchOrCreate == \A s \in Sessions : verdict[s] # "MultipleObjectsReturned"

\* Every schedule of the inventory is found again by its id, and nothing else
\* is, also when a task or an entry is named like somebody's id.
ListedIsFound == \A x \in Inventory : Get(x.external_id) = {x}
==============================================================================
