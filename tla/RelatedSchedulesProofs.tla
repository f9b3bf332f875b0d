------------------------ MODULE RelatedSchedulesProofs ------------------------
(***************************************************************************)
(* Proofs about RelatedSchedules, for any tables, requests and number of   *)
(* sessions.                                                               *)
(*                                                                         *)
(* A task points to rows that are committed, and a session's steps touch   *)
(* only rows that are not: the one it inserts, under a key that was never  *)
(* used (Unborn), and on a rollback its own (Keys).  A native session's    *)
(* row stays hidden until the session has ended (Own), which makes the     *)
(* command visible as a whole or not at all.                               *)
(*                                                                         *)
(* Each later section adds an invariant to that: what a compare-and-set    *)
(* edit saw stays there (CasInv), keys point to rows that are there and a  *)
(* transaction hides one row at most (KeysInv), and the row a session      *)
(* holds is the one it asked for (AtHand).                                 *)
(***************************************************************************)
EXTENDS RelatedSchedules, TLAPS

Shape ==
    /\ DOMAIN tasks = Pks
    /\ DOMAIN related = Rids
    /\ maker   \in [Rids -> Sessions \cup {Site, NoSession}]
    /\ hidden  \in SUBSET Rids
    /\ req     \in [Sessions -> Requests]
    /\ pc      \in [Sessions -> Steps]
    /\ verdict \in [Sessions -> Verdicts]

\* A session that is at work has not ended.
Undecided == \A s \in Sessions : pc[s] # "done" => verdict[s] = "none"

\* Under a key that was not used there is no row.
Unborn == \A r \in Rids : maker[r] = NoSession => related[r] = NoRow /\ r \notin hidden

\* What a native session has inserted is not seen before it ends.
Own == \A s \in Sessions, r \in Rids :
           IsNative(s) /\ verdict[s] = "none" /\ maker[r] = s => related[r] = NoRow \/ r \in hidden

\* A key that a task may point to.
Used(r) == r \in Rids /\ r \notin hidden /\ maker[r] # NoSession

Keys ==
    \A p \in Pks : Exists(p) =>
        \A a \in Attrs :
            /\ a \in DOMAIN tasks[p]
            /\ tasks[p][a] = NoId \/ Used(tasks[p][a])

RelatedInv == Shape /\ Undecided /\ Unborn /\ Own /\ Keys

\* The tables at the start.
LEMMA RelatedInit == Init => RelatedInv
<1> SUFFICES ASSUME Init PROVE RelatedInv
  OBVIOUS
<1>1. Shape BY RelatedAssumption DEF Init, Shape, Steps, Verdicts
<1>2. Unborn BY RelatedAssumption DEF Init, Unborn
<1>3. Own BY RelatedAssumption DEF Init, Own
<1>4. Keys
  <2>1. ASSUME NEW p \in Pks, Exists(p), NEW a \in Attrs
        PROVE  a \in DOMAIN tasks[p] /\ (tasks[p][a] = NoId \/ Used(tasks[p][a]))
    <3>1. a \in DOMAIN Tasks[p] /\ (Tasks[p][a] # NoId =>
              Tasks[p][a] \in Rids /\ Related[Tasks[p][a]] # NoRow)
      BY <2>1, RelatedAssumption DEF Init, Exists
    <3> QED BY <3>1, RelatedAssumption DEF Init, Used
  <2> QED BY <2>1 DEF Keys
<1> QED BY <1>1, <1>2, <1>3, <1>4 DEF Init, RelatedInv, Undecided

-----------------------------------------------------------------------------
(* The ways a session's step changes the tables. *)

\* A session ends without writing its task.
LEMMA EndKeeps ==
    ASSUME RelatedInv, NEW s \in Sessions, pc[s] # "done",
           NEW v \in Verdicts \ {"none"}, End(s, v), UNCHANGED <<tasks, maker, req>>
    PROVE  RelatedInv'
<1> USE DEF RelatedInv, Shape
<1>1. /\ pc' = [pc EXCEPT ![s] = "done"] /\ verdict' = [verdict EXCEPT ![s] = v]
      /\ hidden' = hidden \ Mine(s)
      /\ related' = [r \in Rids |-> IF r \in Mine(s) THEN NoRow ELSE related[r]]
  BY DEF End
<1>2. Shape' BY <1>1 DEF Steps
<1>3. Undecided' BY <1>1 DEF Undecided
<1>4. Unborn' BY <1>1 DEF Unborn
<1>5. Own'
  <2>1. ASSUME NEW t \in Sessions, NEW r \in Rids,
               IsNative(t)', verdict'[t] = "none", maker'[r] = t
        PROVE  related'[r] = NoRow \/ r \in hidden'
    <3>1. t # s /\ IsNative(t) /\ verdict[t] = "none" /\ maker[r] = t
      BY <1>1, <2>1 DEF IsNative
    <3>2. r \notin Mine(s) BY <3>1 DEF Mine
    <3> QED BY <1>1, <3>1, <3>2 DEF Own
  <2> QED BY <2>1 DEF Own
<1>6. Keys' BY <1>1 DEF Keys, Exists, Used
<1> QED BY <1>2, <1>3, <1>4, <1>5, <1>6

\* A session goes on to its next statement.
LEMMA GotoKeeps ==
    ASSUME RelatedInv, NEW s \in Sessions, pc[s] # "done",
           NEW step \in Steps \ {"done"}, Goto(s, step), UNCHANGED <<tasks, maker, req>>
    PROVE  RelatedInv'
<1>1. pc' = [pc EXCEPT ![s] = step] /\ UNCHANGED <<verdict, hidden, related, tasks, maker, req>>
  BY DEF Goto
<1>2. Shape' /\ Undecided' BY <1>1 DEF RelatedInv, Shape, Undecided
<1>3. Unborn' /\ Own' BY <1>1 DEF RelatedInv, Unborn, Own, IsNative
<1>4. Keys' BY <1>1 DEF RelatedInv, Keys, Exists, Used
<1> QED BY <1>2, <1>3, <1>4 DEF RelatedInv

\* A session inserts a schedule row under a fresh key, and goes on or, without a
\* transaction, fails.
LEMMA InsertKeeps ==
    ASSUME RelatedInv, NEW s \in Sessions, pc[s] = "insert", NEW r \in Rids, NEW row,
           maker[r] = NoSession,
           related' = [related EXCEPT ![r] = row],
           maker' = [maker EXCEPT ![r] = s],
           hidden' = IF IsNative(s) THEN hidden \cup {r} ELSE hidden,
           \/ pc' = [pc EXCEPT ![s] = "save"] /\ UNCHANGED verdict
           \/ /\ ~IsNative(s)
              /\ pc' = [pc EXCEPT ![s] = "done"] /\ verdict' = [verdict EXCEPT ![s] = "raised"],
           UNCHANGED <<tasks, req>>
    PROVE  RelatedInv'
<1> USE DEF RelatedInv, Shape
<1>1. NoSession # s BY RelatedAssumption
<1>2. Shape' BY DEF Steps, Verdicts
<1>3. Undecided' BY DEF Undecided
<1>4. Unborn' BY <1>1 DEF Unborn
<1>5. Own' BY DEF Own, IsNative
<1>6. \A q : Used(q) => Used(q)' BY DEF Used
<1>7. Keys' BY <1>6 DEF Keys, Exists
<1> QED BY <1>2, <1>3, <1>4, <1>5, <1>7

\* A session writes its task, with the row it found or made.
LEMMA WriteKeeps ==
    ASSUME RelatedInv, NEW s \in Sessions, pc[s] = "save", NEW p \in Pks,
           NEW key \in Committed \cup Mine(s), NEW task,
           \A a \in Attrs : a \in DOMAIN task /\ task[a] \in {NoId, key},
           tasks' = [tasks EXCEPT ![p] = task],
           NEW v \in {"ok", "raised"}, Commit(s, v), UNCHANGED <<maker, req>>
    PROVE  RelatedInv'
<1> USE DEF RelatedInv, Shape
<1>1. /\ pc' = [pc EXCEPT ![s] = "done"] /\ verdict' = [verdict EXCEPT ![s] = v]
      /\ hidden' = hidden \ Mine(s) /\ UNCHANGED related
  BY DEF Commit
<1>2. Shape' BY <1>1 DEF Steps, Verdicts
<1>3. Undecided' BY <1>1 DEF Undecided
<1>4. Unborn' BY <1>1 DEF Unborn
<1>5. Own' BY <1>1 DEF Own, IsNative, Mine
<1>7. \A r : Used(r) => Used(r)' BY <1>1 DEF Used
<1>8. Used(key)'
  <2>1. key \in Rids /\ key \notin hidden' BY <1>1 DEF Committed, Mine
  <2>2. maker[key] # NoSession BY RelatedAssumption DEF Committed, Mine, Unborn
  <2> QED BY <2>1, <2>2 DEF Used
<1>9. Keys' BY <1>7, <1>8 DEF Keys, Exists
<1> QED BY <1>2, <1>3, <1>4, <1>5, <1>9

-----------------------------------------------------------------------------
(* The actions. *)

\* What the look-up makes of a schedule that cannot be written.
LEMMA RejectionType == \A d : Rejection(d) \in Verdicts
BY DEF Rejection, Verdicts, Refusals

\* Every step of a session keeps the invariant.
LEMMA SessionKeeps == ASSUME RelatedInv, NEW s \in Sessions, Session(s) PROVE RelatedInv'
<1>1. CASE Start(s)
  <2>1. pc[s] # "done" /\ Goto(s, "begin") /\ UNCHANGED <<tasks, maker, req>>
    BY <1>1 DEF Start
  <2> QED BY <2>1, GotoKeeps DEF Steps
<1>2. CASE Begin(s)
  <2>1. pc[s] # "done" /\ UNCHANGED <<tasks, maker, req>> BY <1>2 DEF Begin
  <2>2. \/ Goto(s, "build") \/ \E v \in {"ConflictError", "NotFoundError", "ValueError"} : End(s, v)
    BY <1>2 DEF Begin
  <2> QED BY <2>1, <2>2, GotoKeeps, EndKeeps DEF Steps, Verdicts, Refusals
<1>3. CASE Lookup(s)
  <2>1. pc[s] # "done" /\ UNCHANGED <<tasks, maker, req>> BY <1>3 DEF Lookup
  <2>2. \/ \E step \in {"save", "insert"} : Goto(s, step)
        \/ \E v \in Verdicts \ {"none"} : End(s, v)
    BY <1>3, RejectionType DEF Lookup, Fetch, Verdicts, Refusals
  <2> QED BY <2>1, <2>2, GotoKeeps, EndKeeps DEF Steps
<1>4. CASE InsertRelated(s)
  <2> DEFINE row == RowFor(spec[s])
  <2>1. pc[s] = "insert" /\ UNCHANGED <<tasks, req>> BY <1>4 DEF InsertRelated
  <2>2. CASE End(s, "raised") /\ UNCHANGED maker
    BY <2>1, <2>2, EndKeeps DEF Verdicts
  <2>3. CASE Goto(s, "save") /\ UNCHANGED maker
    BY <2>1, <2>3, GotoKeeps DEF Steps
  <2>4. CASE /\ \E r \in Rids :
                   /\ maker[r] = NoSession
                   /\ related' = [related EXCEPT ![r] = row]
                   /\ maker'   = [maker   EXCEPT ![r] = s]
                   /\ hidden'  = IF IsNative(s) THEN hidden \cup {r} ELSE hidden
             /\ \/ pc' = [pc EXCEPT ![s] = "save"] /\ UNCHANGED verdict
                \/ /\ ~IsNative(s)
                   /\ pc' = [pc EXCEPT ![s] = "done"] /\ verdict' = [verdict EXCEPT ![s] = "raised"]
    BY <2>1, <2>4, InsertKeeps
  <2> QED BY <1>4, <2>2, <2>3, <2>4 DEF InsertRelated, Fetch
<1>5. CASE Save(s)
  <2>1. PICK p \in Pks :
            IF Named(spec[s].name) \subseteq {p} /\ fk[s] \in Committed \cup Mine(s)
            THEN /\ tasks' = [tasks EXCEPT ![p] = Written(s, tasks[p])]
                 /\ \E v \in {"ok", "raised"} : Commit(s, v)
            ELSE End(s, "raised") /\ UNCHANGED tasks
    <3>1. req[s].op \notin Creations => req[s].pk \in Pks
      BY RelatedAssumption DEF RelatedInv, Shape
    <3> QED BY <1>5, <3>1 DEF Save
  <2>2. pc[s] = "save" /\ UNCHANGED <<maker, req>> BY <1>5 DEF Save
  <2>3. \A a \in Attrs : /\ a \in DOMAIN Written(s, tasks[p])
                         /\ Written(s, tasks[p])[a] \in {NoId, fk[s]}
    BY DEF Written, Attrs
  <2> QED BY <2>1, <2>2, <2>3, WriteKeeps, EndKeeps DEF Verdicts
<1>6. CASE DatabaseError(s)
  <2>1. pc[s] # "done" /\ End(s, "raised") /\ UNCHANGED <<tasks, maker, req>>
    BY <1>6 DEF DatabaseError
  <2> QED BY <2>1, EndKeeps DEF Verdicts
<1> QED BY <1>1, <1>2, <1>3, <1>4, <1>5, <1>6 DEF Session

\* So does the administration site, which makes no keys and sees no hidden rows.
LEMMA AdminKeeps ==
    ASSUME RelatedInv,
           \/ \E p \in Pks : AdminSave(p) \/ AdminDelete(p)
           \/ \E r \in Rids : AdminEditRelated(r) \/ AdminDeleteRelated(r)
    PROVE  RelatedInv'
<1> USE DEF RelatedInv, Shape
<1>1. UNCHANGED <<maker, hidden, req, pc, verdict>>
  BY DEF AdminSave, AdminDelete, AdminEditRelated, AdminDeleteRelated, Edit
<1>2. \A r \in Committed : Used(r) BY DEF Committed, Used, Unborn
<1>3. /\ DOMAIN related' = Rids
      /\ \A r \in Rids : related[r] = NoRow => related'[r] = NoRow
  BY DEF AdminSave, AdminDelete, AdminEditRelated, AdminDeleteRelated, Committed
<1>4. \A r : Used(r)' <=> Used(r) BY <1>1 DEF Used
<1>5. DOMAIN tasks' = Pks /\ Keys'
  <2>1. CASE \E p \in Pks : AdminSave(p)
    <3>1. PICK p \in Pks : AdminSave(p) BY <2>1
    <3>2. CASE \E n \in Texts : tasks' = [tasks EXCEPT ![p].name = n]
      BY <1>4, <3>1, <3>2 DEF AdminSave, Keys, Exists, Attrs
    <3>3. CASE \E x \in ArgTexts : tasks' = [tasks EXCEPT ![p].args = x]
      BY <1>4, <3>1, <3>3 DEF AdminSave, Keys, Exists, Attrs
    <3>4. CASE \E r \in Committed : tasks' = [tasks EXCEPT ![p] = Attached(@, r)]
      <4>1. PICK r \in Committed : tasks' = [tasks EXCEPT ![p] = Attached(@, r)] BY <3>4
      <4>2. \A a \in Attrs : /\ a \in DOMAIN Attached(tasks[p], r)
                             /\ Attached(tasks[p], r)[a] \in {NoId, r}
        BY <3>1 DEF AdminSave, Keys, Attached
      <4> QED BY <1>2, <1>4, <4>1, <4>2 DEF Keys, Exists
    <3> QED BY <3>1, <3>2, <3>3, <3>4 DEF AdminSave
  <2>2. CASE \E p \in Pks : AdminDelete(p)
    BY <1>4, <2>2 DEF AdminDelete, Keys, Exists
  <2>3. CASE \E r \in Rids : AdminEditRelated(r)
    BY <1>4, <2>3 DEF AdminEditRelated, Keys, Exists
  <2>4. CASE \E r \in Rids : AdminDeleteRelated(r)
    BY <1>4, <2>4 DEF AdminDeleteRelated, Keys, Exists
  <2> QED BY <2>1, <2>2, <2>3, <2>4
<1>6. Shape' BY <1>1, <1>3, <1>5
<1>7. Undecided' BY <1>1 DEF Undecided
<1>8. Unborn' BY <1>1, <1>3 DEF Unborn
<1>9. Own' BY <1>1, <1>3 DEF Own, IsNative
<1> QED BY <1>5, <1>6, <1>7, <1>8, <1>9

\* Every step keeps the invariant.
LEMMA RelatedNext == RelatedInv /\ [Next]_vars => RelatedInv'
<1> SUFFICES ASSUME RelatedInv, [Next]_vars PROVE RelatedInv'
  OBVIOUS
<1>1. CASE UNCHANGED vars
  BY <1>1 DEF vars, RelatedInv, Shape, Undecided, Unborn, Own, Keys, Used, Exists, IsNative
<1> QED BY <1>1, SessionKeeps, AdminKeeps DEF Next

-----------------------------------------------------------------------------
(* Theorems. *)

\* What holds of the tables and the sessions in every reachable state.
THEOREM RelatedInvariant == Spec => []RelatedInv
BY RelatedInit, RelatedNext, PTL DEF Spec

\* A session that goes on has made the step.
LEMMA MoversStep ==
    ASSUME RelatedInv, [Next]_vars, NEW s \in Sessions, pc'[s] # pc[s] PROVE Session(s)
<1>1. PICK t \in Sessions : Session(t)
  BY DEF Next, vars, AdminSave, AdminDelete, AdminEditRelated, AdminDeleteRelated, Edit
<1>2. \A u \in Sessions \ {t} : pc'[u] = pc[u]
  BY <1>1 DEF RelatedInv, Shape, Session, Start, Begin, Lookup, InsertRelated, Save,
              DatabaseError, Fetch, Goto, End, Commit
<1> QED BY <1>1, <1>2

\* A row that a task points to is neither inserted nor rolled back by a
\* session's step.
LEMMA UsedRowsStay ==
    ASSUME RelatedInv, NEW s \in Sessions, Session(s), NEW r, Used(r)
    PROVE  related'[r] = related[r]
<1> USE DEF RelatedInv, Shape, Used
<1>1. CASE UNCHANGED related BY <1>1
<1>2. CASE \E v \in Verdicts : End(s, v) BY <1>2 DEF End, Mine
<1>3. CASE InsertRelated(s)
  BY <1>2, <1>3 DEF InsertRelated, Fetch, Goto, Verdicts
<1>4. CASE Lookup(s)
  BY <1>2, <1>4, RejectionType DEF Lookup, Fetch, Goto, Verdicts, Refusals
<1>5. CASE Begin(s) BY <1>2, <1>5 DEF Begin, Goto, Verdicts, Refusals
<1>6. CASE Save(s) BY <1>1, <1>2, <1>6 DEF Save, Commit, Verdicts
<1> QED BY <1>1, <1>2, <1>3, <1>4, <1>5, <1>6 DEF Session, Start, Goto, DatabaseError, Verdicts

\* Nobody but the session that writes a task changes what the task comes to,
\* although its schedule row is shared.
THEOREM SharedRowsAreLeftAlone == Spec => OthersKeepTheirSchedule
<1>1. ASSUME RelatedInv, [Next]_vars, NEW s \in Sessions, pc'[s] # pc[s],
             NEW p \in Pks, Exists(p), p # req[s].pk
      PROVE  Joined(p)' = Joined(p)
  <2>1. Session(s) BY <1>1, MoversStep
  <2>2. tasks'[p] = tasks[p]
    <3>1. CASE Save(s) BY <1>1, <3>1 DEF RelatedInv, Shape, Save
    <3> QED BY <2>1, <3>1 DEF Session, Start, Begin, Lookup, InsertRelated, DatabaseError
  <2>3. \A a \in Attrs : tasks[p][a] # NoId => related'[tasks[p][a]] = related[tasks[p][a]]
    BY <1>1, <2>1, UsedRowsStay DEF RelatedInv, Keys
  <2> QED BY <2>2, <2>3 DEF Joined, Exists
<1>2. RelatedInv /\ [Next]_vars =>
        [\A s \in Sessions : pc'[s] # pc[s] =>
            \A p \in Pks : Exists(p) /\ p # req[s].pk => Joined(p)' = Joined(p)]_vars
  BY <1>1
<1> QED BY RelatedInvariant, <1>2, PTL DEF Spec, OthersKeepTheirSchedule

-----------------------------------------------------------------------------
(* Compare and set.  The comparison sees a digest of the task's columns, the *)
(* columns of its interval, the coordinates of its solar event and the       *)
(* schedule as it is shown.  In well-formed tables that is everything        *)
(* (MappedDetermines); from then on the lock on the task keeps everybody     *)
(* from the task's columns and from deleting its schedule (Watched).         *)

\* Every schedule row has its table's columns, and a task points to one row of
\* the right table.
Formed == \A r \in Rids : related[r] # NoRow => WellFormed(related[r])

Typed ==
    \A p \in Pks : Exists(p) =>
        /\ \A a \in Attrs : tasks[p][a] # NoId /\ related[tasks[p][a]] # NoRow =>
               related[tasks[p][a]].attr = a
        /\ \A a, b \in Attrs : tasks[p][a] # NoId /\ tasks[p][b] # NoId => a = b

\* What a session has made ready to be written.
Ready(s) ==
    /\ pc[s] \in {"build", "insert", "save"} => spec[s].kind \in Kinds \cup {"other"}
    /\ pc[s] \in {"insert", "save"} => spec[s].kind \in Kinds /\ Rejection(spec[s]) = "none"
    /\ pc[s] = "save" =>
           /\ fk[s] \in Rids /\ maker[fk[s]] # NoSession
           /\ related[fk[s]] # NoRow => related[fk[s]].attr = RowFor(spec[s]).attr

\* A task as it is seen in well-formed tables.
Proper(j) ==
    /\ j = [task |-> j.task, rows |-> j.rows]
    /\ j.rows = [a \in Attrs |-> j.rows[a]]
    /\ \A a \in Attrs : j.task[a] = NoId => j.rows[a] = NoRow
    /\ \A a \in Attrs : j.rows[a] # NoRow => WellFormed(j.rows[a]) /\ j.rows[a].attr = a
    /\ \A a, b \in Attrs : j.rows[a] # NoRow /\ j.rows[b] # NoRow => a = b

\* A compare-and-set edit that has made its comparison.
Holding(s) == req[s].op = "mutate_update" /\ pc[s] \in {"build", "insert", "save"}

Known(s) == req[s].op = "mutate_update" /\ pc[s] # "idle" => Proper(seen[s])

Exclusive ==
    \A s, t \in Sessions : Holding(s) /\ Holding(t) /\ req[s].pk = req[t].pk => s = t

Watched(s) ==
    Holding(s) =>
        /\ Exists(req[s].pk)
        /\ s \notin disturbed => Joined(req[s].pk) = seen[s]

CasInv ==
    /\ DOMAIN spec = Sessions /\ DOMAIN seen = Sessions /\ DOMAIN fk = Sessions
    /\ Formed /\ Typed /\ Exclusive
    /\ \A s \in Sessions : Ready(s) /\ Known(s) /\ Watched(s)

\* It holds at the start, when no session is at work.
LEMMA CasInit == Init => CasInv
<1> SUFFICES ASSUME Init PROVE CasInv
  OBVIOUS
<1>1. Formed BY TablesAssumption DEF Init, Formed
<1>2. Typed BY RelatedAssumption, TablesAssumption DEF Init, Typed, Exists
<1> QED BY <1>1, <1>2 DEF Init, CasInv, Exclusive, Ready, Known, Watched, Holding

\* What is shown of a task determines it.
LEMMA MappedDetermines ==
    ASSUME NEW p, NEW j, NEW k, Proper(j), Proper(k),
           MapPeriodicTask(p, j) = MapPeriodicTask(p, k)
    PROVE  j = k
<1> DEFINE J == ResolveKindAndExpression(j.rows)
           K == ResolveKindAndExpression(k.rows)
<1>1. /\ j.task = k.task
      /\ IntervalColumns(j.rows) = IntervalColumns(k.rows)
      /\ Coordinates(j.rows) = Coordinates(k.rows)
      /\ J.kind = K.kind /\ J.expression = K.expression /\ J.timezone = K.timezone
  BY DEF MapPeriodicTask, Native
<1>2. ASSUME NEW a \in Attrs PROVE j.rows[a] = k.rows[a]
  <2>1. CASE j.task[a] = NoId BY <1>1, <2>1 DEF Proper
  <2>2. CASE j.rows[a] = NoRow /\ k.rows[a] = NoRow BY <2>2
  <2>3. CASE j.rows[a] # NoRow \/ k.rows[a] # NoRow
    <3>1. CASE a = "interval"
      BY <1>1, <2>3, <3>1 DEF Proper, IntervalColumns, WellFormed
    <3>2. CASE a = "crontab"
      BY <1>1, <2>3, <3>2 DEF Proper, ResolveKindAndExpression, WellFormed, Attrs
    <3>3. CASE a = "clocked"
      BY <1>1, <2>3, <3>3 DEF Proper, ResolveKindAndExpression, WellFormed, Attrs
    <3>4. CASE a = "solar"
      BY <1>1, <2>3, <3>4 DEF Proper, ResolveKindAndExpression, Coordinates, WellFormed, Attrs
    <3> QED BY <3>1, <3>2, <3>3, <3>4 DEF Attrs
  <2> QED BY <2>2, <2>3
<1> QED BY <1>1, <1>2 DEF Proper

\* A row of one of the four tables is a row.
LEMMA RowsAreRows == \A row : WellFormed(row) => row # NoRow
BY DEF WellFormed, NoRow

\* Every task is seen in well-formed tables.
LEMMA JoinedIsProper ==
    ASSUME RelatedInv, CasInv, NEW p \in Pks, Exists(p) PROVE Proper(Joined(p))
<1>1. \A a \in Attrs : tasks[p][a] # NoId => tasks[p][a] \in Rids
  BY DEF RelatedInv, Keys, Used
<1> QED BY <1>1 DEF CasInv, Formed, Typed, Joined, Proper

\* Rounding moves a coordinate by less than half the last decimal.
LEMMA RoundedIsNearest ==
    ASSUME NEW at \in Int
    PROVE  Rounded(at) \in Int /\ Nearest(Rounded(at), at)
BY DEF Rounded, Nearest, Microdegree

\* The row made for a schedule that can be written is well-formed.
LEMMA RowForIsWellFormed ==
    ASSUME NEW d, d.kind \in Kinds, Rejection(d) = "none"
    PROVE  WellFormed(RowFor(d)) /\ RowFor(d).attr \in Attrs
<1>1. CASE d.kind = "interval" BY <1>1 DEF RowFor, WellFormed, Attrs
<1>2. CASE d.kind = "cron" BY <1>2 DEF RowFor, WellFormed, Attrs
<1>3. CASE d.kind = "clocked" BY <1>3 DEF RowFor, WellFormed, Attrs
<1>4. CASE d.kind = "solar"
  <2>1. d.place \in Int BY <1>4 DEF Rejection
  <2>2. Rounded(d.place) \in Int /\ Rounded(d.place) % Microdegree = 0
    BY <2>1, RoundedIsNearest DEF Nearest
  <2>3. RowFor(d) = [attr |-> "solar", event |-> d.expression, place |-> Rounded(d.place)]
    BY <1>4 DEF RowFor
  <2> QED BY <2>2, <2>3 DEF WellFormed, Attrs
<1> QED BY <1>1, <1>2, <1>3, <1>4 DEF Kinds

\* A session's step touches nobody else's variables.
LEMMA SessionFrame ==
    ASSUME RelatedInv, CasInv, NEW s \in Sessions, Session(s)
    PROVE  /\ UNCHANGED <<req, disturbed>>
           /\ DOMAIN spec' = Sessions /\ DOMAIN seen' = Sessions /\ DOMAIN fk' = Sessions
           /\ \A u \in Sessions \ {s} :
                 pc'[u] = pc[u] /\ spec'[u] = spec[u] /\ seen'[u] = seen[u] /\ fk'[u] = fk[u]
BY DEF RelatedInv, CasInv, Shape, Session, Start, Begin, Lookup, InsertRelated, Save,
       DatabaseError, Fetch, Goto, End, Commit

\* What it does to the schedule rows: a row once inserted is kept or rolled
\* back, and one that is inserted is what was asked for.
LEMMA SessionRows ==
    ASSUME RelatedInv, CasInv, NEW s \in Sessions, Session(s), NEW r \in Rids
    PROVE  /\ maker[r] # NoSession => related'[r] \in {related[r], NoRow} /\ maker'[r] # NoSession
           /\ \/ related'[r] \in {related[r], NoRow}
              \/ pc[s] = "insert" /\ related'[r] = RowFor(spec[s])
<1> USE DEF RelatedInv, Shape
<1>1. CASE UNCHANGED <<related, maker>> BY <1>1
<1>2. CASE UNCHANGED maker /\ \E v \in Verdicts : End(s, v) BY <1>2 DEF End
<1>3. CASE InsertRelated(s)
  BY <1>1, <1>2, <1>3, RelatedAssumption DEF InsertRelated, Fetch, Goto, Verdicts
<1>4. CASE Lookup(s)
  BY <1>1, <1>2, <1>4, RejectionType DEF Lookup, Fetch, Goto, Verdicts, Refusals
<1>5. CASE Begin(s) BY <1>1, <1>2, <1>5 DEF Begin, Goto, Verdicts, Refusals
<1>6. CASE Save(s) BY <1>1, <1>2, <1>6 DEF Save, Commit, Verdicts
<1> QED BY <1>1, <1>2, <1>3, <1>4, <1>5, <1>6 DEF Session, Start, Goto, DatabaseError, Verdicts

\* A task is written by its session only, and not while another holds it.
LEMMA SessionTasks ==
    ASSUME RelatedInv, CasInv, NEW s \in Sessions, Session(s)
    PROVE  \/ UNCHANGED tasks
           \/ \E p \in Pks :
                 /\ pc[s] = "save" /\ pc'[s] = "done"
                 /\ tasks' = [tasks EXCEPT ![p] = Written(s, tasks[p])]
                 /\ \A u \in Sessions : Holding(u) /\ req[u].pk = p => u = s
<1>1. CASE Save(s)
  <2>1. PICK p \in IF req[s].op \in Creations
                   THEN {q \in Pks : ~Exists(q)} ELSE {req[s].pk} :
            /\ req[s].op = "update" => ~Locked(p)
            /\ \/ /\ tasks' = [tasks EXCEPT ![p] = Written(s, tasks[p])]
                  /\ pc' = [pc EXCEPT ![s] = "done"]
               \/ UNCHANGED tasks
    BY <1>1 DEF Save, Commit
  <2>2. /\ req[s].op \in Creations \cup {"update", "mutate_update"}
        /\ req[s].op \notin Creations => req[s].pk \in Pks
    BY RelatedAssumption DEF RelatedInv, Shape
  <2>3. p \in Pks BY <2>1, <2>2
  <2>4. pc[s] = "save" BY <1>1 DEF Save
  <2>5. ASSUME NEW u \in Sessions, Holding(u), req[u].pk = p PROVE u = s
    <3>1. CASE req[s].op \in Creations
      BY <2>1, <2>5, <3>1 DEF CasInv, Watched
    <3>2. CASE req[s].op = "update"
      BY <2>1, <2>5, <3>2 DEF Locked, Holding
    <3>3. CASE req[s].op = "mutate_update"
      BY <2>1, <2>4, <2>5, <3>3 DEF CasInv, Exclusive, Holding, Creations
    <3> QED BY <2>2, <3>1, <3>2, <3>3
  <2> QED BY <2>1, <2>3, <2>4, <2>5 DEF RelatedInv, Shape
<1> QED BY <1>1 DEF Session, Start, Begin, Lookup, InsertRelated, DatabaseError

\* A task that is not written comes to the same after a session's step.
LEMMA SessionJoined ==
    ASSUME RelatedInv, NEW s \in Sessions, Session(s),
           NEW p \in Pks, Exists(p), tasks'[p] = tasks[p]
    PROVE  Joined(p)' = Joined(p) /\ Exists(p)'
<1>1. \A a \in Attrs : tasks[p][a] # NoId => related'[tasks[p][a]] = related[tasks[p][a]]
  BY UsedRowsStay DEF RelatedInv, Keys
<1> QED BY <1>1 DEF Joined, Exists

\* What a session is to write stays what it is while its Schedule does.
LEMMA SpecFrame ==
    ASSUME NEW u, spec'[u] = spec[u]
    PROVE  RowFor(spec[u])' = RowFor(spec[u]) /\ Rejection(spec[u])' = Rejection(spec[u])
BY DEF RowFor, Rejection, CronText, Rounded

\* A session's step leaves ready what every session is to write.
LEMMA SessionReady ==
    ASSUME RelatedInv, CasInv, NEW s \in Sessions, Session(s), NEW u \in Sessions
    PROVE  Ready(u)'
<1> USE DEF CasInv
<1>1. CASE u # s
  <2>1. pc'[u] = pc[u] /\ spec'[u] = spec[u] /\ fk'[u] = fk[u] BY <1>1, SessionFrame
  <2>2. RowFor(spec[u])' = RowFor(spec[u]) /\ Rejection(spec[u])' = Rejection(spec[u])
    BY <2>1, SpecFrame
  <2>3. CASE pc[u] = "save"
    <3>1. fk[u] \in Rids /\ maker[fk[u]] # NoSession BY <2>3 DEF Ready
    <3>2. related'[fk[u]] \in {related[fk[u]], NoRow} /\ maker'[fk[u]] # NoSession
      BY <3>1, SessionRows
    <3> QED BY <2>1, <2>2, <2>3, <3>1, <3>2 DEF Ready
  <2> QED BY <2>1, <2>2, <2>3 DEF Ready
<1>2. CASE u = s /\ Begin(s)
  <2>1. CASE pc'[s] = "done" BY <1>2, <2>1 DEF Ready
  <2>2. CASE pc'[s] # "done"
    <3>1. pc'[s] = "build" BY <1>2, <2>2 DEF Begin, Goto, End, RelatedInv, Shape
    <3>2. req[s] \in Requests /\ req[s].op \in Creations \cup {"update", "mutate_update"}
      BY RelatedAssumption DEF RelatedInv, Shape
    <3>3. \/ req[s].op # "mutate_update" /\ spec'[s] = Patched(Blank, req[s].changes)
          \/ spec'[s] = Patched(Mapped(req[s].pk), req[s].changes)
      BY <1>2, <2>2 DEF Begin, Goto, End, RelatedInv, Shape, Creations
    <3>4. Mapped(req[s].pk).kind \in Kinds
      BY DEF Mapped, MapPeriodicTask, ResolveKindAndExpression, Kinds
    <3>5. spec'[s].kind \in Kinds \cup {"other"}
      BY <3>2, <3>3, <3>4, TablesAssumption DEF Patched
    <3> QED BY <1>2, <3>1, <3>5 DEF Ready
  <2> QED BY <2>1, <2>2
<1>3. CASE u = s /\ Lookup(s)
  <2>1. CASE pc'[s] = "done" BY <1>3, <2>1 DEF Ready
  <2>2. CASE pc'[s] # "done"
    <3>1. Rejection(spec[s]) = "none" /\ UNCHANGED <<spec, maker, related>>
      BY <1>3, <2>2 DEF Lookup, Fetch, Goto, End, RelatedInv, Shape
    <3>2. spec[s].kind \in Kinds
      BY <1>3, <3>1 DEF Ready, Lookup, Rejection, Kinds
    <3> RowFor(spec[s])' = RowFor(spec[s]) /\ Rejection(spec[s])' = "none"
      BY <3>1, SpecFrame
    <3>3. CASE pc'[s] = "insert" BY <1>3, <3>1, <3>2, <3>3 DEF Ready
    <3>4. CASE \E r \in Matches(s) : Fetch(s, r)
      <4>1. PICK r \in Matches(s) : Fetch(s, r) BY <3>4
      <4>2. r \in Rids /\ maker[r] # NoSession /\ related[r] = RowFor(spec[s])
        BY RelatedAssumption DEF Matches, Committed, Mine, RelatedInv, Shape, Unborn
      <4>3. fk'[s] = r /\ pc'[s] = "save" BY <4>1 DEF Fetch, Goto, RelatedInv, Shape
      <4> QED BY <1>3, <3>1, <3>2, <4>2, <4>3 DEF Ready
    <3> QED BY <1>3, <2>2, <3>3, <3>4 DEF Lookup, Goto, End, RelatedInv, Shape
  <2> QED BY <2>1, <2>2
<1>4. CASE u = s /\ InsertRelated(s)
  <2>1. CASE pc'[s] = "done" BY <1>4, <2>1 DEF Ready
  <2>2. CASE pc'[s] # "done"
    <3>1. PICK r \in Rids : /\ fk'[s] = r /\ pc'[s] = "save" /\ UNCHANGED spec
                            /\ related'[r] = RowFor(spec[s]) /\ maker'[r] # NoSession
      <4>1. CASE \E r \in {q \in Rids : related[q] = RowFor(spec[s])} \cap Committed :
                    Fetch(s, r) /\ UNCHANGED maker
        BY <1>4, <4>1 DEF InsertRelated, Fetch, Goto, Committed, RelatedInv, Shape, Unborn
      <4>2. CASE ~\E r \in {q \in Rids : related[q] = RowFor(spec[s])} \cap Committed :
                    Fetch(s, r) /\ UNCHANGED maker
        BY <1>4, <2>2, <4>2, RelatedAssumption DEF InsertRelated, End, RelatedInv, Shape
      <4> QED BY <4>1, <4>2
    <3>2. spec[s].kind \in Kinds /\ Rejection(spec[s]) = "none"
      BY <1>4 DEF Ready, InsertRelated
    <3>3. RowFor(spec[s])' = RowFor(spec[s]) /\ Rejection(spec[s])' = "none"
      BY <3>1, <3>2, SpecFrame
    <3> QED BY <1>4, <3>1, <3>2, <3>3 DEF Ready
  <2> QED BY <2>1, <2>2
<1>5. CASE u = s /\ (Start(s) \/ Save(s) \/ DatabaseError(s))
  BY <1>5 DEF Start, Save, DatabaseError, Goto, End, Commit, RelatedInv, Shape, Ready
<1> QED BY <1>1, <1>2, <1>3, <1>4, <1>5 DEF Session

\* One holder per task, and what it holds is what it has compared.
LEMMA SessionWatched ==
    ASSUME RelatedInv, CasInv, NEW s \in Sessions, Session(s)
    PROVE  Exclusive' /\ \A u \in Sessions : Known(u)' /\ Watched(u)'
<1> USE DEF CasInv
<1>1. \A u \in Sessions : Holding(u)' =>
          \/ Holding(u)
          \/ u = s /\ Begin(s) /\ ~Locked(req[s].pk) /\ Exists(req[s].pk)
             /\ Mapped(req[s].pk) = MapPeriodicTask(req[s].pk, seen[s])
  <2>1. CASE Begin(s)
    BY <2>1, SessionFrame DEF Begin, Goto, End, Holding, RelatedInv, Shape, Creations
  <2>2. CASE ~Begin(s)
    BY <2>2, SessionFrame DEF Session, Start, Lookup, InsertRelated, Save, DatabaseError, Fetch,
                              Goto, End, Commit, Holding, RelatedInv, Shape
  <2> QED BY <2>1, <2>2
<1>2. Exclusive' BY <1>1, SessionFrame DEF Exclusive, Locked, Holding
<1>3. ASSUME NEW u \in Sessions PROVE Known(u)'
  <2>1. CASE u = s /\ Start(s)
    <3>1. req[s].op = "mutate_update" => req[s].pk \in Pks /\ Proper(Joined(req[s].pk))
      BY <2>1, JoinedIsProper, RelatedAssumption DEF Start, RelatedInv, Shape, Creations
    <3>2. req[s].op = "mutate_update" => seen'[s] = Joined(req[s].pk)
      BY <2>1 DEF Start
    <3> QED BY <2>1, <3>1, <3>2, SessionFrame DEF Known, Proper
  <2>2. CASE ~(u = s /\ Start(s))
    <3>1. seen'[u] = seen[u] /\ (pc[u] = "idle" => pc'[u] = "idle")
      BY <2>2, SessionFrame DEF Session, Begin, Lookup, InsertRelated, Save, DatabaseError
    <3> QED BY <3>1, SessionFrame DEF Known, Proper
  <2> QED BY <2>1, <2>2
<1>4. ASSUME NEW u \in Sessions, Holding(u)'
      PROVE  Exists(req[u].pk)' /\ (u \notin disturbed' => Joined(req[u].pk)' = seen'[u])
  <2>1. req[u].pk \in Pks /\ req' = req /\ req[u].op = "mutate_update"
    BY <1>4, SessionFrame, RelatedAssumption DEF RelatedInv, Shape, Holding, Creations
  <2>2. CASE Holding(u)
    <3>1. Exists(req[u].pk) /\ (u \notin disturbed => Joined(req[u].pk) = seen[u])
      BY <2>2 DEF Watched
    <3>2. tasks'[req[u].pk] = tasks[req[u].pk]
      <4>1. u # s \/ pc'[s] # "done" BY <1>4 DEF Holding
      <4> QED BY <2>1, <2>2, <4>1, SessionTasks DEF RelatedInv, Shape
    <3>3. seen'[u] = seen[u]
      BY <2>2, SessionFrame DEF Holding, Session, Start, Begin, Lookup, InsertRelated, Save, DatabaseError
    <3> QED BY <2>1, <3>1, <3>2, <3>3, SessionJoined, SessionFrame
  <2>3. CASE ~Holding(u)
    <3>1. u = s /\ Begin(s) /\ Exists(req[s].pk)
          /\ Mapped(req[s].pk) = MapPeriodicTask(req[s].pk, seen[s])
      BY <1>1, <1>4, <2>3
    <3>2. Proper(Joined(req[s].pk)) /\ Proper(seen[s])
      BY <2>1, <3>1, JoinedIsProper DEF Known, Begin
    <3>3. Joined(req[s].pk) = seen[s]
      BY <3>1, <3>2, MappedDetermines DEF Mapped
    <3>4. tasks' = tasks /\ seen' = seen BY <3>1 DEF Begin
    <3> QED BY <2>1, <3>1, <3>3, <3>4, SessionJoined
  <2> QED BY <2>2, <2>3
<1>5. \A u \in Sessions : Watched(u)' BY <1>4, SessionFrame DEF Watched
<1> QED BY <1>2, <1>3, <1>5

\* A session's step keeps the tables well-formed.
LEMMA SessionTables ==
    ASSUME RelatedInv, CasInv, NEW s \in Sessions, Session(s)
    PROVE  Formed' /\ Typed'
<1> USE DEF CasInv
<1>1. Formed'
  <2>1. ASSUME NEW r \in Rids, related'[r] # NoRow PROVE WellFormed(related'[r])
    <3>1. CASE related'[r] = related[r] BY <2>1, <3>1 DEF Formed
    <3>2. CASE pc[s] = "insert" /\ related'[r] = RowFor(spec[s])
      BY <3>2, RowForIsWellFormed DEF Ready
    <3> QED BY <2>1, <3>1, <3>2, SessionRows
  <2> QED BY <2>1 DEF Formed
<1>2. ASSUME NEW p \in Pks, NEW a \in Attrs,
             tasks[p] # NoRow, tasks[p][a] # NoId
      PROVE  related'[tasks[p][a]] \in {related[tasks[p][a]], NoRow}
  BY <1>2, SessionRows DEF RelatedInv, Keys, Exists, Used
<1>3. CASE UNCHANGED tasks
  BY <1>1, <1>2, <1>3 DEF Typed, Exists
<1>4. ASSUME NEW p \in Pks, pc[s] = "save",
             tasks' = [tasks EXCEPT ![p] = Written(s, tasks[p])]
      PROVE  Typed'
  <2>1. /\ fk[s] \in Rids /\ maker[fk[s]] # NoSession
        /\ related[fk[s]] # NoRow => related[fk[s]].attr = RowFor(spec[s]).attr
    BY <1>4 DEF Ready
  <2>2. related'[fk[s]] # NoRow => related'[fk[s]].attr = RowFor(spec[s]).attr
    BY <2>1, SessionRows
  <2>3. \A a \in Attrs : Written(s, tasks[p])[a] # NoId =>
            a = RowFor(spec[s]).attr /\ Written(s, tasks[p])[a] = fk[s]
    BY DEF Written, Attrs
  <2>4. tasks'[p] = Written(s, tasks[p]) /\ \A q \in Pks \ {p} : tasks'[q] = tasks[q]
    BY <1>4 DEF RelatedInv, Shape
  <2>5. ASSUME NEW q \in Pks, Exists(q)'
        PROVE  /\ \A a \in Attrs : tasks'[q][a] # NoId /\ related'[tasks'[q][a]] # NoRow =>
                      related'[tasks'[q][a]].attr = a
               /\ \A a, b \in Attrs : tasks'[q][a] # NoId /\ tasks'[q][b] # NoId => a = b
    <3>1. CASE q = p BY <2>2, <2>3, <2>4, <3>1
    <3>2. CASE q # p BY <1>2, <2>4, <2>5, <3>2 DEF Typed, Exists
    <3> QED BY <3>1, <3>2
  <2> QED BY <2>5 DEF Typed
<1> QED BY <1>1, <1>3, <1>4, SessionTasks

\* The administration site attaches rows of any table and edits them in place,
\* under everybody but the holder of the task's lock.
LEMMA AdminCas ==
    ASSUME RelatedInv, CasInv,
           \/ \E p \in Pks : AdminSave(p) \/ AdminDelete(p)
           \/ \E r \in Rids : AdminEditRelated(r) \/ AdminDeleteRelated(r)
    PROVE  CasInv'
<1> USE DEF CasInv
<1>1. UNCHANGED <<maker, hidden, req, pc, seen, spec, fk, verdict>>
  BY DEF AdminSave, AdminDelete, AdminEditRelated, AdminDeleteRelated, Edit
<1>2. \A r \in Rids : related'[r] # NoRow =>
          related[r] # NoRow /\ WellFormed(related'[r]) /\ related'[r].attr = related[r].attr
  BY TablesAssumption
     DEF Formed, AdminSave, AdminDelete, AdminEditRelated, AdminDeleteRelated, Committed,
         RelatedInv, Shape
<1>3. Formed' BY <1>2 DEF Formed
<1>4. \A u \in Sessions : Ready(u)'
  <2>1. ASSUME NEW u \in Sessions PROVE Ready(u)'
    <3>1. RowFor(spec[u])' = RowFor(spec[u]) /\ Rejection(spec[u])' = Rejection(spec[u])
      BY <1>1, SpecFrame
    <3> QED BY <1>1, <1>2, <3>1 DEF Ready
  <2> QED BY <2>1
<1>5. Exclusive' /\ \A u \in Sessions : Known(u)'
  BY <1>1 DEF Exclusive, Known, Holding, Proper
<1>6. ASSUME NEW p \in Pks, Exists(p), NEW a \in Attrs, tasks[p][a] # NoId
      PROVE  tasks[p][a] \in Rids
  BY <1>6 DEF RelatedInv, Keys, Used
<1>7. Typed'
  <2>1. ASSUME NEW q \in Pks, Exists(q)', \A a \in Attrs : Exists(q) /\ tasks'[q][a] = tasks[q][a]
        PROVE  /\ \A a \in Attrs : tasks'[q][a] # NoId /\ related'[tasks'[q][a]] # NoRow =>
                      related'[tasks'[q][a]].attr = a
               /\ \A a, b \in Attrs : tasks'[q][a] # NoId /\ tasks'[q][b] # NoId => a = b
    BY <1>2, <1>6, <2>1 DEF Typed, Attrs
  <2>2. ASSUME NEW q \in Pks, Exists(q)', NEW r \in Committed, UNCHANGED related,
               \A a \in Attrs : tasks'[q][a] = IF a = related[r].attr THEN r ELSE NoId
        PROVE  /\ \A a \in Attrs : tasks'[q][a] # NoId /\ related'[tasks'[q][a]] # NoRow =>
                      related'[tasks'[q][a]].attr = a
               /\ \A a, b \in Attrs : tasks'[q][a] # NoId /\ tasks'[q][b] # NoId => a = b
    BY <2>2
  <2>3. ASSUME NEW q \in Pks, Exists(q)'
        PROVE  \/ \A a \in Attrs : Exists(q) /\ tasks'[q][a] = tasks[q][a]
               \/ /\ UNCHANGED related
                  /\ \E r \in Committed :
                         \A a \in Attrs : tasks'[q][a] = IF a = related[r].attr THEN r ELSE NoId
    <3>1. CASE \E p \in Pks : AdminSave(p)
      <4>1. PICK p \in Pks : AdminSave(p) BY <3>1
      <4>2. CASE q # p BY <2>3, <4>1, <4>2 DEF AdminSave, Exists, RelatedInv, Shape
      <4>3. CASE q = p /\ \E r \in Committed : tasks' = [tasks EXCEPT ![p] = Attached(@, r)]
        BY <2>3, <4>1, <4>3 DEF AdminSave, Exists, RelatedInv, Shape, Keys, Attached
      <4>4. CASE q = p /\ \/ \E n \in Texts : tasks' = [tasks EXCEPT ![p].name = n]
                          \/ \E x \in ArgTexts : tasks' = [tasks EXCEPT ![p].args = x]
        <5>1. Exists(p) /\ DOMAIN tasks = Pks /\ \A a \in Attrs : a \in DOMAIN tasks[p]
          BY <4>1 DEF AdminSave, RelatedInv, Shape, Keys
        <5> QED BY <4>4, <5>1 DEF Attrs
      <4> QED BY <4>1, <4>2, <4>3, <4>4 DEF AdminSave
    <3>2. CASE \E p \in Pks : AdminDelete(p)
      BY <2>3, <3>2 DEF AdminDelete, Exists, RelatedInv, Shape
    <3>3. CASE \E r \in Rids : AdminEditRelated(r) \/ AdminDeleteRelated(r)
      BY <2>3, <3>3 DEF AdminEditRelated, AdminDeleteRelated, Exists, RelatedInv, Shape
    <3> QED BY <3>1, <3>2, <3>3
  <2> QED BY <2>1, <2>2, <2>3 DEF Typed
<1>8. ASSUME NEW u \in Sessions, Holding(u)'
      PROVE  Exists(req[u].pk)' /\ (u \notin disturbed' => Joined(req[u].pk)' = seen'[u])
  <2>1. Holding(u) /\ req' = req /\ seen' = seen BY <1>1, <1>8 DEF Holding
  <2>2. req[u].pk \in Pks
    BY <2>1, RelatedAssumption DEF RelatedInv, Shape, Holding, Creations
  <2>3. Locked(req[u].pk) /\ Exists(req[u].pk)
        /\ (u \notin disturbed => Joined(req[u].pk) = seen[u])
    BY <2>1 DEF Holding, Locked, Watched
  <2>4. tasks'[req[u].pk] = tasks[req[u].pk]
    BY <2>2, <2>3 DEF AdminSave, AdminDelete, AdminEditRelated, AdminDeleteRelated, RelatedInv, Shape
  <2>5. \/ u \in disturbed'
        \/ /\ disturbed' = disturbed
           /\ \A a \in Attrs : tasks[req[u].pk][a] # NoId =>
                  related'[tasks[req[u].pk][a]] = related[tasks[req[u].pk][a]]
    <3>1. CASE \E r \in Rids : AdminEditRelated(r)
      BY <2>1, <3>1 DEF AdminEditRelated, Building, Holding
    <3>2. CASE \E r \in Rids : AdminDeleteRelated(r)
      BY <2>2, <2>3, <3>2, <1>6 DEF AdminDeleteRelated, RelatedInv, Shape
    <3>3. CASE \E p \in Pks : AdminSave(p) \/ AdminDelete(p)
      BY <3>3 DEF AdminSave, AdminDelete
    <3> QED BY <3>1, <3>2, <3>3
  <2> QED BY <2>1, <2>2, <2>3, <2>4, <2>5 DEF Joined, Exists
<1>9. \A u \in Sessions : Watched(u)' BY <1>1, <1>8 DEF Watched
<1> QED BY <1>1, <1>3, <1>4, <1>5, <1>7, <1>9

\* Every step keeps the invariant.
LEMMA CasNext == RelatedInv /\ CasInv /\ [Next]_vars => CasInv'
<1> SUFFICES ASSUME RelatedInv, CasInv, [Next]_vars PROVE CasInv'
  OBVIOUS
<1>1. CASE UNCHANGED vars
  <2>1. \A u \in Sessions :
            RowFor(spec[u])' = RowFor(spec[u]) /\ Rejection(spec[u])' = Rejection(spec[u])
    BY <1>1, SpecFrame DEF vars
  <2> QED
    BY <1>1, <2>1 DEF vars, CasInv, Formed, Typed, Ready, Known, Watched, Exclusive, Holding, Proper,
                      Joined, Exists
<1>2. ASSUME NEW s \in Sessions, Session(s) PROVE CasInv'
  BY <1>2, SessionFrame, SessionTables, SessionReady, SessionWatched DEF CasInv
<1> QED BY <1>1, <1>2, AdminCas DEF Next

\* A session's task is written by its save only.
LEMMA LandingSaves ==
    ASSUME RelatedInv, [Next]_vars, NEW s \in Sessions, Lands(s) PROVE Save(s)
<1>1. Session(s) BY MoversStep DEF Lands
<1>2. ~DatabaseError(s) BY DEF Lands, DatabaseError, End, RelatedInv, Shape
<1> QED BY <1>1, <1>2 DEF Lands, Session, Start, Begin, Lookup, InsertRelated

\* A native edit lands only on a task whose every column, and whose schedule
\* row, is what the caller saw, for any tables and any number of sessions.
THEOREM CasIsExact == Spec => CasSeesNativeColumns
<1>1. ASSUME RelatedInv, CasInv, [Next]_vars, NEW s \in Sessions,
             Lands(s), req[s].op = "mutate_update", s \notin disturbed
      PROVE  Joined(req[s].pk) = seen[s]
  <2>1. pc[s] = "save" BY <1>1 DEF Lands
  <2> QED BY <1>1, <2>1 DEF CasInv, Watched, Holding
<1>2. RelatedInv /\ CasInv /\ [Next]_vars =>
        [\A s \in Sessions : Lands(s) /\ req[s].op = "mutate_update" /\ s \notin disturbed =>
            Joined(req[s].pk) = seen[s]]_vars
  BY <1>1
<1>3. Spec => []CasInv BY RelatedInvariant, CasInit, CasNext, PTL DEF Spec
<1> QED BY RelatedInvariant, <1>2, <1>3, PTL DEF Spec, CasSeesNativeColumns

-----------------------------------------------------------------------------
(* The two conversions.                                                     *)

\* Multiplication undoes an exact division.
LEMMA ExactDivision ==
    ASSUME NEW e \in Int, NEW n \in Nat \ {0}, e % n = 0 PROVE (e \div n) * n = e
OBVIOUS

\* A schedule that is not turned away is read back from the row that is stored
\* for it as what it stands for: however many microseconds a second has, no
\* fraction of an interval is lost, coordinates come back to the nearest of their
\* column, an empty crontab as every minute (dcb.py:442-500 against
\* mapper.py:87-92 and 119-175).
THEOREM RoundTrip ==
    ASSUME NEW d, d.kind \in Kinds, Rejection(d) = "none",
           NEW rows, rows = [a \in Attrs |-> IF a = RowFor(d).attr THEN RowFor(d) ELSE NoRow]
    PROVE  /\ ResolveKindAndExpression(rows).kind = d.kind
           /\ ResolveKindAndExpression(rows).expression = Meant(d)
           /\ d.kind = "cron" => ResolveKindAndExpression(rows).timezone = d.timezone
           /\ d.kind = "solar" => Nearest(Coordinates(rows), d.place)
<1>0. RowFor(d) # NoRow BY RowForIsWellFormed, RowsAreRows
<1>1. CASE d.kind = "interval"
  <2>1. d.expression \in Int /\ d.expression % Microsecond = 0
    BY <1>1 DEF Rejection
  <2>2. Second \in Nat \ {0} /\ Microsecond \in Nat \ {0}
    BY MapperAssumption DEF Second, Microsecond
  <2>3. IntervalToSeconds(RowFor(d).every, RowFor(d).period) = d.expression
    <3>1. CASE d.expression % Second = 0
      <4>1. RowFor(d).every = d.expression \div Second /\ RowFor(d).period = "seconds"
        BY <1>1, <3>1 DEF RowFor
      <4>2. Length("seconds") = Second BY DEF Length
      <4>3. (d.expression \div Second) * Second = d.expression
        BY <2>1, <2>2, <3>1, ExactDivision
      <4> QED BY <4>1, <4>2, <4>3 DEF IntervalToSeconds
    <3>2. CASE d.expression % Second # 0
      <4>1. RowFor(d).every = d.expression \div Microsecond /\ RowFor(d).period = "microseconds"
        BY <1>1, <3>2 DEF RowFor
      <4>2. Length("microseconds") = Microsecond BY DEF Length
      <4>3. (d.expression \div Microsecond) * Microsecond = d.expression
        BY <2>1, <2>2, ExactDivision
      <4> QED BY <4>1, <4>2, <4>3 DEF IntervalToSeconds
    <3> QED BY <3>1, <3>2
  <2>4. rows["interval"] = RowFor(d) BY <1>1 DEF RowFor, Attrs
  <2> QED BY <1>0, <1>1, <2>3, <2>4 DEF ResolveKindAndExpression, Meant
<1>2. CASE d.kind = "cron"
  BY <1>0, <1>2 DEF RowFor, Attrs, ResolveKindAndExpression, Meant
<1>3. CASE d.kind = "clocked"
  BY <1>0, <1>3 DEF RowFor, Attrs, ResolveKindAndExpression, Meant
<1>4. CASE d.kind = "solar"
  <2>1. RowFor(d) = [attr |-> "solar", event |-> d.expression, place |-> Rounded(d.place)]
    BY <1>4 DEF RowFor
  <2>2. Nearest(Rounded(d.place), d.place) BY <1>4, RoundedIsNearest DEF Rejection
  <2> QED BY <1>0, <1>4, <2>1, <2>2 DEF Attrs, ResolveKindAndExpression, Coordinates, Meant
<1> QED BY <1>1, <1>2, <1>3, <1>4 DEF Kinds

-----------------------------------------------------------------------------
(* The keys in the tables.                                                   *)

\* A task points to a row that is there.
Tied ==
    \A p \in Pks : Exists(p) =>
        \A a \in Attrs : tasks[p][a] # NoId => related[tasks[p][a]] # NoRow

\* A row of an open transaction is there, and its session is about to point its
\* task to it: a transaction hides no other row.
HiddenRows ==
    \A r \in hidden : /\ related[r] # NoRow /\ maker[r] \in Sessions
                      /\ pc[maker[r]] = "save" /\ fk[maker[r]] = r

KeysInv ==
    /\ Tied
    /\ HiddenRows
    /\ fk \in [Sessions -> Rids \cup {NoId}]
    /\ edits \in 0..MaxEdits

\* It holds at the start.
LEMMA KeysInit == Init => KeysInv
<1> SUFFICES ASSUME Init PROVE KeysInv
  OBVIOUS
<1>1. Tied BY RelatedAssumption DEF Init, Tied, Exists
<1> QED BY <1>1, RelatedAssumption DEF Init, KeysInv, HiddenRows

\* The row a session inserts is there, hidden until its transaction ends, and the
\* only one: a session that inserts has hidden none.
LEMMA SessionHidden ==
    ASSUME RelatedInv, CasInv, KeysInv, NEW s \in Sessions, Session(s)
    PROVE  HiddenRows' /\ fk' \in [Sessions -> Rids \cup {NoId}]
<1> USE DEF RelatedInv, Shape, KeysInv
<1>0. fk' \in [Sessions -> Rids \cup {NoId}]
  BY DEF Session, Start, Begin, Lookup, InsertRelated, Save, DatabaseError, Fetch, Matches,
         Committed, Mine
<1> SUFFICES HiddenRows'
  BY <1>0
<1>f. \A u \in Sessions \ {s} : pc'[u] = pc[u] /\ fk'[u] = fk[u]
  BY SessionFrame
<1>1. ASSUME NEW v, End(s, v) \/ Commit(s, v), UNCHANGED maker PROVE HiddenRows'
  BY <1>1, <1>f DEF End, Commit, Mine, HiddenRows
<1>2. CASE UNCHANGED <<hidden, related, maker>> /\ pc[s] # "save"
  BY <1>2, <1>f DEF HiddenRows
<1>3. CASE InsertRelated(s)
  <2> DEFINE row == RowFor(spec[s])
  <2>1. row # NoRow
    BY <1>3, RowForIsWellFormed, RowsAreRows DEF InsertRelated, CasInv, Ready
  <2> HIDE DEF row
  <2>2. CASE End(s, "raised") /\ UNCHANGED <<maker, fk>> BY <1>1, <2>2
  <2>3. CASE UNCHANGED maker /\ \E r \in Rids : Fetch(s, r)
    BY <1>2, <1>3, <2>3 DEF Fetch, Goto, InsertRelated
  <2>5. CASE UNCHANGED maker /\ End(s, "raised") BY <1>1, <2>5
  <2>4. CASE \E r \in Rids : /\ maker[r] = NoSession
                             /\ related' = [related EXCEPT ![r] = row]
                             /\ maker'   = [maker   EXCEPT ![r] = s]
                             /\ hidden'  = IF IsNative(s) THEN hidden \cup {r} ELSE hidden
                             /\ fk'      = [fk EXCEPT ![s] = r]
                             /\ IsNative(s) => pc' = [pc EXCEPT ![s] = "save"]
    <3>1. PICK r \in Rids : /\ maker[r] = NoSession
                            /\ related' = [related EXCEPT ![r] = row]
                            /\ maker'   = [maker   EXCEPT ![r] = s]
                            /\ hidden'  = IF IsNative(s) THEN hidden \cup {r} ELSE hidden
                            /\ fk'      = [fk EXCEPT ![s] = r]
                            /\ IsNative(s) => pc' = [pc EXCEPT ![s] = "save"]
      BY <2>4
    <3>2. pc[s] = "insert" /\ s # NoSession BY <1>3, RelatedAssumption DEF InsertRelated
    <3>3. ASSUME NEW q \in hidden
          PROVE  /\ related'[q] # NoRow /\ maker'[q] \in Sessions
                 /\ pc'[maker'[q]] = "save" /\ fk'[maker'[q]] = q
      <4>1. related[q] # NoRow /\ maker[q] \in Sessions
            /\ pc[maker[q]] = "save" /\ fk[maker[q]] = q
        BY DEF HiddenRows
      <4>2. q # r /\ maker[q] # s BY <3>1, <3>2, <4>1, RelatedAssumption DEF Unborn
      <4> QED BY <1>f, <3>1, <4>1, <4>2
    <3>4. r \in hidden' => /\ related'[r] # NoRow /\ maker'[r] = s
                           /\ pc'[s] = "save" /\ fk'[s] = r
      BY <2>1, <3>1 DEF Unborn, CasInv
    <3> QED BY <3>1, <3>3, <3>4 DEF HiddenRows
  <2> QED BY <1>3, <2>2, <2>3, <2>4, <2>5 DEF InsertRelated, row, Committed
<1>4. CASE Lookup(s)
  BY <1>1, <1>2, <1>4 DEF Lookup, Fetch, Goto, Matches, Committed, Mine
<1>5. CASE Begin(s) BY <1>1, <1>2, <1>5 DEF Begin, Goto
<1>6. CASE Save(s) BY <1>1, <1>6 DEF Save
<1>7. CASE Start(s) \/ DatabaseError(s) BY <1>1, <1>2, <1>7 DEF Start, DatabaseError, Goto
<1> QED BY <1>3, <1>4, <1>5, <1>6, <1>7 DEF Session

\* A session's step keeps it: what a task points to stays, and what is attached
\* to a task is there.
LEMMA SessionTied ==
    ASSUME RelatedInv, CasInv, KeysInv, NEW s \in Sessions, Session(s)
    PROVE  Tied'
<1>1. ASSUME NEW p \in Pks, Exists(p), NEW a \in Attrs, tasks[p][a] # NoId
      PROVE  related'[tasks[p][a]] # NoRow
  BY <1>1, UsedRowsStay DEF RelatedInv, Keys, KeysInv, Tied
<1>2. CASE UNCHANGED tasks BY <1>1, <1>2 DEF Tied, Exists
<1>3. CASE Save(s)
  <2>1. CASE \E p \in Pks : /\ tasks' = [tasks EXCEPT ![p] = Written(s, tasks[p])]
                            /\ fk[s] \in Committed \cup Mine(s)
                            /\ UNCHANGED related
    <3>1. PICK p \in Pks : /\ tasks' = [tasks EXCEPT ![p] = Written(s, tasks[p])]
                           /\ fk[s] \in Committed \cup Mine(s)
                           /\ UNCHANGED related
      BY <2>1
    <3>2. related'[fk[s]] # NoRow
      BY <3>1 DEF Committed, Mine, KeysInv, HiddenRows, RelatedInv, Shape
    <3>3. \A a \in Attrs : Written(s, tasks[p])[a] \in {NoId, fk[s]}
      BY DEF Written, Attrs
    <3>4. tasks'[p] = Written(s, tasks[p]) /\ \A q \in Pks \ {p} : tasks'[q] = tasks[q]
      BY <3>1 DEF RelatedInv, Shape
    <3> QED BY <1>1, <3>2, <3>3, <3>4 DEF Tied, Exists
  <2> QED
    BY <1>2, <1>3, <2>1, RelatedAssumption DEF Save, Commit, RelatedInv, Shape
<1> QED BY <1>2, <1>3 DEF Session, Start, Begin, Lookup, InsertRelated, DatabaseError

\* So does the administration site, which deletes a row together with its tasks.
LEMMA AdminTied ==
    ASSUME RelatedInv, KeysInv,
           \/ \E p \in Pks : AdminSave(p) \/ AdminDelete(p)
           \/ \E r \in Rids : AdminEditRelated(r) \/ AdminDeleteRelated(r)
    PROVE  KeysInv'
<1> USE DEF KeysInv, RelatedInv, Shape
<1>1. UNCHANGED <<maker, hidden, pc, fk>> /\ edits' \in 0..MaxEdits
  BY RelatedAssumption DEF AdminSave, AdminDelete, AdminEditRelated, AdminDeleteRelated, Edit
<1>2. HiddenRows'
  BY <1>1 DEF AdminSave, AdminDelete, AdminEditRelated, AdminDeleteRelated, Committed, HiddenRows
<1>3. CASE \E p \in Pks : AdminSave(p)
  <2>1. PICK p \in Pks : AdminSave(p) BY <1>3
  <2>2. UNCHANGED related /\ Exists(p) BY <2>1 DEF AdminSave
  <2>3. \A q \in Pks \ {p} : tasks'[q] = tasks[q] BY <2>1 DEF AdminSave
  <2>4. \A a \in Attrs : tasks'[p][a] # NoId => related[tasks'[p][a]] # NoRow
    <3>1. CASE \E r \in Committed : tasks' = [tasks EXCEPT ![p] = Attached(@, r)]
      BY <2>2, <3>1 DEF Attached, Committed, Keys
    <3>2. CASE \/ \E n \in Texts : tasks' = [tasks EXCEPT ![p].name = n]
               \/ \E x \in ArgTexts : tasks' = [tasks EXCEPT ![p].args = x]
      <4>1. \A a \in Attrs : tasks'[p][a] = tasks[p][a]
        BY <2>2, <3>2 DEF Attrs, Keys
      <4> QED BY <2>2, <4>1 DEF Tied
    <3> QED BY <2>1, <3>1, <3>2 DEF AdminSave
  <2> QED BY <1>1, <1>2, <2>2, <2>3, <2>4 DEF Tied, Exists
<1>4. CASE \E p \in Pks : AdminDelete(p)
  BY <1>1, <1>2, <1>4 DEF AdminDelete, Tied, Exists
<1>5. CASE \E r \in Rids : AdminEditRelated(r)
  <2>1. UNCHANGED tasks /\ \A r \in Rids : related[r] # NoRow => related'[r] # NoRow
    BY <1>5, TablesAssumption, RowsAreRows DEF AdminEditRelated
  <2>2. \A p \in Pks : Exists(p) =>
            \A a \in Attrs : tasks[p][a] # NoId => tasks[p][a] \in Rids
    BY DEF Keys, Used
  <2> QED BY <1>1, <1>2, <2>1, <2>2 DEF Tied, Exists
<1>6. CASE \E r \in Rids : AdminDeleteRelated(r)
  <2>1. PICK r \in Rids : AdminDeleteRelated(r) BY <1>6
  <2>2. \A p \in Pks : Exists(p)' =>
            tasks'[p] = tasks[p] /\ Exists(p) /\ \A a \in Attrs : tasks[p][a] # r
    BY <2>1 DEF AdminDeleteRelated, Exists
  <2>3. \A q \in Rids \ {r} : related'[q] = related[q]
    BY <2>1 DEF AdminDeleteRelated
  <2>4. \A p \in Pks : Exists(p) =>
            \A a \in Attrs : tasks[p][a] # NoId => tasks[p][a] \in Rids
    BY DEF Keys, Used
  <2> QED BY <1>1, <1>2, <2>2, <2>3, <2>4 DEF Tied
<1> QED BY <1>3, <1>4, <1>5, <1>6

\* Every step keeps it.
LEMMA KeysNext == RelatedInv /\ CasInv /\ KeysInv /\ [Next]_vars => KeysInv'
<1> SUFFICES ASSUME RelatedInv, CasInv, KeysInv, [Next]_vars PROVE KeysInv'
  OBVIOUS
<1>1. ASSUME NEW s \in Sessions, Session(s) PROVE KeysInv'
  <2>1. UNCHANGED edits
    BY <1>1 DEF Session, Start, Begin, Lookup, InsertRelated, Save, DatabaseError
  <2> QED BY <1>1, <2>1, SessionHidden, SessionTied DEF KeysInv
<1>2. CASE UNCHANGED vars
  BY <1>2 DEF vars, KeysInv, Tied, Exists, HiddenRows
<1> QED BY <1>1, <1>2, AdminTied DEF Next

\* What compare-and-set rests on, and that no key dangles, in every state.
THEOREM TablesInvariant == Spec => [](CasInv /\ KeysInv)
BY RelatedInvariant, CasInit, CasNext, KeysInit, KeysNext, PTL DEF Spec

\* No task ever points to a row that is gone, that is not committed or that is
\* in another table, whoever rolls back, attaches or deletes meanwhile.
THEOREM RelatedTypeCorrect == Spec => []TypeOK
<1>1. RelatedInv /\ CasInv /\ KeysInv => TypeOK
  <2> SUFFICES ASSUME RelatedInv, CasInv, KeysInv PROVE TypeOK
    OBVIOUS
  <2>1. ASSUME NEW p \in Pks, Exists(p), NEW a \in Attrs, tasks[p][a] # NoId
        PROVE  tasks[p][a] \in Committed /\ related[tasks[p][a]].attr = a
    BY <2>1 DEF RelatedInv, Keys, Used, KeysInv, Tied, CasInv, Typed, Committed
  <2> QED BY <2>1 DEF RelatedInv, Shape, KeysInv, HiddenRows, TypeOK
<1> QED BY <1>1, RelatedInvariant, TablesInvariant, PTL

-----------------------------------------------------------------------------
(* All or nothing.  What a transaction has inserted is hidden, it is the row  *)
(* its session holds, and only the save's commit shows it.                    *)

\* What a session writes into its task has one key, the one it holds.
LEMMA WrittenPoints ==
    ASSUME CasInv, NEW s \in Sessions, pc[s] = "save", NEW old
    PROVE  /\ Written(s, old) # NoRow
           /\ \E attr \in Attrs : Written(s, old)[attr] = fk[s]
<1>1. RowFor(spec[s]).attr \in Attrs BY RowForIsWellFormed DEF CasInv, Ready
<1>2. \A a \in Attrs : RowFor(spec[s]).attr = a => Written(s, old)[a] = fk[s]
  BY DEF Written, Attrs
<1>3. "name" \in DOMAIN Written(s, old) /\ "name" \notin DOMAIN NoRow BY DEF Written, NoRow
<1> QED BY <1>1, <1>2, <1>3

\* Until a native command commits nobody sees any of it; then the task and the
\* row it points to become visible together, or nothing does, whatever the
\* database refuses or drops on the way.
THEOREM NativeCommandsAreWhole == Spec => NativeIsAllOrNothing
<1> DEFINE Whole(s) ==
        /\ verdict'[s] \in {"ok", "raised"}
        /\ \E p \in Pks :
              /\ tasks'[p] # NoRow /\ \E attr \in Attrs : tasks'[p][attr] = fk[s]
              /\ \A q \in Pks \ {p} : tasks'[q] = tasks[q]
        /\ \A r \in Rids \ {fk[s]} : Public'[r] = Public[r]
<1>1. ASSUME RelatedInv, CasInv, KeysInv, [Next]_vars,
             NEW s \in Sessions, IsNative(s), pc'[s] # pc[s]
      PROVE  UNCHANGED <<tasks, Public>> \/ Whole(s)
  <2> USE <1>1 DEF RelatedInv, Shape
  <2>1. Session(s) BY MoversStep
  <2>2. ASSUME NEW v, End(s, v) PROVE UNCHANGED Public
    BY <2>2 DEF End, Public, Mine
  <2>3. ASSUME NEW step, Goto(s, step) PROVE UNCHANGED Public
    BY <2>3 DEF Goto, Public
  <2>4. CASE InsertRelated(s)
    <3>1. ASSUME NEW r \in Rids, maker[r] = NoSession,
                 related' = [related EXCEPT ![r] = RowFor(spec[s])],
                 hidden' = hidden \cup {r}
          PROVE  UNCHANGED Public
      BY <3>1 DEF Public, Unborn
    <3>2. UNCHANGED Public BY <2>2, <2>3, <2>4, <3>1 DEF InsertRelated, Fetch
    <3> QED BY <2>4, <3>2 DEF InsertRelated
  <2>5. CASE Save(s)
    <3>1. PICK p \in Pks :
              \/ UNCHANGED tasks /\ End(s, "raised")
              \/ /\ tasks' = [tasks EXCEPT ![p] = Written(s, tasks[p])]
                 /\ \E v \in {"ok", "raised"} : Commit(s, v)
      <4>1. req[s].op \notin Creations => req[s].pk \in Pks BY RelatedAssumption
      <4> QED BY <2>5, <4>1 DEF Save
    <3>2. CASE UNCHANGED tasks /\ End(s, "raised") BY <2>2, <3>2
    <3>3. CASE /\ tasks' = [tasks EXCEPT ![p] = Written(s, tasks[p])]
               /\ \E v \in {"ok", "raised"} : Commit(s, v)
      <4>1. PICK v \in {"ok", "raised"} : Commit(s, v) BY <3>3
      <4>2. verdict'[s] = v BY <4>1 DEF Commit
      <4>3. tasks'[p] = Written(s, tasks[p]) /\ \A q \in Pks \ {p} : tasks'[q] = tasks[q]
        BY <3>3
      <4>4. Mine(s) \subseteq {fk[s]} BY DEF KeysInv, HiddenRows, Mine
      <4>5. \A r \in Rids \ {fk[s]} : Public'[r] = Public[r]
        BY <4>1, <4>4 DEF Commit, Public
      <4>6. pc[s] = "save" BY <2>5 DEF Save
      <4> QED BY <4>2, <4>3, <4>5, <4>6, WrittenPoints
    <3> QED BY <3>1, <3>2, <3>3
  <2>6. CASE Start(s) \/ Begin(s) \/ Lookup(s) \/ DatabaseError(s)
    <3>1. UNCHANGED tasks BY <2>6 DEF Start, Begin, Lookup, DatabaseError
    <3>2. UNCHANGED Public
      BY <2>2, <2>3, <2>6 DEF Start, Begin, Lookup, Fetch, DatabaseError
    <3> QED BY <3>1, <3>2
  <2> QED BY <2>1, <2>4, <2>5, <2>6 DEF Session
<1>2. RelatedInv /\ CasInv /\ KeysInv /\ [Next]_vars =>
        [\A s \in Sessions : IsNative(s) /\ pc'[s] # pc[s] =>
            \/ UNCHANGED <<tasks, Public>>
            \/ /\ verdict'[s] \in {"ok", "raised"}
               /\ \E p \in Pks :
                     /\ tasks'[p] # NoRow /\ \E attr \in Attrs : tasks'[p][attr] = fk[s]
                     /\ \A q \in Pks \ {p} : tasks'[q] = tasks[q]
               /\ \A r \in Rids \ {fk[s]} : Public'[r] = Public[r]]_vars
  BY <1>1
<1> QED BY <1>2, RelatedInvariant, TablesInvariant, PTL DEF Spec, NativeIsAllOrNothing

-----------------------------------------------------------------------------
(* The inventory.                                                            *)

\* Every schedule of the inventory is found again by its id and nothing else is,
\* for any tables, names and beat_schedule.
THEOREM ListingsAreFound == Spec => []ListedIsFound
<1>1. ListedIsFound
  <2> SUFFICES ASSUME NEW x \in Inventory PROVE Get(x.external_id) = {x}
    BY DEF ListedIsFound
  <2>1. CASE x \in DcbList
    <3>1. PICK p \in Pks : Exists(p) /\ x = Mapped(p) BY <2>1 DEF DcbList
    <3>2. x.external_id = DcbId(p) BY <3>1 DEF Mapped, MapPeriodicTask
    <3>3. \A q : DcbId(p).of = q <=> q = p BY DEF DcbId
    <3>4. DcbGet(DcbId(p)) = {Mapped(p)} BY <3>1, <3>3 DEF DcbGet, DcbId
    <3> QED BY <3>1, <3>2, <3>4 DEF Get
  <2>2. CASE x \in StaticList
    <3>1. PICK e \in Entries : x = MapStaticEntry(e) BY <2>2 DEF StaticList
    <3>2. \A f \in Entries : MapStaticEntry(f).external_id = StaticId(f.name)
      BY DEF MapStaticEntry
    <3>3. \A f \in Entries : StaticId(f.name) = StaticId(e.name) => f = e
      BY <3>1, TablesAssumption DEF StaticId
    <3>4. DcbGet(StaticId(e.name)) = {} BY DEF DcbGet, StaticId
    <3>5. StaticGet(StaticId(e.name)) = {x}
      BY <3>1, <3>2, <3>3 DEF StaticGet, StaticList, StaticId
    <3> QED BY <3>1, <3>2, <3>4, <3>5 DEF Get
  <2> QED BY <2>1, <2>2 DEF Inventory
<1> QED BY <1>1, PTL

-----------------------------------------------------------------------------
(* What is written is read back.  From the look-up to the save a session     *)
(* holds a key; the row under it is what was asked for, unless somebody has  *)
(* edited it in place or deleted it (AtHand).                                *)

AtHand(s) ==
    /\ pc[s] \in {"build", "insert", "save"} =>
           ParseJsonField(spec[s].args) = spec[s].args
    /\ pc[s] = "save" /\ s \notin disturbed =>
           related[fk[s]] \in {RowFor(spec[s]), NoRow}

\* Reading a JSON column twice is reading it once.
LEMMA ParsedStays == \A text : ParseJsonField(ParseJsonField(text)) = ParseJsonField(text)
BY DEF ParseJsonField

\* A session has at hand what it is to write, after its own steps and others'.
LEMMA SessionAtHand ==
    ASSUME RelatedInv, CasInv, NEW s \in Sessions, Session(s), NEW u \in Sessions, AtHand(u)
    PROVE  AtHand(u)'
<1> USE DEF RelatedInv, Shape, CasInv
<1>1. CASE u # s
  <2>1. pc'[u] = pc[u] /\ spec'[u] = spec[u] /\ fk'[u] = fk[u] /\ disturbed' = disturbed
    BY <1>1, SessionFrame
  <2>2. RowFor(spec[u])' = RowFor(spec[u]) BY <2>1, SpecFrame
  <2>3. pc[u] = "save" => related'[fk[u]] \in {related[fk[u]], NoRow}
    BY SessionRows DEF Ready
  <2> QED BY <2>1, <2>2, <2>3 DEF AtHand
<1>2. CASE u = s /\ pc'[s] \in {"idle", "begin", "done"}
  BY <1>2 DEF AtHand
<1>3. CASE u = s /\ Begin(s) /\ pc'[s] = "build"
  <2>1. req[s] \in Requests /\ req[s].op \in Creations \cup {"update", "mutate_update"}
    BY RelatedAssumption
  <2>2. \/ req[s].op # "mutate_update" /\ spec'[s] = Patched(Blank, req[s].changes)
        \/ spec'[s] = Patched(Mapped(req[s].pk), req[s].changes)
    BY <1>3 DEF Begin, Goto, End, Creations
  <2>3. ParseJsonField(Mapped(req[s].pk).args) = Mapped(req[s].pk).args
    BY ParsedStays DEF Mapped, MapPeriodicTask
  <2>4. ParseJsonField(spec'[s].args) = spec'[s].args
    BY <2>1, <2>2, <2>3, TablesAssumption DEF Patched
  <2> QED BY <1>3, <2>4 DEF AtHand
<1>4. CASE u = s /\ Lookup(s) /\ pc'[s] \in {"insert", "save"}
  <2>1. UNCHANGED <<spec, related, disturbed>>
    BY <1>4 DEF Lookup, Fetch, Goto, End
  <2>2. RowFor(spec[s])' = RowFor(spec[s]) BY <2>1, SpecFrame
  <2>3. pc'[s] = "save" => related[fk'[s]] = RowFor(spec[s])
    BY <1>4, <2>1 DEF Lookup, Fetch, Goto, End, Matches
  <2> QED BY <1>4, <2>1, <2>2, <2>3 DEF AtHand, Lookup
<1>5. CASE u = s /\ InsertRelated(s) /\ pc'[s] = "save"
  <2>1. UNCHANGED spec BY <1>5 DEF InsertRelated
  <2>2. RowFor(spec[s])' = RowFor(spec[s]) BY <2>1, SpecFrame
  <2>3. related'[fk'[s]] = RowFor(spec[s])
    BY <1>5 DEF InsertRelated, Fetch, Goto, End, Committed
  <2> QED BY <1>5, <2>1, <2>2, <2>3 DEF AtHand, InsertRelated
<1>6. CASE u = s
  <2>1. \/ pc'[s] \in {"idle", "begin", "done"}
        \/ Begin(s) /\ pc'[s] = "build"
        \/ Lookup(s) /\ pc'[s] \in {"insert", "save"}
        \/ InsertRelated(s) /\ pc'[s] = "save"
    BY DEF Session, Start, Begin, Lookup, InsertRelated, Save, DatabaseError, Fetch, Goto, End,
           Commit
  <2> QED BY <1>2, <1>3, <1>4, <1>5, <1>6, <2>1
<1> QED BY <1>1, <1>6

\* The administration site takes it away only by deleting the row or under the
\* eyes of the session.
LEMMA AdminAtHand ==
    ASSUME RelatedInv, CasInv, NEW u \in Sessions, AtHand(u),
           \/ \E p \in Pks : AdminSave(p) \/ AdminDelete(p)
           \/ \E r \in Rids : AdminEditRelated(r) \/ AdminDeleteRelated(r)
    PROVE  AtHand(u)'
<1> USE DEF RelatedInv, Shape
<1>1. UNCHANGED <<pc, spec, fk>>
  BY DEF AdminSave, AdminDelete, AdminEditRelated, AdminDeleteRelated, Edit
<1>2. RowFor(spec[u])' = RowFor(spec[u]) BY <1>1, SpecFrame
<1>3. pc[u] = "save" /\ u \notin disturbed' =>
          u \notin disturbed /\ related'[fk[u]] \in {related[fk[u]], NoRow}
  <2>1. pc[u] = "save" => fk[u] \in Rids BY DEF CasInv, Ready
  <2>2. CASE \E r \in Rids : AdminEditRelated(r)
    BY <2>2 DEF AdminEditRelated, Building
  <2>3. CASE ~\E r \in Rids : AdminEditRelated(r)
    BY <2>1, <2>3 DEF AdminSave, AdminDelete, AdminDeleteRelated
  <2> QED BY <2>2, <2>3
<1> QED BY <1>1, <1>2, <1>3 DEF AtHand

\* Every session has at hand what it is to write, in every state.
LEMMA AlwaysAtHand == Spec => [](\A s \in Sessions : AtHand(s))
<1>1. Init => \A s \in Sessions : AtHand(s) BY DEF Init, AtHand
<1>2. ASSUME RelatedInv, CasInv, \A s \in Sessions : AtHand(s), [Next]_vars
      PROVE  \A s \in Sessions : AtHand(s)'
  <2>1. CASE UNCHANGED vars
    <3>1. \A s \in Sessions : RowFor(spec[s])' = RowFor(spec[s])
      BY <2>1, SpecFrame DEF vars
    <3> QED BY <1>2, <2>1, <3>1 DEF vars, AtHand
  <2> QED BY <1>2, <2>1, SessionAtHand, AdminAtHand DEF Next
<1>3. RelatedInv /\ CasInv /\ (\A s \in Sessions : AtHand(s)) /\ [Next]_vars
        => (\A s \in Sessions : AtHand(s))'
  BY <1>2
<1> QED BY <1>1, <1>3, RelatedInvariant, TablesInvariant, PTL DEF Spec

\* What the mapper says of a task just written is what was asked for, coordinates
\* to the nearest millionth of a degree, for every schedule that can be written,
\* whatever schedule the task had before and whether or not the database rounds
\* what it looks for.
THEOREM WritesAreReadBack == Spec => WrittenIsRead
<1> DEFINE Place(s) == IF req[s].op \in Creations THEN {q \in Pks : ~Exists(q)} ELSE {req[s].pk}
           Says(s, p) == /\ tasks'[p] # NoRow
                         /\ Mapped(p)'.name = spec[s].name
                         /\ Mapped(p)'.kind = spec[s].kind
                         /\ Mapped(p)'.expression = Meant(spec[s])
                         /\ spec[s].kind = "cron" => Mapped(p)'.timezone = spec[s].timezone
                         /\ spec[s].kind = "solar" => Nearest(Mapped(p)'.place, spec[s].place)
                         /\ Mapped(p)'.args = spec[s].args
                         /\ tasks'[p].one_off = (spec[s].kind = "clocked")
<1>1. ASSUME RelatedInv, CasInv, KeysInv, [Next]_vars, NEW s \in Sessions, AtHand(s),
             Lands(s), s \notin disturbed
      PROVE  \E p \in Place(s) : Says(s, p)
  <2>1. Save(s) BY <1>1, LandingSaves
  <2>2. PICK p \in Place(s) : /\ fk[s] \in Committed \cup Mine(s)
                              /\ tasks' = [tasks EXCEPT ![p] = Written(s, tasks[p])]
                              /\ UNCHANGED related
    BY <1>1, <2>1 DEF Save, Lands, End, Commit, RelatedInv, Shape
  <2>3. p \in Pks BY <1>1, <2>2, RelatedAssumption DEF RelatedInv, Shape
  <2>4. tasks'[p] = Written(s, tasks[p]) BY <1>1, <2>2, <2>3 DEF RelatedInv, Shape
  <2> DEFINE d == spec[s]
             row == RowFor(d)
  <2>5. /\ d.kind \in Kinds /\ Rejection(d) = "none" /\ ParseJsonField(d.args) = d.args
        /\ fk[s] \in Rids /\ related[fk[s]] \in {row, NoRow}
    BY <1>1, <2>1 DEF Save, CasInv, Ready, AtHand
  <2>6. related'[fk[s]] = row
    BY <1>1, <2>2, <2>5 DEF Committed, Mine, KeysInv, HiddenRows
  <2>7. row.attr \in Attrs BY <2>5, RowForIsWellFormed
  <2> DEFINE task == Written(s, tasks[p])
             rows == [a \in Attrs |-> IF a = row.attr THEN row ELSE NoRow]
  <2>8. /\ task.name = d.name /\ task.args = d.args
        /\ task.one_off = (d.kind = "clocked")
        /\ \A a \in Attrs : task[a] = IF a = row.attr THEN fk[s] ELSE NoId
    BY DEF Written, Attrs
  <2>9. task # NoRow
    <3>1. "name" \in DOMAIN task /\ "name" \notin DOMAIN NoRow BY DEF Written, NoRow
    <3> QED BY <3>1
  <2>10. Joined(p)' = [task |-> task, rows |-> rows]
    <3>1. fk[s] # NoId BY <2>5, RelatedAssumption
    <3> QED BY <2>4, <2>6, <2>8, <2>9, <3>1 DEF Joined, Exists
  <2>11. /\ ResolveKindAndExpression(rows).kind = d.kind
         /\ ResolveKindAndExpression(rows).expression = Meant(d)
         /\ d.kind = "cron" => ResolveKindAndExpression(rows).timezone = d.timezone
         /\ d.kind = "solar" => Nearest(Coordinates(rows), d.place)
    BY <2>5, RoundTrip
  <2>12. Mapped(p)' = MapPeriodicTask(p, Joined(p)') BY DEF Mapped
  <2> HIDE DEF task, rows, row, d
  <2>13. /\ Mapped(p)'.name = task.name
         /\ Mapped(p)'.kind = ResolveKindAndExpression(rows).kind
         /\ Mapped(p)'.expression = ResolveKindAndExpression(rows).expression
         /\ Mapped(p)'.timezone = ResolveKindAndExpression(rows).timezone
         /\ Mapped(p)'.place = Coordinates(rows)
         /\ Mapped(p)'.args = ParseJsonField(task.args)
    BY <2>10, <2>12 DEF MapPeriodicTask
  <2>14. Says(s, p) BY <2>4, <2>5, <2>8, <2>9, <2>11, <2>13 DEF d, task
  <2> QED BY <2>2, <2>14
<1>2. RelatedInv /\ CasInv /\ KeysInv /\ (\A s \in Sessions : AtHand(s)) /\ [Next]_vars =>
        [\A s \in Sessions : Lands(s) /\ s \notin disturbed =>
            \E p \in IF req[s].op \in Creations THEN {q \in Pks : ~Exists(q)} ELSE {req[s].pk} :
                /\ tasks'[p] # NoRow
                /\ Mapped(p)'.name = spec[s].name
                /\ Mapped(p)'.kind = spec[s].kind
                /\ Mapped(p)'.expression = Meant(spec[s])
                /\ spec[s].kind = "cron" => Mapped(p)'.timezone = spec[s].timezone
                /\ spec[s].kind = "solar" => Nearest(Mapped(p)'.place, spec[s].place)
                /\ Mapped(p)'.args = spec[s].args
                /\ tasks'[p].one_off = (spec[s].kind = "clocked")]_vars
  BY <1>1
<1> QED
  BY <1>2, RelatedInvariant, TablesInvariant, AlwaysAtHand, PTL DEF Spec, WrittenIsRead
===============================================================================
