--------------------------- MODULE AtomicTableProofs ---------------------------
(***************************************************************************)
(* PeriodicTaskStore implements AtomicTable, for every number of sessions, *)
(* rows and requests; and the properties that come with it.                *)
(*                                                                         *)
(* Two facts are added to StoreInv.  Addressed: a session that holds an    *)
(* exact identity works on that row at every later statement.  Final: the  *)
(* commit is the last thing a function does, and a definite answer is the  *)
(* verdict of a function that has ended.                                   *)
(***************************************************************************)
EXTENDS PeriodicTaskStoreProofs

Definite == Refusals \cup {"ok"}

Final(s) ==
    /\ landed[s] => pc[s] = "done" /\ verdict[s] \in {"ok", "raised"}
    /\ verdict[s] = "ok" => landed[s] \/ req[s].op \in {"get", "delete"}
    /\ reply[s] \in Definite => pc[s] = "done" /\ reply[s] = verdict[s]
    /\ pc[s] = "idle" => reply[s] = "none"

Addressed(s) ==
    /\ pc[s] = "resolve_pk" => req[s].pk = NoPk
    /\ pc[s] \in {"check", "insert"} => req[s].pk = NoPk
    /\ pc[s] \in {"lock", "write"} => target[s] \in Pks
    /\ pc[s] \in {"lock", "write"} /\ req[s].pk # NoPk => target[s] = req[s].pk

Settled == \A s \in Sessions : Final(s) /\ Addressed(s)

AtomicInv == StoreInv /\ Settled

-----------------------------------------------------------------------------
(* What a step leaves alone, and how it ends. *)

Own(t) == <<pc[t], verdict[t], reply[t], landed[t], target[t]>>

\* A statement, or an error of the database, is the function's own.
LEMMA FunctionFrame ==
    ASSUME TypeOK, NEW s \in Sessions, Statement(s) \/ DatabaseError(s)
    PROVE  /\ UNCHANGED <<req, reply>>
           /\ \A t \in Sessions \ {s} : Own(t)' = Own(t)
<1>1. ASSUME NEW v, End(s, v)
      PROVE  \A t \in Sessions \ {s} : pc'[t] = pc[t] /\ verdict'[t] = verdict[t]
  BY <1>1 DEF TypeOK, End
<1>2. ASSUME NEW step, Goto(s, step)
      PROVE  \A t \in Sessions \ {s} : pc'[t] = pc[t] /\ verdict'[t] = verdict[t]
  BY <1>2 DEF TypeOK, Goto
<1>3. CASE Begin(s)
  <2>1. UNCHANGED <<req, reply, landed>> /\ \A t \in Sessions \ {s} : target'[t] = target[t]
    BY <1>3 DEF Begin, TypeOK
  <2>2. (\E v : End(s, v)) \/ (\E step : Goto(s, step))
    BY <1>3 DEF Begin
  <2> QED BY <1>1, <1>2, <2>1, <2>2 DEF Own
<1>4. ASSUME NEW p \in Pks, Found(s, p), UNCHANGED <<req, reply, landed>>
      PROVE  \A t \in Sessions \ {s} : Own(t)' = Own(t)
  <2>1. \A t \in Sessions \ {s} : target'[t] = target[t]
    BY <1>4 DEF Found, TypeOK
  <2>2. End(s, "ok") \/ Goto(s, "lock") \/ Goto(s, "write")
    BY <1>4 DEF Found
  <2> QED BY <1>1, <1>2, <1>4, <2>1, <2>2 DEF Own
<1>5. ASSUME Missing(s), UNCHANGED <<req, reply, landed>>
      PROVE  \A t \in Sessions \ {s} : Own(t)' = Own(t)
  <2>1. \E v : End(s, v) /\ UNCHANGED target
    BY <1>5 DEF Missing
  <2> QED BY <1>1, <1>5, <2>1 DEF Own
<1>6. CASE Resolve(s) \/ ResolvePk(s)
  <2>1. UNCHANGED <<req, reply, landed>> BY <1>6 DEF Resolve, ResolvePk
  <2>2. \/ \E p \in Pks : Found(s, p)
        \/ Missing(s)
        \/ Goto(s, "resolve_pk") /\ UNCHANGED target
    BY <1>6, RequestParts, StoreAssumption DEF Resolve, ResolvePk, Named
  <2> QED BY <1>2, <1>4, <1>5, <2>1, <2>2 DEF Own
<1>7. CASE CheckName(s) \/ NameClash(s) \/ DatabaseError(s)
  <2>1. UNCHANGED <<req, target, reply, landed>>
    BY <1>7 DEF CheckName, NameClash, DatabaseError
  <2>2. (\E v : End(s, v)) \/ (\E step : Goto(s, step))
    BY <1>7 DEF CheckName, NameClash, DatabaseError
  <2> QED BY <1>1, <1>2, <2>1, <2>2 DEF Own
<1>8. CASE LockToToggle(s) \/ LockToMutate(s)
  <2>1. UNCHANGED <<req, target, reply, landed>>
    BY <1>8 DEF LockToToggle, LockToMutate
  <2>2. (\E v : End(s, v)) \/ LockRow(s)
    BY <1>8 DEF LockToToggle, LockToMutate
  <2>3. ASSUME LockRow(s)
        PROVE  \A t \in Sessions \ {s} : pc'[t] = pc[t] /\ verdict'[t] = verdict[t]
    BY <2>3 DEF LockRow, TypeOK
  <2> QED BY <1>1, <2>1, <2>2, <2>3 DEF Own
<1>9. CASE Insert(s) \/ WriteRow(s) \/ WriteEnabled(s) \/ WriteDelete(s)
  <2>1. Commit(s)
    BY <1>9 DEF Insert, WriteRow, WriteEnabled, WriteDelete
  <2>2. UNCHANGED <<req, target, reply>> /\ landed' = [landed EXCEPT ![s] = TRUE]
    BY <2>1 DEF Commit
  <2>3. \A t \in Sessions \ {s} : landed'[t] = landed[t]
    BY <2>2 DEF TypeOK
  <2>4. \E v : End(s, v) BY <2>1 DEF Commit
  <2> QED BY <1>1, <2>2, <2>3, <2>4 DEF Own
<1>10. UNCHANGED <<req, reply>>
  BY DEF Statement, Begin, Resolve, ResolvePk, CheckName, Insert, LockToToggle, LockToMutate,
         WriteRow, WriteEnabled, WriteDelete, NameClash, DatabaseError, Commit
<1> QED BY <1>3, <1>6, <1>7, <1>8, <1>9, <1>10 DEF Statement

\* How the function's own step leaves a session that is still running: with no
\* definite answer and nothing committed.
LEMMA StillRunning ==
    ASSUME StoreInv, Settled, NEW s \in Sessions, pc[s] # "done"
    PROVE  ~landed[s] /\ reply[s] \notin Definite
BY DEF Settled, Final

\* A function that ends without a commit: an "ok" is for a lookup, or for a
\* deletion that found nothing left to do.
LEMMA EndSettles ==
    ASSUME StoreInv, Settled, NEW s \in Sessions, pc[s] # "done", NEW v, End(s, v),
           v = "ok" => req[s].op \in {"get", "delete"},
           UNCHANGED <<req, reply, landed>>
    PROVE  Final(s)' /\ Addressed(s)'
<1>1. pc'[s] = "done" /\ verdict'[s] = v BY DEF StoreInv, TypeOK, End
<1>2. ~landed'[s] /\ reply'[s] \notin Definite BY StillRunning
<1> QED BY <1>1, <1>2 DEF Final, Addressed

\* A function that goes on.
LEMMA GotoSettles ==
    ASSUME StoreInv, Settled, NEW s \in Sessions, pc[s] # "done", NEW step, step # "done",
           step # "idle", Goto(s, step), UNCHANGED <<req, reply, landed>>,
           step \in {"check", "insert", "resolve_pk"} => req[s].pk = NoPk,
           step \in {"lock", "write"} =>
               target'[s] \in Pks /\ (req[s].pk # NoPk => target'[s] = req[s].pk)
    PROVE  Final(s)' /\ Addressed(s)'
<1>1. pc'[s] = step /\ verdict'[s] = verdict[s] BY DEF StoreInv, TypeOK, Goto
<1>2. ~landed'[s] /\ reply'[s] \notin Definite BY StillRunning
<1>3. verdict'[s] = "ok" => req'[s].op \in {"get", "delete"}
  BY <1>1 DEF Settled, Final
<1> QED BY <1>1, <1>2, <1>3 DEF Final, Addressed

\* A commit ends the function, with "ok" or an exception.
LEMMA CommitSettles ==
    ASSUME StoreInv, Settled, NEW s \in Sessions, pc[s] # "done", Commit(s)
    PROVE  Final(s)' /\ Addressed(s)'
<1>1. PICK v \in {"ok", "raised"} : End(s, v) BY DEF Commit
<1>2. pc'[s] = "done" /\ verdict'[s] = v BY <1>1 DEF StoreInv, TypeOK, End
<1>3. landed'[s] /\ UNCHANGED <<req, reply>> BY DEF StoreInv, TypeOK, Commit
<1>4. reply'[s] \notin Definite BY <1>3, StillRunning
<1> QED BY <1>2, <1>3, <1>4 DEF Final, Addressed

\* Finding a row keeps the identity: the row found is the one named.
LEMMA FoundSettles ==
    ASSUME StoreInv, Settled, NEW s \in Sessions, pc[s] # "done", NEW p \in Pks, Found(s, p),
           UNCHANGED <<req, reply, landed>>, req[s].pk # NoPk => p = req[s].pk
    PROVE  Final(s)' /\ Addressed(s)'
<1>1. target'[s] = p BY DEF StoreInv, TypeOK, Found
<1>2. CASE req[s].op = "get"
  <2>1. End(s, "ok") BY <1>2 DEF Found
  <2> QED BY <1>2, <2>1, EndSettles
<1>3. CASE req[s].op = "set_enabled"
  <2>1. Goto(s, "lock") BY <1>3 DEF Found
  <2> QED BY <1>1, <2>1, GotoSettles
<1>4. CASE req[s].op \notin {"get", "set_enabled"}
  <2>1. Goto(s, "write") BY <1>4 DEF Found
  <2> QED BY <1>1, <2>1, GotoSettles
<1> QED BY <1>2, <1>3, <1>4

\* Not finding one: only a deletion may be content.
LEMMA MissingSettles ==
    ASSUME StoreInv, Settled, NEW s \in Sessions, pc[s] \in {"resolve", "resolve_pk"}, Missing(s),
           UNCHANGED <<req, reply, landed>>
    PROVE  Final(s)' /\ Addressed(s)'
<1>1. req[s].op \in {"get", "update", "delete", "set_enabled"}
  BY DEF StoreInv, Positions
<1>2. PICK v : /\ End(s, v)
               /\ v = "ok" => req[s].op = "delete"
  BY <1>1 DEF Missing
<1> QED BY <1>2, EndSettles

\* Every statement, and every error of the database.
LEMMA FunctionSettles ==
    ASSUME StoreInv, Settled, NEW s \in Sessions, Statement(s) \/ DatabaseError(s)
    PROVE  Final(s)' /\ Addressed(s)'
<1>1. CASE Begin(s)
  <2>1. /\ pc[s] # "done" /\ UNCHANGED <<req, reply, landed>>
        /\ target'[s] = req[s].pk
        /\ req[s].op = "create" => req[s].pk = NoPk
        /\ req[s].pk \in Pks \cup {NoPk}
    BY <1>1, StoreAssumption, RequestParts DEF Begin, StoreInv, TypeOK
  <2>2. CASE End(s, "refused")
    BY <2>1, <2>2, EndSettles
  <2>3. CASE Goto(s, "check") /\ req[s].pk = NoPk
    BY <2>1, <2>3, GotoSettles
  <2>4. CASE Goto(s, "resolve")
    BY <2>1, <2>4, GotoSettles
  <2>5. CASE Goto(s, "lock") /\ req[s].pk # NoPk
    BY <2>1, <2>5, GotoSettles
  <2> QED BY <1>1, <2>1, <2>2, <2>3, <2>4, <2>5 DEF Begin
<1>2. CASE Resolve(s)
  <2>1. pc[s] = "resolve" /\ UNCHANGED <<req, reply, landed>> BY <1>2 DEF Resolve
  <2>2. CASE \E p \in Pks : Found(s, p) /\ (req[s].pk # NoPk => p = req[s].pk)
    BY <2>1, <2>2, FoundSettles
  <2>3. CASE Missing(s) BY <2>1, <2>3, MissingSettles
  <2>4. CASE Goto(s, "resolve_pk") /\ req[s].pk = NoPk
    BY <2>1, <2>4, GotoSettles
  <2> QED BY <1>2, <2>2, <2>3, <2>4, RequestParts DEF Resolve, Named, StoreInv
<1>3. CASE ResolvePk(s)
  <2>1. /\ pc[s] = "resolve_pk" /\ UNCHANGED <<req, reply, landed>>
        /\ req[s].pk = NoPk
    BY <1>3 DEF ResolvePk, Settled, Addressed
  <2>2. ASSUME NEW n \in DOMAIN AsPk PROVE AsPk[n] \in Pks BY StoreAssumption
  <2>3. CASE \E p \in Pks : Found(s, p) BY <2>1, <2>3, FoundSettles
  <2>4. CASE Missing(s) BY <2>1, <2>4, MissingSettles
  <2> QED BY <1>3, <2>2, <2>3, <2>4 DEF ResolvePk
<1>4. CASE CheckName(s)
  <2>1. /\ pc[s] = "check" /\ UNCHANGED <<req, reply, landed>>
        /\ req[s].pk = NoPk
    BY <1>4 DEF CheckName, Settled, Addressed
  <2>2. CASE Goto(s, "insert") BY <2>1, <2>2, GotoSettles
  <2>3. CASE End(s, "ConflictError") BY <2>1, <2>3, EndSettles
  <2> QED BY <1>4, <2>2, <2>3 DEF CheckName
<1>5. CASE NameClash(s) \/ DatabaseError(s)
  <2>1. pc[s] # "done" /\ UNCHANGED <<req, reply, landed>> /\ End(s, "raised")
    BY <1>5 DEF NameClash, DatabaseError
  <2> QED BY <2>1, EndSettles
<1>6. CASE LockToToggle(s) \/ LockToMutate(s)
  <2>1. pc[s] = "lock" /\ UNCHANGED <<req, target, reply, landed>>
    BY <1>6 DEF LockToToggle, LockToMutate
  <2>2. CASE LockRow(s)
    <3>1. pc'[s] = "write" /\ verdict' = verdict
      BY <2>2 DEF LockRow, StoreInv, TypeOK
    <3>2. ~landed'[s] /\ reply'[s] \notin Definite BY <2>1, StillRunning
    <3>3. verdict'[s] = "ok" => req'[s].op \in {"get", "delete"}
      BY <2>1, <3>1 DEF Settled, Final
    <3>4. target'[s] \in Pks /\ (req'[s].pk # NoPk => target'[s] = req'[s].pk)
      BY <2>1 DEF Settled, Addressed
    <3> QED BY <3>1, <3>2, <3>3, <3>4 DEF Final, Addressed
  <2>3. CASE \E v \in Refusals \cup {"raised"} : End(s, v)
    BY <2>1, <2>3, EndSettles DEF Refusals
  <2> QED BY <1>6, <2>2, <2>3 DEF LockToToggle, LockToMutate, Refusals
<1>7. CASE Insert(s) \/ WriteRow(s) \/ WriteEnabled(s) \/ WriteDelete(s)
  BY <1>7, CommitSettles DEF Insert, WriteRow, WriteEnabled, WriteDelete
<1> QED BY <1>1, <1>2, <1>3, <1>4, <1>5, <1>6, <1>7 DEF Statement

\* The coroutine's steps: only a function that has ended is answered for.
LEMMA CoroutineSettles ==
    ASSUME StoreInv, Settled, NEW s \in Sessions, Submit(s) \/ TimeOut(s) \/ Deliver(s)
    PROVE  Settled'
<1>1. UNCHANGED <<rows, used, req, target, verdict, landed>>
  BY DEF Submit, TimeOut, Deliver
<1>2. ASSUME NEW t \in Sessions PROVE Final(t)' /\ Addressed(t)'
  <2>1. Final(t) /\ Addressed(t) BY DEF Settled
  <2>2. CASE Submit(s)
    BY <1>1, <2>1, <2>2 DEF Submit, Final, Addressed, Definite, Refusals, StoreInv, TypeOK
  <2>3. CASE TimeOut(s)
    BY <1>1, <2>1, <2>3 DEF TimeOut, TimedOut, Final, Addressed, Definite, Refusals, StoreInv, TypeOK
  <2>4. CASE Deliver(s)
    BY <1>1, <2>1, <2>4 DEF Deliver, Final, Addressed, Definite, Refusals, StoreInv, TypeOK
  <2> QED BY <2>2, <2>3, <2>4
<1> QED BY <1>2 DEF Settled

-----------------------------------------------------------------------------
(* The invariant. *)

\* Nothing has been answered or committed at the start.
LEMMA InitAtomic == Init => AtomicInv
BY InitStore DEF Init, AtomicInv, Settled, Final, Addressed, Definite, Refusals

\* Every step keeps it.
LEMMA NextAtomic == AtomicInv /\ [Next]_vars => AtomicInv'
<1> SUFFICES ASSUME AtomicInv, [Next]_vars PROVE Settled'
  BY NextStore DEF AtomicInv
<1> USE DEF AtomicInv
<1>1. ASSUME NEW s \in Sessions, Session(s) PROVE Settled'
  <2>1. CASE Submit(s) \/ TimeOut(s) \/ Deliver(s)
    BY <2>1, CoroutineSettles
  <2>2. CASE Statement(s) \/ DatabaseError(s)
    <3>1. Final(s)' /\ Addressed(s)' BY <2>2, FunctionSettles
    <3>2. ASSUME NEW t \in Sessions \ {s} PROVE Final(t)' /\ Addressed(t)'
      <4>1. Own(t)' = Own(t) /\ UNCHANGED req BY <2>2, FunctionFrame DEF StoreInv
      <4> QED BY <4>1 DEF Own, Settled, Final, Addressed
    <3> QED BY <3>1, <3>2 DEF Settled
  <2> QED BY <1>1, <2>1, <2>2 DEF Session
<1>2. ASSUME NEW p \in Pks, Others(p) PROVE Settled'
  <2>1. UNCHANGED <<req, pc, target, verdict, reply, landed>>
    BY <1>2 DEF Others, AdminSave, AdminDelete, BeatTick
  <2> QED BY <2>1 DEF Settled, Final, Addressed
<1>3. CASE UNCHANGED vars
  BY <1>3 DEF vars, Settled, Final, Addressed
<1> QED BY <1>1, <1>2, <1>3 DEF Next

\* Identities are kept and answers are final in every reachable state.
THEOREM AtomicInvariant == Spec => []AtomicInv
BY InitAtomic, NextAtomic, PTL DEF Spec

-----------------------------------------------------------------------------
(* Theorems. *)

\* After a refusal nothing of the call is in the table; "ok" means that it is.
THEOREM AnswersFinal == Spec => []AnswersAreFinal
<1>1. AtomicInv => AnswersAreFinal
  BY DEF AtomicInv, Settled, Final, AnswersAreFinal, Definite, Refusals
<1> QED BY <1>1, AtomicInvariant, PTL

\* A session about to write names the row it writes; if it locked it, it has
\* seen it as it is.
LEMMA WriterFacts ==
    ASSUME AtomicInv, NEW s \in Sessions, pc[s] = "write"
    PROVE  /\ target[s] \in Pks /\ target[s] \in used
           /\ req[s].pk # NoPk => target[s] = req[s].pk
           /\ seen[s] \in Rows
           /\ req[s].op \in Locking => seen[s] = rows[target[s]] /\ Exists(target[s])
           /\ req[s].op \in {"mutate_update", "mutate_delete"} =>
                  target[s] = req[s].pk /\ seen[s].config = req[s].expected
           /\ ~landed[s] /\ reply[s] \notin Definite
<1>1. /\ target[s] \in used /\ seen[s] # NoRow
      /\ used \in SUBSET Pks /\ seen[s] \in Rows \cup {NoRow}
  BY DEF AtomicInv, StoreInv, Positions, TypeOK
<1>2. req[s].op \in Locking => seen[s] = rows[target[s]]
  BY DEF AtomicInv, StoreInv, LocksHeld, Holds
<1>3. req[s].op \in {"mutate_update", "mutate_delete"} =>
          target[s] = req[s].pk /\ seen[s].config = req[s].expected
  BY DEF AtomicInv, StoreInv, LocksHeld, Holds, Locking, Native
<1>4. req[s].pk # NoPk => target[s] = req[s].pk
  BY DEF AtomicInv, Settled, Addressed
<1>5. ~landed[s] /\ reply[s] \notin Definite
  BY StillRunning DEF AtomicInv
<1> QED BY <1>1, <1>2, <1>3, <1>4, <1>5 DEF Exists

\* The commits, in terms of the table: what each of them does to its row.
LEMMA WrittenRows ==
    ASSUME AtomicInv, NEW s \in Sessions,
           WriteRow(s) \/ WriteEnabled(s) \/ WriteDelete(s)
    PROVE  \A p \in Pks \ {target[s]} : rows'[p] = rows[p]
BY DEF AtomicInv, StoreInv, TypeOK, WriteRow, WriteEnabled, WriteDelete

\* A command addressed to "dcb:<pk>" changes that row and no other.
THEOREM IdentityIsExact == Spec => ExactIdentity
<1>1. ASSUME AtomicInv, [Next]_vars, NEW s \in Sessions, Lands(s), req[s].pk # NoPk,
             NEW p \in Pks \ {req[s].pk}
      PROVE  rows'[p] = rows[p]
  <2>1. Insert(s) \/ WriteRow(s) \/ WriteEnabled(s) \/ WriteDelete(s)
    BY <1>1, LandingStep DEF AtomicInv
  <2>2. ~Insert(s)
    BY <1>1 DEF AtomicInv, Settled, Addressed, Insert
  <2>3. target[s] = req[s].pk
    BY <1>1, <2>1, <2>2, WriterFacts DEF WriteRow, WriteEnabled, WriteDelete
  <2> QED BY <1>1, <2>1, <2>2, <2>3, WrittenRows
<1>2. AtomicInv /\ [Next]_vars =>
        [\A s \in Sessions :
            Lands(s) /\ req[s].pk # NoPk =>
                \A p \in Pks \ {req[s].pk} : rows'[p] = rows[p]]_vars
  BY <1>1
<1> QED BY <1>2, AtomicInvariant, PTL DEF Spec, ExactIdentity

\* A step sets p's run counter back, or brings p back to life.
Undone(p) ==
    \/ Exists(p) /\ rows'[p] # NoRow /\ rows'[p].runs < rows[p].runs
    \/ ~Exists(p) /\ p \in used /\ rows'[p] # NoRow

\* A row that stays as it is, or whose counter does not fall, is not undone.
LEMMA Undoing ==
    ASSUME TypeOK, NEW p \in Pks, Undone(p)
    PROVE  /\ rows'[p] # rows[p]
           /\ Exists(p) => rows'[p].runs < rows[p].runs /\ rows[p] \in Rows
<1>1. Exists(p) => rows[p].runs \in Nat /\ rows[p] \in Rows
  BY RowType, StoreAssumption
<1>2. rows'[p] # rows[p] BY <1>1 DEF Undone, Exists
<1> QED BY <1>1, <1>2 DEF Undone

\* No commit but the plain update's undoes anything.
LEMMA CommitUndoes ==
    ASSUME AtomicInv, NEW s \in Sessions, NEW p \in Pks, Undone(p),
           Insert(s) \/ WriteRow(s) \/ WriteEnabled(s) \/ WriteDelete(s)
    PROVE  Lands(s) /\ req[s].op = "update"
<1> USE DEF AtomicInv, StoreInv
<1>1. CASE Insert(s)
  <2>1. PICK q \in Pks \ used :
          rows' = [rows EXCEPT ![q] = [config |-> req[s].spec, runs |-> 0]]
    BY <1>1 DEF Insert
  <2>2. p # q BY <2>1 DEF Undone, KeysUsed
  <2>3. rows'[p] = rows[p] BY <2>1, <2>2 DEF TypeOK
  <2>4. Exists(p) => rows[p].runs \in 0..MaxRuns BY RowType
  <2> QED BY <2>3, <2>4, StoreAssumption DEF Undone, Exists
<1>2. CASE WriteRow(s) \/ WriteEnabled(s) \/ WriteDelete(s)
  <2>1. pc[s] = "write" BY <1>2 DEF WriteRow, WriteEnabled, WriteDelete
  <2>2. Exists(p) => rows[p] \in Rows /\ rows[p].runs \in 0..MaxRuns BY RowType
  <2>3. p = target[s]
    BY <1>2, <2>2, WrittenRows, StoreAssumption DEF Undone, Exists
  <2>4. ~WriteDelete(s) BY <2>3 DEF WriteDelete, Undone, TypeOK
  <2>5. ~WriteEnabled(s)
    <3>1. SUFFICES ASSUME WriteEnabled(s) PROVE FALSE OBVIOUS
    <3>2. Exists(p) BY <2>1, <2>3, <3>1, WriterFacts DEF WriteEnabled, Locking
    <3>3. rows'[p] = [rows[p] EXCEPT !.config.enabled = req[s].spec.enabled]
      BY <2>3, <3>1 DEF WriteEnabled, TypeOK
    <3>4. rows'[p].runs = rows[p].runs BY <2>2, <3>2, <3>3 DEF Rows
    <3> QED BY <2>2, <3>2, <3>4, StoreAssumption DEF Undone
  <2>6. WriteRow(s) BY <1>2, <2>4, <2>5
  <2>7. req[s].op # "mutate_update"
    <3>1. SUFFICES ASSUME req[s].op = "mutate_update" PROVE FALSE OBVIOUS
    <3>2. Exists(p) /\ seen[s] = rows[p] BY <2>1, <2>3, <3>1, WriterFacts DEF Locking
    <3>3. rows'[p].runs = rows[p].runs BY <2>3, <2>6, <3>2 DEF WriteRow, TypeOK
    <3> QED BY <2>2, <3>2, <3>3, StoreAssumption DEF Undone
  <2>8. landed'[s] /\ ~landed[s]
    BY <2>1, <2>6, WriterFacts DEF WriteRow, Commit, TypeOK
  <2> QED BY <2>6, <2>7, <2>8 DEF WriteRow, Lands
<1> QED BY <1>1, <1>2

\* Only update_schedule undoes what Beat has counted or others have deleted.
THEOREM PlainUpdateOnlyUndoes == Spec => OnlyPlainUpdateUndoes
<1>1. ASSUME AtomicInv, [Next]_vars, NEW p \in Pks, Undone(p)
      PROVE  \E s \in Sessions : Lands(s) /\ req[s].op = "update"
  <2> USE DEF AtomicInv, StoreInv
  <2>1. Exists(p) => rows[p] \in Rows /\ rows[p].runs \in 0..MaxRuns BY <1>1, RowType
  <2>2. rows' # rows BY <1>1, <2>1, StoreAssumption DEF Undone, Exists
  <2>3. ASSUME NEW s \in Sessions, Session(s)
        PROVE  Insert(s) \/ WriteRow(s) \/ WriteEnabled(s) \/ WriteDelete(s)
    BY <2>2, <2>3
       DEF Session, Statement, Submit, TimeOut, Deliver, Begin, Resolve, ResolvePk,
           CheckName, LockToToggle, LockToMutate, NameClash, DatabaseError
  <2>4. ASSUME NEW q \in Pks, Others(q) PROVE FALSE
    <3>1. Exists(q) BY <2>4 DEF Others, AdminSave, AdminDelete, BeatTick, Unlocked
    <3>2. p # q => rows'[p] = rows[p]
      BY <1>1, <2>4 DEF Others, AdminSave, AdminDelete, BeatTick, TypeOK
    <3>3. p = q BY <1>1, <3>2, Undoing
    <3>4. ASSUME NEW c \in Configs, AdminSave(p, c) PROVE FALSE
      <4>1. rows'[p] = [rows[p] EXCEPT !.config = c]
        BY <1>1, <3>4 DEF AdminSave, TypeOK
      <4>2. rows'[p].runs = rows[p].runs BY <2>1, <3>1, <3>3, <4>1 DEF Rows
      <4> QED BY <1>1, <2>1, <3>1, <3>3, <4>2, Undoing
    <3>5. CASE AdminDelete(p) BY <1>1, <3>5 DEF AdminDelete, Undone, TypeOK
    <3>6. CASE BeatTick(p)
      <4>1. rows'[p] = [rows[p] EXCEPT !.runs = @ + 1]
        BY <1>1, <3>6 DEF BeatTick, TypeOK
      <4>2. rows'[p].runs = rows[p].runs + 1 BY <2>1, <3>1, <3>3, <4>1 DEF Rows
      <4> QED BY <1>1, <2>1, <3>1, <3>3, <4>2, StoreAssumption, Undoing
    <3> QED BY <2>4, <3>3, <3>4, <3>5, <3>6 DEF Others
  <2>5. rows' = rows => FALSE BY <2>2
  <2>6. \E s \in Sessions : Session(s) BY <1>1, <2>4, <2>5 DEF Next, vars
  <2> QED BY <1>1, <2>3, <2>6, CommitUndoes
<1>2. AtomicInv /\ [Next]_vars =>
        [\A p \in Pks :
          \/ Exists(p) /\ rows'[p] # NoRow /\ rows'[p].runs < rows[p].runs
          \/ ~Exists(p) /\ p \in used /\ rows'[p] # NoRow
          => \E s \in Sessions : Lands(s) /\ req[s].op = "update"]_vars
  BY <1>1 DEF Undone
<1> QED BY <1>2, AtomicInvariant, PTL DEF Spec, OnlyPlainUpdateUndoes

-----------------------------------------------------------------------------
(* The refinement. *)

\* How the replies read.
LEMMA ToldIs ==
    /\ Told("none") = "open" /\ Told("waiting") = "open" /\ Told("ok") = "ok"
    /\ \A r \in Refusals : Told(r) = "no"
    /\ \A r \in {"raised", "indeterminate", "OffloadTimeoutError"} : Told(r) = "unknown"
<1>1. Told("none") = "open" /\ Told("waiting") = "open" BY DEF Told, Refusals
<1>2. Told("ok") = "ok" BY DEF Told, Refusals
<1>3. ASSUME NEW r \in Refusals PROVE Told(r) = "no"
  <2>1. r \notin {"none", "waiting"} /\ r # "ok" BY DEF Refusals
  <2> QED BY <2>1 DEF Told
<1>4. ASSUME NEW r \in {"raised", "indeterminate", "OffloadTimeoutError"}
      PROVE  Told(r) = "unknown"
  <2>1. r \notin {"none", "waiting"} /\ r # "ok" /\ r \notin Refusals BY DEF Refusals
  <2> QED BY <2>1 DEF Told
<1> QED BY <1>1, <1>2, <1>3, <1>4

\* The answers, as the abstract table has them.
LEMMA AnswerIs ==
    ASSUME TypeOK, NEW s \in Sessions
    PROVE  /\ answer[s] = Told(reply[s])
           /\ reply[s] \notin Definite => answer[s] \in {"open", "unknown"}
           /\ reply[s] \in {"none", "waiting"} => answer[s] = "open"
<1>1. answer[s] = Told(reply[s]) BY DEF answer
<1>2. reply[s] \in {"none", "waiting", "raised", "indeterminate", "OffloadTimeoutError"}
                 \cup Definite
  BY DEF TypeOK, Replies, Verdicts, Definite
<1> QED BY <1>1, <1>2, ToldIs

\* The start maps to the start.
LEMMA AtomicInit == Init => Atomic!Init
BY ToldIs DEF Init, Atomic!Init, answer

\* Nothing the abstract table shows has changed.
LEMMA Stutter ==
    ASSUME UNCHANGED <<rows, used, req, reply, landed>>
    PROVE  UNCHANGED Atomic!vars
BY DEF Atomic!vars, answer

\* A function that commits lands for the first time, and before any answer
\* that excludes it.
LEMMA Landing ==
    ASSUME AtomicInv, NEW s \in Sessions, pc[s] \in {"insert", "write"}, Commit(s),
           NEW ops, req[s].op \in ops
    PROVE  Atomic!Land(s, ops)
<1>1. ~landed[s] /\ reply[s] \notin Definite BY StillRunning DEF AtomicInv
<1>2. answer[s] \in {"open", "unknown"} BY <1>1, AnswerIs DEF AtomicInv, StoreInv
<1>3. /\ landed' = [landed EXCEPT ![s] = TRUE]
      /\ UNCHANGED <<req, reply>>
  BY DEF Commit
<1>4. answer' = answer BY <1>3 DEF answer
<1> QED BY <1>1, <1>2, <1>3, <1>4 DEF Atomic!Land

\* Both modules mean the same by a free name.
LEMMA FreeNames ==
    ASSUME NEW n, NEW p, NameFree(n, p)
    PROVE  Atomic!NameFree(n, p)
BY DEF NameFree, Named, Exists, Atomic!NameFree, Atomic!Exists

\* Every commit is one step of the abstract table.
LEMMA CommitIsOneStep ==
    ASSUME AtomicInv, NEW s \in Sessions,
           Insert(s) \/ WriteRow(s) \/ WriteEnabled(s) \/ WriteDelete(s)
    PROVE  Atomic!Effect(s)
<1> USE DEF AtomicInv, StoreInv
<1>1. CASE Insert(s)
  <2>1. pc[s] = "insert" /\ Commit(s) BY <1>1 DEF Insert
  <2>2. req[s].op \in {"create", "mutate_create"} BY <2>1 DEF Positions
  <2>3. Atomic!Land(s, {"create", "mutate_create"}) BY <2>1, <2>2, Landing
  <2>4. Named(req[s].spec.name) = {} BY <1>1 DEF Insert
  <2>5. ASSUME NEW p PROVE Atomic!NameFree(req[s].spec.name, p)
    BY <2>4, FreeNames DEF NameFree
  <2> QED BY <1>1, <2>3, <2>5 DEF Insert, Atomic!Create, Atomic!Effect
<1> DEFINE p == target[s]
<1>2. ASSUME pc[s] = "write"
      PROVE  /\ p \in Pks /\ p \in used /\ p \in Atomic!Meant(s)
             /\ req[s].op \in Locking => seen[s] = rows[p] /\ Atomic!Exists(p)
  BY <1>2, WriterFacts DEF Atomic!Meant, Exists, Atomic!Exists
<1>3. CASE WriteRow(s) /\ req[s].op = "update"
  <2>1. pc[s] = "write" /\ Commit(s) BY <1>3 DEF WriteRow
  <2>2. Atomic!Land(s, {"update"}) BY <1>3, <2>1, Landing
  <2>3. seen[s].runs \in 0..MaxRuns BY <2>1, WriterFacts DEF Rows
  <2>4. Atomic!NameFree(req[s].spec.name, p) BY <1>3, FreeNames DEF WriteRow
  <2> QED BY <1>2, <1>3, <2>1, <2>2, <2>3, <2>4 DEF WriteRow, Atomic!Overwrite, Atomic!Effect
<1>4. CASE WriteRow(s) /\ req[s].op = "mutate_update"
  <2>1. pc[s] = "write" /\ Commit(s) BY <1>4 DEF WriteRow
  <2>2. Atomic!Land(s, {"mutate_update"}) BY <1>4, <2>1, Landing
  <2>3. p = req[s].pk /\ seen[s].config = req[s].expected /\ seen[s] \in Rows
    BY <1>4, <2>1, WriterFacts
  <2>4. seen[s] = rows[p] /\ Atomic!Exists(p) BY <1>2, <1>4, <2>1 DEF Locking
  <2>5. Atomic!AsExpected(s) BY <2>3, <2>4 DEF Atomic!AsExpected
  <2>6. Atomic!NameFree(req[s].spec.name, p) BY <1>4, FreeNames DEF WriteRow
  <2>7. [config |-> req[s].spec, runs |-> seen[s].runs] = [rows[p] EXCEPT !.config = req[s].spec]
    BY <2>3, <2>4 DEF Rows
  <2>8. rows' = [rows EXCEPT ![p].config = req[s].spec]
    BY <1>2, <1>4, <2>1, <2>7 DEF WriteRow, TypeOK
  <2>9. UNCHANGED used BY <1>4 DEF WriteRow
  <2> QED BY <2>2, <2>3, <2>5, <2>6, <2>8, <2>9 DEF Atomic!CompareAndSet, Atomic!Effect
<1>5. CASE WriteEnabled(s)
  <2>1. pc[s] = "write" /\ Commit(s) /\ req[s].op = "set_enabled" BY <1>5 DEF WriteEnabled
  <2>2. Atomic!Land(s, {"set_enabled"}) BY <2>1, Landing
  <2>3. Atomic!Exists(p) BY <1>2, <2>1 DEF Locking
  <2> QED BY <1>2, <1>5, <2>1, <2>2, <2>3 DEF WriteEnabled, Atomic!Toggle, Atomic!Effect
<1>6. CASE WriteDelete(s) /\ req[s].op = "delete"
  <2>1. pc[s] = "write" /\ Commit(s) BY <1>6 DEF WriteDelete
  <2>2. Atomic!Land(s, {"delete"}) BY <1>6, <2>1, Landing
  <2> QED BY <1>2, <1>6, <2>1, <2>2 DEF WriteDelete, Atomic!Delete, Atomic!Effect
<1>7. CASE WriteDelete(s) /\ req[s].op = "mutate_delete"
  <2>1. pc[s] = "write" /\ Commit(s) BY <1>7 DEF WriteDelete
  <2>2. Atomic!Land(s, {"mutate_delete"}) BY <1>7, <2>1, Landing
  <2>3. p = req[s].pk /\ seen[s].config = req[s].expected
    BY <1>7, <2>1, WriterFacts
  <2>4. seen[s] = rows[p] /\ Atomic!Exists(p) BY <1>2, <1>7, <2>1 DEF Locking
  <2>5. Atomic!AsExpected(s) BY <2>3, <2>4 DEF Atomic!AsExpected
  <2> QED BY <1>7, <2>2, <2>3, <2>5 DEF WriteDelete, Atomic!CompareAndDelete, Atomic!Effect
<1> QED BY <1>1, <1>3, <1>4, <1>5, <1>6, <1>7 DEF WriteRow, WriteDelete

\* What the coroutine is told is an answer of the abstract table.
LEMMA CoroutineAnswers ==
    ASSUME AtomicInv, NEW s \in Sessions, Submit(s) \/ TimeOut(s) \/ Deliver(s)
    PROVE  Atomic!Answer(s) \/ UNCHANGED Atomic!vars
<1> USE DEF AtomicInv, StoreInv
<1>1. UNCHANGED <<rows, used, req, landed>> BY DEF Submit, TimeOut, Deliver
<1>2. ASSUME NEW r, reply' = [reply EXCEPT ![s] = r]
      PROVE  answer' = [answer EXCEPT ![s] = Told(r)]
  BY <1>2 DEF answer, TypeOK
<1>3. CASE Submit(s)
  <2>1. reply[s] = "none" /\ reply' = [reply EXCEPT ![s] = "waiting"]
    BY <1>3 DEF Submit, Settled, Final
  <2>2. answer' = [answer EXCEPT ![s] = "open"] BY <1>2, <2>1, ToldIs
  <2>3. answer[s] = "open" BY <2>1, AnswerIs
  <2>4. answer' = answer BY <2>2, <2>3 DEF answer
  <2> QED BY <1>1, <2>4 DEF Atomic!vars
<1>4. CASE TimeOut(s)
  <2>1. /\ answer[s] = "open"
        /\ reply' = [reply EXCEPT ![s] = TimedOut(req[s].op)]
    BY <1>4, AnswerIs DEF TimeOut
  <2>2. Told(TimedOut(req[s].op)) = "unknown"
    BY ToldIs DEF TimedOut
  <2>3. answer' = [answer EXCEPT ![s] = "unknown"] BY <1>2, <2>1, <2>2
  <2> QED BY <1>1, <2>1, <2>3 DEF Atomic!Answer
<1>5. CASE Deliver(s)
  <2>1. answer[s] = "open" /\ reply' = [reply EXCEPT ![s] = verdict[s]]
    BY <1>5, AnswerIs DEF Deliver
  <2>2. answer' = [answer EXCEPT ![s] = Told(verdict[s])] BY <1>2, <2>1
  <2>3. verdict[s] \in Verdicts BY DEF TypeOK
  <2>4. CASE verdict[s] = "none"
    <3>1. Told(verdict[s]) = "open" BY <2>4, ToldIs
    <3>2. answer' = answer BY <2>1, <2>2, <3>1 DEF answer
    <3> QED BY <1>1, <3>2 DEF Atomic!vars
  <2>5. CASE verdict[s] = "ok"
    <3>1. Told(verdict[s]) = "ok" BY <2>5, ToldIs
    <3>2. landed[s] \/ req[s].op \in {"get", "delete"} BY <2>5 DEF Settled, Final
    <3> QED BY <1>1, <2>1, <2>2, <3>1, <3>2 DEF Atomic!Answer
  <2>6. CASE verdict[s] \in Refusals
    <3>1. Told(verdict[s]) = "no" BY <2>6, ToldIs
    <3>2. ~landed[s] BY <2>6 DEF Settled, Final, Refusals
    <3> QED BY <1>1, <2>1, <2>2, <3>1, <3>2 DEF Atomic!Answer
  <2>7. CASE verdict[s] = "raised"
    <3>1. Told(verdict[s]) = "unknown" BY <2>7, ToldIs
    <3> QED BY <1>1, <2>1, <2>2, <3>1 DEF Atomic!Answer
  <2> QED BY <2>3, <2>4, <2>5, <2>6, <2>7 DEF Verdicts
<1> QED BY <1>3, <1>4, <1>5

\* The administration site and Beat are the same to both.
LEMMA OthersAreOthers ==
    ASSUME NEW p \in Pks, Others(p)
    PROVE  Atomic!Others(p)
<1>1. /\ Exists(p) /\ UNCHANGED <<used, req, reply, landed>>
  BY DEF Others, AdminSave, AdminDelete, BeatTick, Unlocked
<1>2. answer' = answer BY <1>1 DEF answer
<1>3. ASSUME NEW c \in Configs, AdminSave(p, c)
      PROVE  Atomic!NameFree(c.name, p) /\ rows' = [rows EXCEPT ![p].config = c]
  BY <1>3, FreeNames DEF AdminSave
<1>4. CASE \E c \in Configs : AdminSave(p, c)
  BY <1>1, <1>2, <1>3, <1>4 DEF Atomic!Others, Atomic!Exists, Exists
<1>5. CASE AdminDelete(p)
  BY <1>1, <1>2, <1>5 DEF AdminDelete, Atomic!Others, Atomic!Exists, Exists
<1>6. CASE BeatTick(p)
  BY <1>1, <1>2, <1>6 DEF BeatTick, Atomic!Others, Atomic!Exists, Exists
<1> QED BY <1>4, <1>5, <1>6 DEF Others

\* Every step maps to a step, or to none.
LEMMA AtomicStep == AtomicInv /\ [Next]_vars => [Atomic!Next]_(Atomic!vars)
<1> SUFFICES ASSUME AtomicInv, [Next]_vars PROVE Atomic!Next \/ UNCHANGED Atomic!vars
  OBVIOUS
<1>1. ASSUME NEW s \in Sessions, Session(s) PROVE Atomic!Next \/ UNCHANGED Atomic!vars
  <2>1. CASE Submit(s) \/ TimeOut(s) \/ Deliver(s)
    BY <2>1, CoroutineAnswers DEF Atomic!Next
  <2>2. CASE Insert(s) \/ WriteRow(s) \/ WriteEnabled(s) \/ WriteDelete(s)
    BY <2>2, CommitIsOneStep DEF Atomic!Next
  <2>3. CASE \/ Begin(s) \/ Resolve(s) \/ ResolvePk(s) \/ CheckName(s) \/ LockToToggle(s)
             \/ LockToMutate(s) \/ NameClash(s) \/ DatabaseError(s)
    <3>1. UNCHANGED <<rows, used, req, reply, landed>>
      BY <2>3 DEF Begin, Resolve, ResolvePk, CheckName, LockToToggle, LockToMutate,
                  NameClash, DatabaseError
    <3> QED BY <3>1, Stutter
  <2> QED BY <1>1, <2>1, <2>2, <2>3 DEF Session, Statement
<1>2. ASSUME NEW p \in Pks, Others(p) PROVE Atomic!Next
  BY <1>2, OthersAreOthers DEF Atomic!Next
<1>3. CASE UNCHANGED vars
  BY <1>3, Stutter DEF vars
<1> QED BY <1>1, <1>2, <1>3 DEF Next

\* Whatever the number of sessions, rows and requests, the operations seem to
\* take effect at one moment each.
THEOREM StoreSeemsAtomic == Spec => SeemsAtomic
<1>1. AtomicInv /\ [Next]_vars => [Atomic!Next]_(Atomic!vars) BY AtomicStep
<1> QED BY <1>1, AtomicInit, AtomicInvariant, PTL DEF Spec, SeemsAtomic, Atomic!Spec
==============================================================================
