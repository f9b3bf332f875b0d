----------------------- MODULE PeriodicTaskStoreProofs -----------------------
(***************************************************************************)
(* Proofs about PeriodicTaskStore, for every number of sessions, rows,     *)
(* names and requests.                                                     *)
(*                                                                         *)
(* Why a native write or a toggle cannot lose an update: from the moment   *)
(* its SELECT ... FOR UPDATE returns until it commits, its transaction     *)
(* holds the row, so the row still is what the session read (LocksHeld).   *)
(* Every action that changes a row first needs the row to be free, or its  *)
(* own; an insert takes a key no row ever had (KeysUsed).                  *)
(***************************************************************************)
EXTENDS PeriodicTaskStore, TLAPS

Locking == {"set_enabled", "mutate_update", "mutate_delete"}

\* Where a session can be, given its request.
Positions ==
    \A s \in Sessions :
        /\ pc[s] \in {"check", "insert"} => req[s].op \in {"create", "mutate_create"}
        /\ pc[s] \in {"resolve", "resolve_pk"} =>
               req[s].op \in {"get", "update", "delete", "set_enabled"}
        /\ pc[s] = "lock" => req[s].op \in Locking /\ target[s] \in Pks
        /\ pc[s] = "lock" /\ req[s].op \in Native => target[s] = req[s].pk
        /\ pc[s] = "write" => target[s] \in used /\ seen[s] # NoRow

KeysUsed == \A p \in Pks : Exists(p) => p \in used

\* A session about to write a row it locked.
Holds(s) == pc[s] = "write" /\ req[s].op \in Locking

LocksHeld ==
    \A s \in Sessions : Holds(s) =>
        /\ lock[target[s]] = s
        /\ seen[s] = rows[target[s]]
        /\ req[s].op \in Native =>
               target[s] = req[s].pk /\ seen[s].config = req[s].expected

StoreInv == TypeOK /\ Positions /\ KeysUsed /\ LocksHeld

-----------------------------------------------------------------------------
(* Facts about single rows and requests. *)

\* The parts of a request have their types.
LEMMA RequestParts ==
    ASSUME TypeOK, NEW s \in Sessions
    PROVE  /\ req[s].op \in Ops
           /\ req[s].pk \in Pks \cup {NoPk}
           /\ req[s].spec \in Configs
BY StoreAssumption DEF TypeOK, RequestType

\* A row that is there is a row.
LEMMA RowType ==
    ASSUME TypeOK, NEW p \in Pks, Exists(p)
    PROVE  rows[p] \in Rows /\ rows[p].config \in Configs /\ rows[p].runs \in 0..MaxRuns
BY DEF TypeOK, Exists, Rows

\* An action that leaves the sessions, the locks and the locked rows as they
\* are keeps the invariant: what the administration site and Beat do.
LEMMA OthersKeep ==
    ASSUME StoreInv, NEW p \in Pks, Unlocked(p), NEW row \in Rows \cup {NoRow},
           rows' = [rows EXCEPT ![p] = row],
           UNCHANGED <<used, lock, req, pc, target, seen, verdict, reply, landed>>
    PROVE  StoreInv'
<1> USE DEF StoreInv
<1>1. TypeOK' BY DEF TypeOK
<1>2. Positions' BY DEF Positions
<1>3. KeysUsed' BY DEF TypeOK, KeysUsed, Exists, Unlocked
<1>4. LocksHeld'
  <2>1. ASSUME NEW s \in Sessions, Holds(s) PROVE target[s] # p
    BY <2>1, StoreAssumption DEF LocksHeld, Unlocked
  <2> QED BY <2>1 DEF LocksHeld, Holds, TypeOK, Positions
<1> QED BY <1>1, <1>2, <1>3, <1>4

\* A session that moves without touching the table keeps the invariant.
LEMMA EndKeeps ==
    ASSUME StoreInv, NEW s \in Sessions, NEW v \in Verdicts, End(s, v),
           UNCHANGED <<rows, used, req, reply, landed>>,
           target' \in [Sessions -> Pks \cup {NoPk}],
           seen' \in [Sessions -> Rows \cup {NoRow}],
           \A t \in Sessions \ {s} : target'[t] = target[t] /\ seen'[t] = seen[t]
    PROVE  StoreInv'
<1> USE DEF StoreInv
<1>1. TypeOK' BY DEF TypeOK, End, Release, Steps
<1>2. \A t \in Sessions : pc'[t] # "done" => t # s /\ pc'[t] = pc[t]
  BY DEF TypeOK, End
<1>3. Positions' BY <1>2 DEF Positions
<1>4. KeysUsed' BY DEF KeysUsed, Exists
<1>5. LocksHeld'
  <2>1. ASSUME NEW t \in Sessions, Holds(t)' PROVE t # s /\ Holds(t) /\ target[t] \in Pks
    BY <1>2, <2>1 DEF Holds, Positions, TypeOK
  <2>2. ASSUME NEW t \in Sessions, Holds(t)' PROVE lock'[target'[t]] = t
    BY <2>1, <2>2 DEF LocksHeld, End, Release
  <2> QED BY <2>1, <2>2 DEF LocksHeld
<1> QED BY <1>1, <1>3, <1>4, <1>5

\* A session that commits a row it may write keeps the invariant.
LEMMA CommitKeeps ==
    ASSUME StoreInv, NEW s \in Sessions, NEW p \in Pks, Available(p, s) \/ ~Exists(p),
           NEW row \in Rows \cup {NoRow}, rows' = [rows EXCEPT ![p] = row],
           used' \in SUBSET Pks, used \subseteq used', row # NoRow => p \in used',
           Commit(s)
    PROVE  StoreInv'
<1> USE DEF StoreInv
<1>0. PICK v \in {"ok", "raised"} : End(s, v) BY DEF Commit
<1>1. TypeOK' BY <1>0 DEF TypeOK, Commit, End, Release, Steps, Verdicts
<1>2. \A t \in Sessions : pc'[t] # "done" => t # s /\ pc'[t] = pc[t]
  BY <1>0 DEF TypeOK, End
<1>3. Positions' BY <1>2 DEF Positions, Commit
<1>4. KeysUsed' BY DEF TypeOK, KeysUsed, Exists
<1>5. LocksHeld'
  <2>1. ASSUME NEW t \in Sessions, Holds(t)'
        PROVE  t # s /\ Holds(t) /\ target[t] \in Pks
    BY <1>2, <2>1 DEF Holds, Positions, Commit, TypeOK
  <2>2. ASSUME NEW t \in Sessions, Holds(t)' PROVE lock[target[t]] = t
    BY <2>1, <2>2 DEF LocksHeld
  <2>3. ASSUME NEW t \in Sessions, Holds(t)' PROVE lock'[target[t]] = t
    BY <1>0, <2>1, <2>2, <2>3 DEF End, Release
  <2>4. ASSUME NEW t \in Sessions, Holds(t)' PROVE target[t] # p
    <3>1. Exists(target[t])
      BY <2>1, <2>4 DEF LocksHeld, Positions, Holds, Exists
    <3> QED BY <2>1, <2>2, <2>4, <3>1, StoreAssumption DEF Available
  <2>5. ASSUME NEW t \in Sessions, Holds(t)' PROVE rows'[target[t]] = rows[target[t]]
    BY <2>1, <2>4, <2>5 DEF TypeOK
  <2> QED BY <2>1, <2>3, <2>5 DEF LocksHeld, Commit
<1> QED BY <1>1, <1>3, <1>4, <1>5

\* A session that goes on to a statement other than a locked write.
LEMMA GotoKeeps ==
    ASSUME StoreInv, NEW s \in Sessions, NEW step \in Steps, Goto(s, step),
           UNCHANGED <<rows, used, req, reply, landed>>,
           NEW p \in Pks \cup {NoPk}, target' = [target EXCEPT ![s] = p],
           NEW row \in Rows \cup {NoRow}, seen' = [seen EXCEPT ![s] = row],
           step \in {"check", "insert"} => req[s].op \in {"create", "mutate_create"},
           step \in {"resolve", "resolve_pk"} =>
               req[s].op \in {"get", "update", "delete", "set_enabled"},
           step = "lock" => /\ req[s].op \in Locking
                            /\ p \in Pks
                            /\ req[s].op \in Native => p = req[s].pk,
           step = "write" => req[s].op \notin Locking /\ p \in used /\ row # NoRow
    PROVE  StoreInv'
<1> USE DEF StoreInv
<1>1. TypeOK' BY DEF TypeOK, Goto
<1>2. \A t \in Sessions \ {s} : pc'[t] = pc[t] /\ target'[t] = target[t] /\ seen'[t] = seen[t]
  BY DEF TypeOK, Goto
<1>3. pc'[s] = step /\ target'[s] = p /\ seen'[s] = row BY DEF TypeOK, Goto
<1>4. Positions' BY <1>2, <1>3 DEF Positions
<1>5. KeysUsed' BY DEF KeysUsed, Exists
<1>6. LocksHeld'
  <2>1. ASSUME NEW t \in Sessions, Holds(t)' PROVE t # s /\ Holds(t)
    BY <1>2, <1>3, <2>1 DEF Holds
  <2> QED BY <1>2, <2>1 DEF LocksHeld, Goto
<1> QED BY <1>1, <1>4, <1>5, <1>6

\* A session that locks the row it is about to write, and reads it.
LEMMA LockKeeps ==
    ASSUME StoreInv, NEW s \in Sessions, pc[s] = "lock", Exists(target[s]),
           Available(target[s], s), LockRow(s),
           req[s].op \in Native => rows[target[s]].config = req[s].expected,
           UNCHANGED <<rows, used, req, target, reply, landed>>
    PROVE  StoreInv'
<1> USE DEF StoreInv
<1>1. target[s] \in Pks /\ req[s].op \in Locking BY DEF Positions
<1>2. TypeOK' BY <1>1 DEF TypeOK, LockRow, Steps
<1>3. \A t \in Sessions \ {s} : pc'[t] = pc[t] /\ seen'[t] = seen[t]
  BY DEF TypeOK, LockRow
<1>4. pc'[s] = "write" /\ seen'[s] = rows[target[s]] /\ lock'[target[s]] = s
  BY <1>1 DEF TypeOK, LockRow
<1>5. Positions' BY <1>1, <1>3, <1>4 DEF Positions, KeysUsed, Exists
<1>6. KeysUsed' BY DEF KeysUsed, Exists
<1>7. LocksHeld'
  <2>1. ASSUME NEW t \in Sessions \ {s}, Holds(t)'
        PROVE  Holds(t) /\ target[t] \in Pks /\ lock[target[t]] = t
    BY <1>3, <2>1 DEF Holds, LocksHeld, Positions, TypeOK
  <2>2. ASSUME NEW t \in Sessions \ {s}, Holds(t)' PROVE lock'[target[t]] = t
    BY <1>1, <2>1, <2>2, StoreAssumption DEF TypeOK, LockRow, Available
  <2>3. target[s] = req[s].pk \/ req[s].op \notin Native BY DEF Positions
  <2> QED BY <1>3, <1>4, <2>1, <2>2, <2>3 DEF LocksHeld
<1> QED BY <1>2, <1>5, <1>6, <1>7

-----------------------------------------------------------------------------
(* The invariant. *)

\* It holds of the table the system starts from.
LEMMA InitStore == Init => StoreInv
BY StoreAssumption
   DEF Init, StoreInv, TypeOK, Steps, Verdicts, Replies, Positions, KeysUsed,
       Exists, LocksHeld, Holds

\* A row that was found is read, and the session moves on as its operation says.
LEMMA FoundKeeps ==
    ASSUME StoreInv, NEW s \in Sessions, pc[s] \in {"resolve", "resolve_pk"},
           NEW p \in Pks, Exists(p), Found(s, p),
           UNCHANGED <<rows, used, req, reply, landed>>
    PROVE  StoreInv'
<1>1. rows[p] \in Rows /\ rows[p] # NoRow /\ p \in used
  BY RowType DEF StoreInv, KeysUsed, Exists
<1>2. req[s].op \in {"get", "update", "delete", "set_enabled"}
  BY DEF StoreInv, Positions
<1>3. /\ target' = [target EXCEPT ![s] = p]
      /\ seen' = [seen EXCEPT ![s] = rows[p]]
  BY DEF Found
<1>4. CASE req[s].op = "get"
  <2>1. End(s, "ok") BY <1>4 DEF Found
  <2> QED BY <1>1, <1>3, <2>1, EndKeeps DEF StoreInv, TypeOK, Verdicts
<1>5. CASE req[s].op = "set_enabled"
  <2>1. Goto(s, "lock") BY <1>5 DEF Found
  <2> QED BY <1>1, <1>3, <1>5, <2>1, GotoKeeps DEF Steps, Locking, Native
<1>6. CASE req[s].op \in {"update", "delete"}
  <2>1. Goto(s, "write") BY <1>6 DEF Found
  <2> QED BY <1>1, <1>3, <1>6, <2>1, GotoKeeps DEF Steps, Locking, Native
<1> QED BY <1>2, <1>4, <1>5, <1>6

\* A row that was not found ends the session.
LEMMA MissingKeeps ==
    ASSUME StoreInv, NEW s \in Sessions, pc[s] \in {"resolve", "resolve_pk"},
           Missing(s), UNCHANGED <<rows, used, req, reply, landed>>
    PROVE  StoreInv'
<1>1. req[s].op \in {"get", "update", "delete", "set_enabled"}
  BY DEF StoreInv, Positions
<1>2. \E v \in Verdicts : End(s, v)
  BY <1>1 DEF Missing, Verdicts, Refusals
<1> QED BY <1>2, EndKeeps DEF Missing, StoreInv, TypeOK

\* The coroutine's own steps: the function does not notice them.
LEMMA CoroutineKeeps ==
    ASSUME StoreInv, NEW s \in Sessions, Submit(s) \/ TimeOut(s) \/ Deliver(s)
    PROVE  StoreInv'
<1> USE DEF StoreInv
<1>1. TypeOK'
  <2>1. CASE Submit(s) BY <2>1 DEF TypeOK, Submit, Steps, Replies
  <2>2. CASE TimeOut(s) BY <2>2 DEF TypeOK, TimeOut, TimedOut, Steps, Replies
  <2>3. CASE Deliver(s) BY <2>3 DEF TypeOK, Deliver, Replies
  <2> QED BY <2>1, <2>2, <2>3
<1>2. \A t \in Sessions :
        pc'[t] = pc[t] \/ pc'[t] \in {"queued", "done"}
  BY DEF TypeOK, Submit, TimeOut, Deliver
<1>3. UNCHANGED <<rows, used, lock, req, target, seen>>
  BY DEF Submit, TimeOut, Deliver
<1>4. Positions' BY <1>2, <1>3 DEF Positions
<1>5. KeysUsed' BY <1>3 DEF KeysUsed, Exists
<1>6. LocksHeld' BY <1>2, <1>3 DEF LocksHeld, Holds
<1> QED BY <1>1, <1>4, <1>5, <1>6

\* The checks before the first statement.
LEMMA BeginKeeps ==
    ASSUME StoreInv, NEW s \in Sessions, Begin(s)
    PROVE  StoreInv'
<1>1. /\ req[s].pk \in Pks \cup {NoPk}
      /\ seen' = [seen EXCEPT ![s] = seen[s]]
      /\ seen[s] \in Rows \cup {NoRow}
  BY RequestParts DEF StoreInv, TypeOK, Begin
<1>2. target' = [target EXCEPT ![s] = req[s].pk] BY DEF Begin
<1>3. CASE End(s, "refused")
  BY <1>1, <1>2, <1>3, EndKeeps DEF Begin, StoreInv, TypeOK, Verdicts, Refusals
<1>4. CASE Goto(s, "check") /\ req[s].op \in {"create", "mutate_create"}
  BY <1>1, <1>2, <1>4, GotoKeeps DEF Begin, Steps
<1>5. CASE Goto(s, "resolve") /\ req[s].op \in {"get", "update", "delete", "set_enabled"}
  BY <1>1, <1>2, <1>5, GotoKeeps DEF Begin, Steps
<1>6. CASE Goto(s, "lock") /\ req[s].op \in {"mutate_update", "mutate_delete"} /\ req[s].pk # NoPk
  BY <1>1, <1>2, <1>6, GotoKeeps DEF Begin, Steps, Locking
<1> QED BY <1>3, <1>4, <1>5, <1>6 DEF Begin

\* Looking a schedule up.
LEMMA ResolveKeeps ==
    ASSUME StoreInv, NEW s \in Sessions, Resolve(s) \/ ResolvePk(s)
    PROVE  StoreInv'
<1>1. UNCHANGED <<rows, used, req, reply, landed>> BY DEF Resolve, ResolvePk
<1>2. pc[s] \in {"resolve", "resolve_pk"} BY DEF Resolve, ResolvePk
<1>3. CASE \E p \in Pks : Exists(p) /\ Found(s, p)
  BY <1>1, <1>2, <1>3, FoundKeeps
<1>4. CASE Missing(s)
  BY <1>1, <1>2, <1>4, MissingKeeps
<1>5. CASE Goto(s, "resolve_pk") /\ UNCHANGED <<target, seen>>
  <2>1. target[s] \in Pks \cup {NoPk} /\ target' = [target EXCEPT ![s] = target[s]]
    BY <1>5 DEF StoreInv, TypeOK
  <2>2. seen[s] \in Rows \cup {NoRow} /\ seen' = [seen EXCEPT ![s] = seen[s]]
    BY <1>5 DEF StoreInv, TypeOK
  <2>3. pc[s] = "resolve" \/ pc[s] = "resolve_pk" BY <1>2
  <2>4. req[s].op \in {"get", "update", "delete", "set_enabled"}
    BY <2>3 DEF StoreInv, Positions
  <2> QED BY <1>1, <1>5, <2>1, <2>2, <2>4, GotoKeeps DEF Steps
<1>6. CASE Resolve(s)
  <2>1. req[s].pk \in Pks \cup {NoPk} BY RequestParts DEF StoreInv
  <2> QED BY <1>3, <1>4, <1>5, <1>6, <2>1 DEF Resolve, Named
<1>7. CASE ResolvePk(s)
  <2>1. \A n \in DOMAIN AsPk : AsPk[n] \in Pks
    BY StoreAssumption
  <2> QED BY <1>3, <1>4, <1>7, <2>1 DEF ResolvePk
<1> QED BY <1>6, <1>7

\* SELECT ... FOR UPDATE, for the toggle and for the native operations.
LEMMA LockStepKeeps ==
    ASSUME StoreInv, NEW s \in Sessions, LockToToggle(s) \/ LockToMutate(s)
    PROVE  StoreInv'
<1>1. pc[s] = "lock" /\ Available(target[s], s) /\ UNCHANGED <<rows, used, req, target, reply, landed>>
  BY DEF LockToToggle, LockToMutate
<1>2. CASE \E v \in Verdicts : End(s, v) /\ UNCHANGED seen
  BY <1>1, <1>2, EndKeeps DEF StoreInv, TypeOK
<1>3. CASE /\ Exists(target[s])
           /\ LockRow(s)
           /\ req[s].op \in Native => rows[target[s]].config = req[s].expected
  BY <1>1, <1>3, LockKeeps
<1>4. CASE LockToToggle(s)
  BY <1>2, <1>3, <1>4 DEF LockToToggle, Native, Verdicts
<1>5. CASE LockToMutate(s)
  BY <1>2, <1>3, <1>5 DEF LockToMutate, Verdicts, Refusals
<1> QED BY <1>4, <1>5

\* The friendly name check, the unique index and the database's errors.
LEMMA NoWriteKeeps ==
    ASSUME StoreInv, NEW s \in Sessions, CheckName(s) \/ NameClash(s) \/ DatabaseError(s)
    PROVE  StoreInv'
<1>1. UNCHANGED <<rows, used, req, target, seen, reply, landed>>
  BY DEF CheckName, NameClash, DatabaseError
<1>2. CASE \E v \in Verdicts : End(s, v)
  BY <1>1, <1>2, EndKeeps DEF StoreInv, TypeOK
<1>3. CASE Goto(s, "insert") /\ pc[s] = "check"
  <2>1. target[s] \in Pks \cup {NoPk} /\ target' = [target EXCEPT ![s] = target[s]]
    BY <1>1 DEF StoreInv, TypeOK
  <2>2. seen[s] \in Rows \cup {NoRow} /\ seen' = [seen EXCEPT ![s] = seen[s]]
    BY <1>1 DEF StoreInv, TypeOK
  <2>3. req[s].op \in {"create", "mutate_create"}
    BY <1>3 DEF StoreInv, Positions
  <2> QED BY <1>1, <1>3, <2>1, <2>2, <2>3, GotoKeeps DEF Steps
<1> QED BY <1>2, <1>3 DEF CheckName, NameClash, DatabaseError, Verdicts, Refusals

\* Insert, update, toggle and delete: the statements that commit.
LEMMA WriteKeeps ==
    ASSUME StoreInv, NEW s \in Sessions,
           Insert(s) \/ WriteRow(s) \/ WriteEnabled(s) \/ WriteDelete(s)
    PROVE  StoreInv'
<1>1. req[s].spec \in Configs BY RequestParts DEF StoreInv
<1>2. CASE Insert(s)
  <2>1. PICK p \in Pks \ used :
          /\ rows' = [rows EXCEPT ![p] = [config |-> req[s].spec, runs |-> 0]]
          /\ used' = used \cup {p}
    BY <1>2 DEF Insert
  <2>2. [config |-> req[s].spec, runs |-> 0] \in Rows
    BY <1>1, StoreAssumption DEF Rows
  <2>3. ~Exists(p) /\ used' \in SUBSET Pks
    BY <2>1 DEF StoreInv, TypeOK, KeysUsed
  <2>4. Commit(s) BY <1>2 DEF Insert
  <2> QED BY <2>1, <2>2, <2>3, <2>4, CommitKeeps
<1>3. CASE WriteRow(s)
  <2>1. target[s] \in used /\ seen[s] \in Rows /\ used \in SUBSET Pks
    BY <1>3 DEF WriteRow, StoreInv, TypeOK, Positions
  <2>2. [config |-> req[s].spec, runs |-> seen[s].runs] \in Rows
    BY <1>1, <2>1 DEF Rows
  <2> QED BY <1>3, <2>1, <2>2, CommitKeeps DEF WriteRow
<1>4. CASE WriteEnabled(s)
  <2>1. /\ target[s] \in used /\ used \in SUBSET Pks
        /\ seen[s] # NoRow /\ seen[s] = rows[target[s]]
    BY <1>4 DEF WriteEnabled, StoreInv, TypeOK, Positions, LocksHeld, Holds, Locking
  <2>2. Exists(target[s]) /\ target[s] \in Pks BY <2>1 DEF Exists
  <2>3. rows[target[s]] \in Rows BY <2>2, RowType DEF StoreInv
  <2> DEFINE row == [rows[target[s]] EXCEPT !.config.enabled = req[s].spec.enabled]
  <2>4. row \in Rows BY <1>1, <2>3 DEF Rows, Configs
  <2>5. rows' = [rows EXCEPT ![target[s]] = row]
    BY <1>4, <2>2 DEF WriteEnabled, StoreInv, TypeOK
  <2> HIDE DEF row
  <2> QED BY <1>4, <2>1, <2>2, <2>4, <2>5, CommitKeeps DEF WriteEnabled
<1>5. CASE WriteDelete(s)
  <2>1. target[s] \in used /\ used \in SUBSET Pks
    BY <1>5 DEF WriteDelete, StoreInv, TypeOK, Positions
  <2> QED BY <1>5, <2>1, CommitKeeps DEF WriteDelete
<1> QED BY <1>2, <1>3, <1>4, <1>5

\* The administration site and Beat.
LEMMA AdminAndBeatKeep ==
    ASSUME StoreInv, NEW p \in Pks, Others(p)
    PROVE  StoreInv'
<1>1. ASSUME NEW c \in Configs, AdminSave(p, c) PROVE StoreInv'
  <2>1. rows[p] \in Rows BY <1>1, RowType DEF AdminSave, Unlocked, StoreInv
  <2>2. [rows[p] EXCEPT !.config = c] \in Rows BY <2>1 DEF Rows
  <2>3. rows' = [rows EXCEPT ![p] = [rows[p] EXCEPT !.config = c]]
    BY <1>1 DEF AdminSave, StoreInv, TypeOK
  <2> QED BY <1>1, <2>2, <2>3, OthersKeep DEF AdminSave
<1>2. CASE AdminDelete(p)
  BY <1>2, OthersKeep DEF AdminDelete
<1>3. CASE BeatTick(p)
  <2>1. rows[p] \in Rows /\ rows[p].runs \in 0..MaxRuns
    BY <1>3, RowType DEF BeatTick, Unlocked, StoreInv
  <2>2. [rows[p] EXCEPT !.runs = @ + 1] \in Rows
    BY <1>3, <2>1, StoreAssumption DEF Rows, BeatTick
  <2>3. rows' = [rows EXCEPT ![p] = [rows[p] EXCEPT !.runs = @ + 1]]
    BY <1>3 DEF BeatTick, StoreInv, TypeOK
  <2> QED BY <1>3, <2>2, <2>3, OthersKeep DEF BeatTick
<1> QED BY <1>1, <1>2, <1>3 DEF Others

\* Every step keeps the invariant.
LEMMA NextStore == StoreInv /\ [Next]_vars => StoreInv'
<1> SUFFICES ASSUME StoreInv, [Next]_vars PROVE StoreInv'
  OBVIOUS
<1>1. ASSUME NEW s \in Sessions, Session(s) PROVE StoreInv'
  BY <1>1, CoroutineKeeps, BeginKeeps, ResolveKeeps, LockStepKeeps, NoWriteKeeps, WriteKeeps
     DEF Session, Statement
<1>2. ASSUME NEW p \in Pks, Others(p) PROVE StoreInv'
  BY <1>2, AdminAndBeatKeep
<1>3. CASE UNCHANGED vars
  BY <1>3 DEF vars, StoreInv, TypeOK, Positions, KeysUsed, Exists, LocksHeld, Holds
<1> QED BY <1>1, <1>2, <1>3 DEF Next

-----------------------------------------------------------------------------
(* Theorems. *)

\* Type correctness and the lock discipline hold in every reachable state.
THEOREM StoreInvariant == Spec => []StoreInv
BY InitStore, NextStore, PTL DEF Spec

\* Every variable of the store keeps its type.
THEOREM StoreTypeCorrect == Spec => []TypeOK
<1>1. StoreInv => TypeOK BY DEF StoreInv
<1> QED BY StoreInvariant, <1>1, PTL

\* Only the statements that write can make a session land, at its own row.
LEMMA LandingStep ==
    ASSUME StoreInv, [Next]_vars, NEW s \in Sessions, Lands(s)
    PROVE  Insert(s) \/ WriteRow(s) \/ WriteEnabled(s) \/ WriteDelete(s)
<1>1. ASSUME NEW t \in Sessions, Session(t)
      PROVE  Insert(s) \/ WriteRow(s) \/ WriteEnabled(s) \/ WriteDelete(s)
  <2>1. CASE Insert(t) \/ WriteRow(t) \/ WriteEnabled(t) \/ WriteDelete(t)
    <3>1. landed' = [landed EXCEPT ![t] = TRUE]
      BY <2>1 DEF Insert, WriteRow, WriteEnabled, WriteDelete, Commit
    <3>2. t = s BY <3>1 DEF Lands, StoreInv, TypeOK
    <3> QED BY <2>1, <3>2
  <2>2. UNCHANGED landed \/ Insert(t) \/ WriteRow(t) \/ WriteEnabled(t) \/ WriteDelete(t)
    BY <1>1
       DEF Session, Statement, Submit, TimeOut, Deliver, Begin, Resolve, ResolvePk,
           CheckName, LockToToggle, LockToMutate, NameClash, DatabaseError
  <2> QED BY <2>1, <2>2 DEF Lands
<1>2. ASSUME NEW p \in Pks, Others(p) PROVE FALSE
  BY <1>2 DEF Others, AdminSave, AdminDelete, BeatTick, Lands
<1>3. CASE UNCHANGED vars BY <1>3 DEF vars, Lands
<1> QED BY <1>1, <1>2, <1>3 DEF Next

\* A native update or delete never takes effect on a row that is not what its
\* caller expected at that very moment, however many writers there are.
THEOREM CasIsAtomic == Spec => CasCommitsOnExpected
<1>1. ASSUME StoreInv, [Next]_vars, NEW s \in Sessions, Lands(s),
             req[s].op \in {"mutate_update", "mutate_delete"}
      PROVE  Exists(req[s].pk) /\ rows[req[s].pk].config = req[s].expected
  <2>1. pc[s] = "write"
    BY <1>1, LandingStep
       DEF Insert, WriteRow, WriteEnabled, WriteDelete, StoreInv, Positions
  <2>2. /\ seen[s] = rows[target[s]] /\ seen[s] # NoRow
        /\ target[s] = req[s].pk /\ seen[s].config = req[s].expected
    BY <1>1, <2>1 DEF StoreInv, Positions, LocksHeld, Holds, Locking, Native
  <2> QED BY <2>2 DEF Exists
<1>2. StoreInv /\ [Next]_vars =>
        [\A s \in Sessions :
          Lands(s) /\ req[s].op \in {"mutate_update", "mutate_delete"} =>
              /\ Exists(req[s].pk)
              /\ rows[req[s].pk].config = req[s].expected]_vars
  BY <1>1
<1> QED BY <1>2, StoreInvariant, PTL DEF Spec, CasCommitsOnExpected

\* Toggles and native writes lose no update, however many writers there are.
THEOREM LockedWritesLoseNothing == Spec => NoLostUpdates
<1>1. ASSUME StoreInv, [Next]_vars, NEW s \in Sessions, Lands(s),
             req[s].op \in {"set_enabled", "mutate_update", "mutate_delete"}
      PROVE  Exists(target[s]) /\ seen[s] = rows[target[s]]
  <2>1. pc[s] = "write"
    BY <1>1, LandingStep
       DEF Insert, WriteRow, WriteEnabled, WriteDelete, StoreInv, Positions
  <2> QED
    BY <1>1, <2>1 DEF StoreInv, Positions, LocksHeld, Holds, Locking, Exists
<1>2. StoreInv /\ [Next]_vars =>
        [\A s \in Sessions :
          Lands(s) /\ req[s].op \in {"set_enabled", "mutate_update", "mutate_delete"} =>
              Exists(target[s]) /\ seen[s] = rows[target[s]]]_vars
  BY <1>1
<1> QED BY <1>2, StoreInvariant, PTL DEF Spec, NoLostUpdates
==============================================================================
