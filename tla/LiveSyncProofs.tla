---------------------------- MODULE LiveSyncProofs ----------------------------
(***************************************************************************)
(* Proofs about LiveSync, for any table, writers, requests and number of   *)
(* connections.                                                            *)
(*                                                                         *)
(* While a row is clear, whoever is about to tell of it is alone: either   *)
(* one writer, whose draft the row is or will be, or sync threads that     *)
(* hold the row as it is (ClearOK).  A row that is still fresh stands in   *)
(* the inventory as it is (FreshOK).  Once everything is settled, whatever *)
(* is still told is what the table holds (Settled, inductive by itself).   *)
(***************************************************************************)
EXTENDS LiveSync, TLAPS

\* Nobody has touched the row since the inventory was read.
FreshOK(p) ==
    snapshot # NoSnapshot /\ p \in fresh => Quiet(p) /\ snapshot[p] = rows[p]

\* Writer w is between its statement and its last step, at row p.
At(w, p) == Open(w) /\ req[w].pk = p

\* What w has written is in the row or told already, or will be.
DraftOK(w, p) ==
    /\ pc[w] = "written" =>
           /\ InTransaction(w) \/ rows[p] = draft[w]
           /\ Suppressed(w) => told[p] = draft[w]
    /\ pc[w] = "signalled" => told[p] = draft[w]

ClearOK(p) ==
    p \in clear =>
        /\ Quiet(p) => told[p] = rows[p]
        /\ \A h \in Hooks : batch[h][p] # NoRow => Quiet(p) /\ batch[h][p] = rows[p]
        /\ \A w \in Writers : At(w, p) =>
               /\ \A v \in Writers : At(v, p) => v = w
               /\ DraftOK(w, p)

SyncInv == TypeOK /\ \A p \in Pks : FreshOK(p) /\ ClearOK(p)

-----------------------------------------------------------------------------
(* Types. *)

\* What a write makes of a row is a row, or none.
LEMMA ResultType ==
    ASSUME TypeOK, NEW w \in Writers, Write(w)
    PROVE  Result(req[w]) \in Rows \cup {NoRow}
<1>1. req[w] \in Requests /\ req[w] \in RequestType
  BY LiveSyncAssumption DEF TypeOK
<1>2. rows[req[w].pk] \in Rows \cup {NoRow} /\ req[w].row \in Rows \cup {NoRow}
  BY <1>1 DEF TypeOK, RequestType
<1>3. CASE req[w].op = "save" BY <1>2, <1>3 DEF Result
<1>4. CASE req[w].op = "toggle"
  <2>1. req[w].row \in Rows BY <1>1, <1>2, <1>4, LiveSyncAssumption
  <2>2. rows[req[w].pk] \in Rows BY <1>2, <1>4 DEF Write
  <2>3. [rows[req[w].pk] EXCEPT !.enabled = req[w].row.enabled] \in Rows
    BY <2>1, <2>2 DEF Rows
  <2> QED BY <1>4, <2>3 DEF Result
<1>5. CASE req[w].op = "tick" BY <1>2, <1>5 DEF Result
<1>6. CASE req[w].op = "delete" BY <1>6 DEF Result
<1> QED BY <1>1, <1>3, <1>4, <1>5, <1>6 DEF RequestType, Write

\* Every step keeps the types.
LEMMA TypeNext == ASSUME TypeOK, [Next]_vars PROVE TypeOK'
<1> USE DEF writing, hooking
<1>1. ASSUME NEW w \in Writers, Write(w) PROVE TypeOK'
  <2>1. Result(req[w]) \in Rows \cup {NoRow} BY <1>1, ResultType
  <2>2. (rows[req[w].pk] = NoRow) \in BOOLEAN OBVIOUS
  <2>3. rows' \in [Pks -> Rows \cup {NoRow}] BY <1>1, <2>1 DEF Write, TypeOK
  <2>4. created' \in [Writers -> BOOLEAN] BY <1>1, <2>2, Zenon DEF Write, TypeOK
  <2>5. pc' \in [Writers -> {"idle", "written", "signalled", "done"}]
    BY <1>1 DEF Write, TypeOK
  <2>6. draft' \in [Writers -> Rows \cup {NoRow}] BY <1>1, <2>1 DEF Write, TypeOK
  <2>7. fresh' \in SUBSET Pks /\ clear' \in SUBSET Pks BY <1>1 DEF Write, TypeOK
  <2> QED BY <1>1, <2>3, <2>4, <2>5, <2>6, <2>7 DEF Write, TypeOK
<1>2. ASSUME NEW w \in Writers, ForeignWrite(w) PROVE TypeOK'
  <2>1. req[w].row \in Rows \cup {NoRow} /\ req[w].pk \in Pks
    BY LiveSyncAssumption DEF TypeOK, RequestType
  <2> QED BY <1>2, <2>1 DEF ForeignWrite, TypeOK
<1>3. ASSUME NEW w \in Writers, Signal(w) PROVE TypeOK'
  <2>1. told' \in [Pks -> Rows \cup {NoRow}] /\ clear' \in SUBSET Pks
    BY <1>3 DEF Signal, TypeOK
  <2>2. /\ pc' \in [Writers -> {"idle", "written", "signalled", "done"}]
        /\ draft' \in [Writers -> Rows \cup {NoRow}]
        /\ created' \in [Writers -> BOOLEAN]
    BY <1>3 DEF Signal, TypeOK, Done
  <2> QED BY <1>3, <2>1, <2>2 DEF Signal, TypeOK
<1>4. ASSUME NEW w \in Writers, Commit(w) \/ Rollback(w) PROVE TypeOK'
  <2>1. draft[w] \in Rows \cup {NoRow} BY DEF TypeOK
  <2> QED BY <1>4, <2>1 DEF Commit, Rollback, Done, TypeOK
<1>5. ASSUME NEW h \in Hooks, ConnectSignals(h) PROVE TypeOK'
  <2>1. h # NoHook BY LiveSyncAssumption
  <2>2. hook' \in [Hooks -> {"new", "connected", "off"}]
    BY <1>5 DEF ConnectSignals, TypeOK
  <2>3. hook'[h] # "new" BY <1>5 DEF ConnectSignals, TypeOK
  <2> QED BY <1>5, <2>2, <2>3 DEF ConnectSignals, TypeOK
<1>6. ASSUME DisconnectSignals PROVE TypeOK'
  BY <1>6 DEF DisconnectSignals, TypeOK
<1>7. ASSUME NEW h \in Hooks, SyncQuery(h) PROVE TypeOK'
  <2>1. [p \in Pks |-> IF rows[p] # NoRow /\ rows[p].enabled THEN rows[p] ELSE NoRow]
            \in [Pks -> Rows \cup {NoRow}]
    BY DEF TypeOK
  <2> QED BY <1>7, <2>1 DEF SyncQuery, TypeOK
<1>8. ASSUME NEW h \in Hooks, SyncSend(h) PROVE TypeOK'
  <2>1. PICK p \in Pks : /\ told' \in {told, [told EXCEPT ![p] = batch[h][p]]}
                         /\ batch' = [batch EXCEPT ![h][p] = NoRow]
    BY <1>8 DEF SyncSend
  <2>2. batch[h] \in [Pks -> Rows \cup {NoRow}] BY DEF TypeOK
  <2>3. batch' \in [Hooks -> [Pks -> Rows \cup {NoRow}]] BY <2>1, <2>2 DEF TypeOK
  <2>4. told' \in [Pks -> Rows \cup {NoRow}] BY <2>1, <2>2 DEF TypeOK
  <2> QED BY <1>8, <2>3, <2>4 DEF SyncSend, TypeOK
<1>9. ASSUME SnapshotRead \/ SnapshotSend \/ SnapshotSkipped PROVE TypeOK'
  BY <1>9 DEF SnapshotRead, SnapshotSend, SnapshotSkipped, TypeOK
<1>10. CASE UNCHANGED vars BY <1>10 DEF vars, TypeOK
<1> QED BY <1>1, <1>2, <1>3, <1>4, <1>5, <1>6, <1>7, <1>8, <1>9, <1>10 DEF Next

-----------------------------------------------------------------------------
(* Rows. *)

RowOK(p) == FreshOK(p) /\ ClearOK(p)

\* A row that a step leaves alone stays in order.
LEMMA SameKeeps ==
    ASSUME NEW p \in Pks, RowOK(p),
           rows'[p] = rows[p], told'[p] = told[p], req' = req,
           snapshot' \in {snapshot, NoSnapshot},
           p \in fresh' => p \in fresh, p \in clear' => p \in clear,
           \A h \in Hooks : batch'[h][p] = batch[h][p],
           \A w \in Writers : req[w].pk = p =>
               pc'[w] = pc[w] /\ draft'[w] = draft[w] /\ created'[w] = created[w]
    PROVE  RowOK(p)'
<1>1. \A w \in Writers : At(w, p)' <=> At(w, p) BY DEF At, Open
<1>2. Quiet(p)' <=> Quiet(p) BY <1>1 DEF Quiet, At
<1>3. \A w \in Writers : At(w, p) => (DraftOK(w, p) => DraftOK(w, p)')
  BY DEF DraftOK, At, Suppressed, InTransaction
<1>4. FreshOK(p)' BY <1>2 DEF RowOK, FreshOK
<1>5. ClearOK(p)' BY <1>1, <1>2, <1>3 DEF RowOK, ClearOK
<1> QED BY <1>4, <1>5 DEF RowOK

\* A writer's step leaves the other rows alone.
LEMMA OtherRows ==
    ASSUME SyncInv, NEW w \in Writers, NEW p \in Pks, p # req[w].pk,
           Write(w) \/ ForeignWrite(w) \/ Signal(w) \/ Commit(w) \/ Rollback(w)
    PROVE  RowOK(p)'
<1> USE DEF SyncInv, TypeOK, hooking
<1>1. RowOK(p) BY DEF RowOK
<1>2. \A v \in Writers : req[v].pk = p =>
          pc'[v] = pc[v] /\ draft'[v] = draft[v] /\ created'[v] = created[v]
  BY DEF Write, ForeignWrite, Signal, Commit, Rollback, Done
<1>3. /\ rows'[p] = rows[p] /\ told'[p] = told[p] /\ UNCHANGED <<req, snapshot, batch>>
      /\ p \in fresh' => p \in fresh
      /\ p \in clear' => p \in clear
  BY DEF Write, ForeignWrite, Signal, Commit, Rollback
<1> QED BY <1>1, <1>2, <1>3, SameKeeps

\* Writing a row that nobody else is about to tell of.
LEMMA WriteKeeps ==
    ASSUME SyncInv, NEW w \in Writers, Write(w), NEW p \in Pks, p = req[w].pk
    PROVE  RowOK(p)'
<1> USE DEF SyncInv, TypeOK, hooking
<1>1. FreshOK(p)' BY DEF Write, FreshOK
<1>2. ASSUME p \in clear' PROVE ClearOK(p)'
  <2>1. p \in clear /\ ~Contended(p) BY <1>2 DEF Write
  <2>2. /\ \A v \in Writers : ~At(v, p)
        /\ \A h \in Hooks : batch[h][p] = NoRow
    BY <2>1 DEF Contended, At
  <2>3. told[p] = rows[p] BY <2>1, <2>2 DEF ClearOK, Quiet, At
  <2>4. /\ pc'[w] = "written" /\ draft'[w] = Result(req[w])
        /\ \A v \in Writers \ {w} : pc'[v] = pc[v]
        /\ UNCHANGED <<told, req, batch>>
    BY DEF Write
  <2>5. \A v \in Writers : At(v, p)' => v = w BY <2>2, <2>4 DEF At, Open
  <2>6. ~Quiet(p)' BY <2>4 DEF Quiet, Open
  <2>7. InTransaction(w)' \/ rows'[p] = draft'[w]
    BY <2>4 DEF Write, InTransaction
  <2>8. Suppressed(w)' => told'[p] = draft'[w]
    <3>1. Suppressed(w)' => req[w].op = "tick"
      BY <2>4 DEF Suppressed, Fields, NoiseOnlyUpdateFields
    <3> QED BY <2>3, <2>4, <3>1 DEF Result
  <2>9. DraftOK(w, p)' BY <2>4, <2>7, <2>8 DEF DraftOK
  <2> QED BY <2>2, <2>4, <2>5, <2>6, <2>9 DEF ClearOK
<1> QED BY <1>1, <1>2 DEF RowOK, ClearOK

\* A row that somebody is at is not fresh, and no sync thread holds it.
LEMMA Alone ==
    ASSUME SyncInv, NEW w \in Writers, NEW p \in Pks, At(w, p)
    PROVE  /\ ~(snapshot # NoSnapshot /\ p \in fresh)
           /\ p \in clear => \A h \in Hooks : batch[h][p] = NoRow
<1>1. ~Quiet(p) BY DEF Quiet, At
<1> QED BY <1>1 DEF SyncInv, FreshOK, ClearOK

\* Telling of a write: whether told or suppressed, what was written is what
\* the consumer has.
LEMMA SignalKeeps ==
    ASSUME SyncInv, NEW w \in Writers, Signal(w), NEW p \in Pks, p = req[w].pk
    PROVE  RowOK(p)'
<1> USE DEF SyncInv, TypeOK, hooking
<1>1. At(w, p) /\ pc[w] = "written" BY DEF Signal, At, Open
<1>2. UNCHANGED <<rows, req, batch, snapshot, fresh>> BY DEF Signal
<1>3. FreshOK(p)' BY <1>1, <1>2, Alone DEF FreshOK
<1>4. ASSUME p \in clear' PROVE ClearOK(p)'
  <2>1. p \in clear /\ told'[p] = draft[w]
    <3>1. p \in clear BY <1>4 DEF Signal
    <3>2. Suppressed(w) => told[p] = draft[w]
      BY <1>1, <3>1 DEF ClearOK, DraftOK
    <3> QED BY <1>4, <3>1, <3>2 DEF Signal
  <2>2. \A v \in Writers : At(v, p) => v = w BY <1>1, <2>1 DEF ClearOK
  <2>3. InTransaction(w) \/ rows[p] = draft[w]
    BY <1>1, <2>1 DEF ClearOK, DraftOK
  <2>4. \A h \in Hooks : batch'[h][p] = NoRow BY <1>1, <1>2, <2>1, Alone
  <2>5. CASE InTransaction(w)
    <3>1. pc' = [pc EXCEPT ![w] = "signalled"] /\ UNCHANGED <<draft, created>>
      BY <2>5 DEF Signal
    <3>2. \A v \in Writers : At(v, p)' => v = w BY <1>2, <2>2, <3>1 DEF At, Open
    <3>3. ~Quiet(p)' BY <1>2, <3>1 DEF Quiet, Open
    <3>4. DraftOK(w, p)' BY <2>1, <3>1 DEF DraftOK
    <3> QED BY <2>4, <3>2, <3>3, <3>4 DEF ClearOK
  <2>6. CASE ~InTransaction(w)
    <3>1. pc' = [pc EXCEPT ![w] = "done"] BY <2>6 DEF Signal, Done
    <3>2. \A v \in Writers : ~At(v, p)' BY <1>2, <2>2, <3>1 DEF At, Open
    <3>3. told'[p] = rows'[p] BY <1>2, <2>1, <2>3, <2>6
    <3> QED BY <2>4, <3>2, <3>3 DEF ClearOK
  <2> QED BY <2>5, <2>6
<1> QED BY <1>3, <1>4 DEF RowOK, ClearOK

\* The end of a transaction: a commit brings the table up to what was told.
LEMMA EndKeeps ==
    ASSUME SyncInv, NEW w \in Writers, Commit(w) \/ Rollback(w), NEW p \in Pks, p = req[w].pk
    PROVE  RowOK(p)'
<1> USE DEF SyncInv, TypeOK, hooking
<1>1. At(w, p) BY DEF Commit, Rollback, At, Open
<1>2. UNCHANGED <<told, req, batch, snapshot, fresh>> BY DEF Commit, Rollback
<1>3. FreshOK(p)' BY <1>1, <1>2, Alone DEF FreshOK
<1>4. ASSUME p \in clear' PROVE ClearOK(p)'
  <2>1. Commit(w) /\ p \in clear BY <1>4 DEF Commit, Rollback
  <2>2. \A v \in Writers : At(v, p) => v = w BY <1>1, <2>1 DEF ClearOK
  <2>3. told[p] = draft[w] BY <1>1, <2>1 DEF ClearOK, DraftOK, Commit
  <2>4. \A h \in Hooks : batch'[h][p] = NoRow BY <1>1, <1>2, <2>1, Alone
  <2>5. pc' = [pc EXCEPT ![w] = "done"] BY <2>1 DEF Commit, Done
  <2>6. \A v \in Writers : ~At(v, p)' BY <1>2, <2>2, <2>5 DEF At, Open
  <2>7. told'[p] = rows'[p] BY <1>2, <2>1, <2>3 DEF Commit
  <2> QED BY <2>4, <2>6, <2>7 DEF ClearOK
<1> QED BY <1>3, <1>4 DEF RowOK, ClearOK

\* A write nobody is told of.
LEMMA ForeignKeeps ==
    ASSUME SyncInv, NEW w \in Writers, ForeignWrite(w), NEW p \in Pks, p = req[w].pk
    PROVE  RowOK(p)'
BY DEF ForeignWrite, RowOK, FreshOK, ClearOK

\* The sync thread reads the rows.
LEMMA QueryKeeps ==
    ASSUME SyncInv, NEW g \in Hooks, SyncQuery(g), NEW p \in Pks PROVE RowOK(p)'
<1> USE DEF SyncInv, TypeOK, writing
<1>1. UNCHANGED <<rows, told, writing, snapshot, fresh>> BY DEF SyncQuery
<1>2. \A w \in Writers : (At(w, p)' <=> At(w, p)) /\ (DraftOK(w, p)' <=> DraftOK(w, p))
  BY <1>1 DEF At, Open, DraftOK, Suppressed, InTransaction
<1>3. Quiet(p)' <=> Quiet(p) BY <1>1 DEF Quiet, Open
<1>4. FreshOK(p)' BY <1>1, <1>3 DEF FreshOK
<1>5. ASSUME p \in clear' PROVE ClearOK(p)'
  <2>1. p \in clear BY <1>5 DEF SyncQuery
  <2>2. ASSUME NEW h \in Hooks, batch'[h][p] # NoRow
        PROVE  Quiet(p) /\ batch'[h][p] = rows[p]
    <3>1. CASE batch'[h] = batch[h] BY <2>1, <2>2, <3>1 DEF ClearOK
    <3>2. CASE batch'[h] # batch[h]
      <4>1. h = g /\ batch'[g] =
              [q \in Pks |-> IF rows[q] # NoRow /\ rows[q].enabled THEN rows[q] ELSE NoRow]
        BY <3>2 DEF SyncQuery
      <4>2. batch'[g][p] # NoRow => \A w \in Writers : ~(Open(w) /\ req[w].pk = p)
        BY <1>5, <3>2 DEF SyncQuery
      <4> QED BY <2>2, <4>1, <4>2 DEF Quiet
    <3> QED BY <3>1, <3>2
  <2> QED BY <1>1, <1>2, <1>3, <2>1, <2>2 DEF ClearOK
<1> QED BY <1>4, <1>5 DEF RowOK, ClearOK

\* It tells of one, which is still as it was read if it is clear.
LEMMA SendKeeps ==
    ASSUME SyncInv, NEW g \in Hooks, SyncSend(g), NEW p \in Pks PROVE RowOK(p)'
<1> USE DEF SyncInv, TypeOK, writing
<1>1. PICK q \in Pks : /\ batch[g][q] # NoRow
                       /\ told' \in {told, [told EXCEPT ![q] = batch[g][q]]}
                       /\ batch' = [batch EXCEPT ![g][q] = NoRow]
  BY DEF SyncSend
<1>2. UNCHANGED <<rows, writing, snapshot, fresh, clear>> BY DEF SyncSend
<1>3. CASE p # q
  <2>1. told'[p] = told[p] /\ \A h \in Hooks : batch'[h][p] = batch[h][p] BY <1>1, <1>3
  <2>2. RowOK(p) BY DEF RowOK
  <2> QED BY <1>2, <2>1, <2>2, SameKeeps
<1>4. CASE p = q
  <2>1. Quiet(p)' <=> Quiet(p) BY <1>2 DEF Quiet, Open
  <2>2. FreshOK(p)' BY <1>2, <2>1 DEF FreshOK
  <2>3. ASSUME p \in clear PROVE ClearOK(p)'
    <3>1. Quiet(p) /\ batch[g][p] = rows[p] /\ told[p] = rows[p]
      BY <1>1, <1>4, <2>3 DEF ClearOK
    <3>2. told'[p] = rows'[p] BY <1>1, <1>2, <1>4, <3>1
    <3>3. \A h \in Hooks : batch'[h][p] = NoRow \/ batch'[h][p] = batch[h][p] BY <1>1, <1>4
    <3>4. \A w \in Writers : ~At(w, p)' BY <2>1, <3>1 DEF Quiet, At
    <3> QED BY <1>2, <2>1, <2>3, <3>1, <3>2, <3>3, <3>4 DEF ClearOK
  <2> QED BY <1>2, <2>2, <2>3 DEF RowOK, ClearOK
<1> QED BY <1>3, <1>4

\* An inventory is read, passed on or dropped.
LEMMA SnapshotKeeps ==
    ASSUME SyncInv, SnapshotRead \/ SnapshotSend \/ SnapshotSkipped, NEW p \in Pks
    PROVE  RowOK(p)'
<1> USE DEF SyncInv, TypeOK, writing, hooking
<1>1. UNCHANGED <<rows, writing, batch>> BY DEF SnapshotRead, SnapshotSend, SnapshotSkipped
<1>2. \A w \in Writers : At(w, p)' <=> At(w, p) BY <1>1 DEF At, Open
<1>3. Quiet(p)' <=> Quiet(p) BY <1>1 DEF Quiet, Open
<1>4. CASE SnapshotRead
  <2>1. FreshOK(p)' BY <1>3, <1>4 DEF SnapshotRead, FreshOK, Quiet
  <2>2. \A w \in Writers : DraftOK(w, p)' <=> DraftOK(w, p)
    BY <1>1, <1>4 DEF SnapshotRead, DraftOK, Suppressed, InTransaction
  <2>3. ClearOK(p)' BY <1>1, <1>2, <1>3, <1>4, <2>2 DEF SnapshotRead, ClearOK
  <2> QED BY <2>1, <2>3 DEF RowOK
<1>5. CASE SnapshotSend
  <2>1. FreshOK(p)' BY <1>5 DEF SnapshotSend, FreshOK
  <2>2. ASSUME p \in clear' PROVE ClearOK(p)'
    <3>1. /\ p \in fresh /\ \A h \in Hooks : batch[h][p] = NoRow
          /\ told'[p] = snapshot[p] /\ snapshot # NoSnapshot
      BY <1>5, <2>2 DEF SnapshotSend
    <3>2. Quiet(p) /\ told'[p] = rows'[p] BY <1>1, <3>1 DEF FreshOK
    <3>3. \A w \in Writers : ~At(w, p)' BY <1>2, <3>2 DEF Quiet, At
    <3> QED BY <1>1, <3>1, <3>2, <3>3 DEF ClearOK
  <2> QED BY <2>1, <2>2 DEF RowOK, ClearOK
<1>6. CASE SnapshotSkipped
  <2>1. RowOK(p) BY DEF RowOK
  <2> QED BY <1>6, <2>1, SameKeeps DEF SnapshotSkipped
<1> QED BY <1>4, <1>5, <1>6

-----------------------------------------------------------------------------

\* Nothing is clear or fresh at the start.
LEMMA SyncInit == Init => SyncInv
<1> SUFFICES ASSUME Init PROVE SyncInv
  OBVIOUS
<1>1. Empty \in [Pks -> Rows \cup {NoRow}] BY DEF Empty
<1>2. TypeOK BY <1>1, LiveSyncAssumption DEF Init, TypeOK
<1> QED BY <1>2 DEF Init, SyncInv, FreshOK, ClearOK

\* Every step keeps the invariant.
LEMMA SyncNext == SyncInv /\ [Next]_vars => SyncInv'
<1> SUFFICES ASSUME SyncInv, [Next]_vars PROVE SyncInv'
  OBVIOUS
<1>1. TypeOK' BY TypeNext DEF SyncInv
<1>2. ASSUME NEW p \in Pks PROVE RowOK(p)'
  <2>1. ASSUME NEW w \in Writers,
               Write(w) \/ ForeignWrite(w) \/ Signal(w) \/ Commit(w) \/ Rollback(w)
        PROVE  RowOK(p)'
    BY <2>1, OtherRows, WriteKeeps, ForeignKeeps, SignalKeeps, EndKeeps
  <2>2. ASSUME \/ DisconnectSignals \/ UNCHANGED vars
               \/ \E h \in Hooks : ConnectSignals(h)
        PROVE  RowOK(p)'
    <3>1. RowOK(p) BY DEF SyncInv, RowOK
    <3>2. UNCHANGED <<rows, told, writing, batch, snapshot, fresh, clear>>
      BY <2>2 DEF DisconnectSignals, ConnectSignals, vars, hooking
    <3> QED BY <3>1, <3>2, SameKeeps DEF writing
  <2> QED BY <2>1, <2>2, QueryKeeps, SendKeeps, SnapshotKeeps DEF Next
<1> QED BY <1>1, <1>2 DEF SyncInv, RowOK

-----------------------------------------------------------------------------
(* Theorems. *)

\* What holds of the table, the events and the inventories in every reachable
\* state.
THEOREM SyncInvariant == Spec => []SyncInv
BY SyncInit, SyncNext, PTL DEF Spec

\* The variables stay in their types.
THEOREM SyncTypeCorrect == Spec => []TypeOK
<1>1. SyncInv => TypeOK BY DEF SyncInv
<1> QED BY SyncInvariant, <1>1, PTL

\* The events alone keep a clear row right, for any number of rows, writers
\* and connections: the noise filter hides nothing and a sync thread tells
\* nothing stale of a row that is clear.
THEOREM EventsKeepClearRowsRight == Spec => []ClearRowsAreRight
<1>1. ASSUME SyncInv PROVE ClearRowsAreRight
  <2>1. clear \subseteq Pks BY <1>1 DEF SyncInv, TypeOK
  <2> QED BY <1>1, <2>1 DEF SyncInv, ClearOK, ClearRowsAreRight
<1> QED BY SyncInvariant, <1>1, PTL

\* Once the writes have stopped and what is told is the table, it stays so, for
\* any number of connections made, given up or broken off in their sync: what
\* the convergence rests on.
THEOREM SettledIsStable == Spec => SettledStays
<1>1. ASSUME TypeOK, Settled, [Next]_vars PROVE Settled'
  <2> USE <1>1 DEF Settled, TypeOK
  <2>1. ASSUME NEW w \in Writers, Write(w) \/ ForeignWrite(w) \/ Signal(w) \/ Commit(w) \/ Rollback(w)
        PROVE  FALSE
    BY <2>1 DEF Write, ForeignWrite, Signal, Commit, Rollback, Open
  <2>2. ASSUME NEW h \in Hooks, ConnectSignals(h) PROVE Settled'
    BY <2>2 DEF ConnectSignals, writing
  <2>3. ASSUME NEW h \in Hooks, SyncQuery(h) PROVE Settled'
    BY <2>3 DEF SyncQuery, writing
  <2>4. ASSUME NEW h \in Hooks, SyncSend(h) PROVE Settled'
    <3>1. PICK p \in Pks : /\ batch[h][p] # NoRow
                           /\ told' \in {told, [told EXCEPT ![p] = batch[h][p]]}
                           /\ batch' = [batch EXCEPT ![h][p] = NoRow]
      BY <2>4 DEF SyncSend
    <3>2. told' = told BY <3>1
    <3>3. \A k \in Hooks, q \in Pks : batch'[k][q] \in {NoRow, batch[k][q]} BY <3>1
    <3> QED BY <2>4, <3>2, <3>3 DEF SyncSend, writing
  <2>5. CASE DisconnectSignals BY <2>5 DEF DisconnectSignals, writing
  <2>6. CASE SnapshotRead \/ SnapshotSend \/ SnapshotSkipped
    BY <2>6 DEF SnapshotRead, SnapshotSend, SnapshotSkipped, writing, hooking
  <2>7. CASE UNCHANGED vars BY <2>7 DEF vars, writing, hooking
  <2> QED BY <1>1, <2>1, <2>2, <2>3, <2>4, <2>5, <2>6, <2>7 DEF Next
<1>2. TypeOK /\ [Next]_vars => [Settled => Settled']_vars BY <1>1
<1> QED BY <1>2, SyncTypeCorrect, PTL DEF Spec, SettledStays
===============================================================================
