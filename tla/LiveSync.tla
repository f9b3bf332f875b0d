------------------------------- MODULE LiveSync -------------------------------
(***************************************************************************)
(* src/z4j_celerybeat/signals.py: what the sink is told of the schedules   *)
(* in the PeriodicTask table, beside the table itself.                     *)
(*                                                                         *)
(* Threads of this process save and delete rows; Django sends its signals  *)
(* in the writing thread, after the statement and, in a transaction,       *)
(* before the commit.  Other processes write without a signal.  Connecting *)
(* the hooks starts a thread that tells of the rows it finds.  The agent's *)
(* runtime lists all schedules from time to time (scheduler.py:98-128).    *)
(*                                                                         *)
(* told is what a consumer holds that applies the sink's calls in order:   *)
(* "created" and "updated" set a schedule, "deleted" removes it, and an    *)
(* inventory replaces everything.                                          *)
(***************************************************************************)
CONSTANTS Pks, Defs,
          Writers,    \* threads of this and other processes; each writes once
          Requests,   \* what they may write
          Hooks,      \* CeleryBeatSignalHooks objects, in use one after the other
          Table,      \* the rows at the start
          NoRow, NoHook, NoSnapshot

Rows == [def : Defs, enabled : BOOLEAN]

\* atomic: whether the caller has opened a transaction around the write.
\* "foreign" is a write of another process, or one that sends no signal.
RequestType == [op : {"save", "toggle", "tick", "delete", "foreign"}, pk : Pks,
                row : Rows \cup {NoRow}, atomic : BOOLEAN]

ASSUME LiveSyncAssumption ==
    /\ NoRow \notin Rows
    /\ NoHook \notin Hooks
    /\ Requests \subseteq RequestType
    /\ \A r \in Requests : r.row = NoRow => r.op = "foreign"
    /\ Table \in [Pks -> Rows \cup {NoRow}]
    /\ NoSnapshot \notin [Pks -> Rows \cup {NoRow}]

VARIABLES rows,     \* the committed table
          told,     \* what the sink's calls so far come to
          req,      \* per writer: its request
          pc,       \* per writer: "idle", "written", "signalled", "done"
          draft,    \* per writer: the row it has written
          created,  \* per writer: whether its save inserted the row
          hook,     \* per hooks object: "new", "connected" or "off"
          current,  \* the adapter's _signal_hooks
          batch,    \* per hooks object: rows its sync thread has still to tell of
          syncing,  \* hooks objects whose sync thread has not queried yet
          snapshot, \* the inventory the runtime has read and not yet passed on
          fresh,    \* rows that nobody has touched since that inventory was read
          clear     \* rows whose changes have been told undisturbed, see below

writing == <<req, pc, draft, created>>
hooking == <<hook, current, batch, syncing>>
vars    == <<rows, told, writing, hooking, snapshot, fresh, clear>>

Empty == [p \in Pks |-> NoRow]

TypeOK ==
    /\ rows     \in [Pks -> Rows \cup {NoRow}]
    /\ told     \in [Pks -> Rows \cup {NoRow}]
    /\ req      \in [Writers -> Requests]
    /\ pc       \in [Writers -> {"idle", "written", "signalled", "done"}]
    /\ draft    \in [Writers -> Rows \cup {NoRow}]
    /\ created  \in [Writers -> BOOLEAN]
    /\ hook     \in [Hooks -> {"new", "connected", "off"}]
    /\ current  \in {h \in Hooks : hook[h] # "new"} \cup {NoHook}
    /\ batch    \in [Hooks -> [Pks -> Rows \cup {NoRow}]]
    /\ syncing  \in SUBSET Hooks
    /\ snapshot \in [Pks -> Rows \cup {NoRow}] \cup {NoSnapshot}
    /\ fresh    \in SUBSET Pks
    /\ clear    \in SUBSET Pks

Init ==
    /\ rows     = Table
    /\ told     = Empty
    /\ req      \in [Writers -> Requests]
    /\ pc       = [w \in Writers |-> "idle"]
    /\ draft    = [w \in Writers |-> NoRow]
    /\ created  = [w \in Writers |-> FALSE]
    /\ hook     = [h \in Hooks |-> "new"]
    /\ current  = NoHook
    /\ batch    = [h \in Hooks |-> Empty]
    /\ syncing  = {}
    /\ snapshot = NoSnapshot
    /\ fresh    = {}
    /\ clear    = {}

-----------------------------------------------------------------------------
(* Writers. *)

\* The writer's call returns, and its local variables go.
Done(w) ==
    /\ pc'      = [pc      EXCEPT ![w] = "done"]
    /\ draft'   = [draft   EXCEPT ![w] = NoRow]
    /\ created' = [created EXCEPT ![w] = FALSE]

\* Between a writer's statement and its last step.
Open(w) == pc[w] \in {"written", "signalled"}

\* Django deletes in a transaction of its own when a signal has receivers.
InTransaction(w) == req[w].atomic \/ req[w].op = "delete"

\* A row written in a transaction is locked until its end.
Free(p) == \A w \in Writers : ~(Open(w) /\ InTransaction(w) /\ req[w].pk = p)

\* What a request makes of the row.  A toggle works on the row as it is.
Result(r) == CASE r.op = "save"   -> r.row
               [] r.op = "toggle" -> [rows[r.pk] EXCEPT !.enabled = r.row.enabled]
               [] r.op = "tick"   -> rows[r.pk]
               [] r.op = "delete" -> NoRow

\* Somebody else is about to tell of row p what he has read or written.
Contended(p) == \/ \E w \in Writers : Open(w) /\ req[w].pk = p
                \/ \E h \in Hooks : batch[h][p] # NoRow

Write(w) ==
    LET r == req[w] IN
    /\ pc[w] = "idle"
    /\ r.op # "foreign"
    /\ r.op # "save" => rows[r.pk] # NoRow
    /\ Free(r.pk)
    /\ pc'      = [pc      EXCEPT ![w] = "written"]
    /\ draft'   = [draft   EXCEPT ![w] = Result(r)]
    /\ created' = [created EXCEPT ![w] = rows[r.pk] = NoRow]
    /\ rows'    = IF InTransaction(w) THEN rows ELSE [rows EXCEPT ![r.pk] = Result(r)]
    /\ fresh'   = fresh \ {r.pk}
    /\ clear'   = IF Contended(r.pk) \/ snapshot # NoSnapshot THEN clear \ {r.pk} ELSE clear
    /\ UNCHANGED <<told, req, hooking, snapshot>>

\* The update_fields a save is made with; none for a save of everything.
Fields(op) == CASE op = "toggle" -> {"enabled", "last_run_at", "date_changed"}
                [] op = "tick"   -> {"last_run_at", "total_run_count", "date_changed"}
                [] OTHER         -> {}

NoiseOnlyUpdateFields == {"last_run_at", "total_run_count", "date_changed"}

\* Mutant: one noise field among the updated ones is enough.
SuppressedByAny(w) ==
    ~created[w] /\ Fields(req[w].op) \cap NoiseOnlyUpdateFields # {}

\* Beat's own bookkeeping is not reported.
Suppressed(w) ==
    /\ ~created[w]
    /\ Fields(req[w].op) # {}
    /\ Fields(req[w].op) \subseteq NoiseOnlyUpdateFields

Listening == \E h \in Hooks : hook[h] = "connected"

\* The signal is sent.  Handlers that are connected map the instance and call
\* the sink; when either fails the write goes on and nothing was told.
Signal(w) ==
    LET p == req[w].pk IN
    /\ pc[w] = "written"
    /\ IF InTransaction(w)
       THEN pc' = [pc EXCEPT ![w] = "signalled"] /\ UNCHANGED <<draft, created>>
       ELSE Done(w)
    /\ \/ Suppressed(w) /\ UNCHANGED <<told, clear>>
       \/ ~Suppressed(w) /\ Listening
          /\ told' = [told EXCEPT ![p] = draft[w]]
          /\ UNCHANGED clear
       \/ ~Suppressed(w) /\ clear' = clear \ {p} /\ UNCHANGED told
    /\ UNCHANGED <<rows, req, hooking, snapshot, fresh>>

Commit(w) ==
    /\ pc[w] = "signalled"
    /\ Done(w)
    /\ rows' = [rows EXCEPT ![req[w].pk] = draft[w]]
    /\ UNCHANGED <<told, req, hooking, snapshot, fresh, clear>>

\* The transaction fails after the signal: what was told has not happened.
Rollback(w) ==
    /\ Open(w) /\ InTransaction(w)
    /\ Done(w)
    /\ clear' = clear \ {req[w].pk}
    /\ UNCHANGED <<rows, told, req, hooking, snapshot, fresh>>

\* The write of another process: the table changes, and nothing is told.
ForeignWrite(w) ==
    LET p == req[w].pk IN
    /\ pc[w] = "idle" /\ req[w].op = "foreign"
    /\ Free(p)
    /\ rows'  = [rows EXCEPT ![p] = req[w].row]
    /\ pc'    = [pc EXCEPT ![w] = "done"]
    /\ fresh' = fresh \ {p}
    /\ clear' = clear \ {p}
    /\ UNCHANGED <<told, req, draft, created, hooking, snapshot>>

-----------------------------------------------------------------------------
(* connect_signals(), disconnect_signals() and the initial sync. *)

\* Every call makes a new hooks object and forgets the last one, which stays
\* connected.  Where Django cannot be imported the new one connects to nothing.
ConnectSignals(h) ==
    /\ hook[h] = "new"
    /\ current' = h
    /\ \/ /\ hook'    = [hook EXCEPT ![h] = "connected"]
          /\ syncing' = syncing \cup {h}
       \/ hook' = [hook EXCEPT ![h] = "off"] /\ UNCHANGED syncing
    /\ UNCHANGED <<rows, told, writing, batch, snapshot, fresh, clear>>

\* Mutant: the adapter keeps the object, which could be connected again.
DisconnectKeepingIt ==
    /\ current # NoHook
    /\ hook' = [hook EXCEPT ![current] = "new"]
    /\ UNCHANGED <<rows, told, writing, current, batch, syncing, snapshot, fresh, clear>>

\* The object is forgotten.  Where the model cannot be imported, or Django does
\* not let go of a handler, it stays connected nevertheless; and the sync thread,
\* if it is still at work, is not stopped.
DisconnectSignals ==
    /\ current # NoHook
    /\ hook' \in {hook, [hook EXCEPT ![current] = "off"]}
    /\ current' = NoHook
    /\ UNCHANGED <<rows, told, writing, batch, syncing, snapshot, fresh, clear>>

\* The query for the enabled rows; it may fail, and then nothing is told.
SyncQuery(h) ==
    /\ h \in syncing
    /\ syncing' = syncing \ {h}
    /\ \/ /\ batch' = [batch EXCEPT ![h] =
                 [p \in Pks |-> IF rows[p] # NoRow /\ rows[p].enabled THEN rows[p] ELSE NoRow]]
          /\ clear' = {p \in clear : batch'[h][p] # NoRow =>
                          \A w \in Writers : ~(Open(w) /\ req[w].pk = p)}
       \/ UNCHANGED <<batch, clear>>
    /\ UNCHANGED <<rows, told, writing, hook, current, snapshot, fresh>>

\* A row is told as "created", in paced chunks; a row that fails is passed over.
SyncSend(h) ==
    /\ \E p \in Pks :
          /\ batch[h][p] # NoRow
          /\ told' \in {told, [told EXCEPT ![p] = batch[h][p]]}
          /\ batch' = [batch EXCEPT ![h][p] = NoRow]
    /\ UNCHANGED <<rows, writing, hook, current, syncing, snapshot, fresh, clear>>

-----------------------------------------------------------------------------
(* The runtime's periodic inventory. *)

\* Mutant: the inventory holds the enabled rows.
SnapshotOfEnabled ==
    /\ snapshot = NoSnapshot
    /\ snapshot' = [p \in Pks |-> IF rows[p] # NoRow /\ rows[p].enabled THEN rows[p] ELSE NoRow]
    /\ fresh' = {p \in Pks : \A w \in Writers : ~(Open(w) /\ req[w].pk = p)}
    /\ UNCHANGED <<rows, told, writing, hooking, clear>>

\* list_schedules() reads every row, enabled or not.
SnapshotRead ==
    /\ snapshot = NoSnapshot
    /\ snapshot' = rows
    /\ fresh' = {p \in Pks : \A w \in Writers : ~(Open(w) /\ req[w].pk = p)}
    /\ UNCHANGED <<rows, told, writing, hooking, clear>>

\* The inventory is passed on; a row changed since has been overtaken by it.
SnapshotSend ==
    /\ snapshot # NoSnapshot
    /\ told'     = snapshot
    /\ snapshot' = NoSnapshot
    /\ clear'    = {p \in fresh : \A h \in Hooks : batch[h][p] = NoRow}
    /\ fresh'    = {}
    /\ UNCHANGED <<rows, writing, hooking>>

\* The read failed or was not passed on; this cycle is skipped.
SnapshotSkipped ==
    /\ snapshot # NoSnapshot
    /\ snapshot' = NoSnapshot
    /\ fresh'    = {}
    /\ UNCHANGED <<rows, told, writing, hooking, clear>>

-----------------------------------------------------------------------------

Next ==
    \/ \E w \in Writers : Write(w) \/ ForeignWrite(w) \/ Signal(w) \/ Commit(w) \/ Rollback(w)
    \/ \E h \in Hooks : ConnectSignals(h) \/ SyncQuery(h) \/ SyncSend(h)
    \/ DisconnectSignals
    \/ SnapshotRead \/ SnapshotSend \/ SnapshotSkipped

\* The runtime takes an inventory from time to time, and not all of them fail.
\* Nothing is assumed of the writers, the handlers or the sync thread.
Fairness == WF_vars(SnapshotRead) /\ SF_vars(SnapshotSend)

Spec     == Init /\ [][Next]_vars
FairSpec == Spec /\ Fairness

-----------------------------------------------------------------------------
(* Properties. *)

Quiet(p) == \A w \in Writers : ~(Open(w) /\ req[w].pk = p)

\* Once an inventory has told of a row, the events alone keep what is told
\* equal to the table, as long as its writes come from this process, one after
\* the other, commit, find a hook connected and the sink takes the event
\* (clear): no change of the schedule hides behind Beat's bookkeeping, and
\* none is told wrong.
ClearRowsAreRight == \A p \in clear : Quiet(p) => told[p] = rows[p]

\* The writes have stopped, what is told is the table, and nothing that is still
\* to be told is out of date.
Settled ==
    /\ \A w \in Writers : pc[w] = "done"
    /\ told = rows
    /\ \A h \in Hooks, p \in Pks : batch[h][p] \in {NoRow, rows[p]}
    /\ snapshot \in {NoSnapshot, rows}

\* Then neither a hook that is connected or disconnected, nor the sync of its
\* enabled rows, whole or broken off, nor an inventory makes it differ again.
SettledStays == [][Settled => Settled']_vars

\* Whatever was lost, overtaken, told of a transaction that was rolled back or
\* written by another process: once the writes stop, what is told becomes the
\* table and stays so.
ToldConverges == <>[](told = rows)
==============================================================================
