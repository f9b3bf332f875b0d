# A verification model of z4j-celerybeat

z4j-celerybeat is the adapter through which the z4j agent lists, edits and fires
the schedules of a Celery Beat installation. This directory holds TLA+ modules
of its behaviour, TLC configurations that check them on small instances,
and proofs, checked by TLAPS, of the results that matter most for every size.
Paths below are relative to the repository's root.

## The system

| part | code | state | operations |
|---|---|---|---|
| offload pool | `src/z4j_celerybeat/_offload.py` | the lazily created executor (8 threads, a FIFO queue), its creation lock | `offload(fn, timeout)`, `reset_offload_executor` after a fork |
| database source | `sources/dcb.py` | django-celery-beat's `PeriodicTask` table and the four tables of related schedules; a cached reference to the models | list, get, create, update, delete, `set_enabled`, compare-and-set `apply_external_mutation` |
| related schedule rows | `sources/dcb.py:436-507` | the interval, crontab, clocked and solar tables, whose rows tasks share | create or fetch the row of a schedule |
| static source | `sources/static.py` | `app.conf.beat_schedule` (read only) | list, get; every edit is refused |
| scheduler adapter | `scheduler.py`, `capabilities.py` | its list of sources, the Celery app, the signal hooks | the same operations over all sources, `trigger_now`, `capabilities` |
| signal hooks | `signals.py` | whether the handlers are connected | `connect` (with an initial sync in a thread), `_on_save`, `_on_delete`, `disconnect`; the runtime's inventories beside them |
| mapper | `mapper.py` | none | rows and static entries to `Schedule` |

How they interact. The agent's event loop calls the adapter. The adapter asks
its sources one after the other and decides after each answer whether to go on.
The database source and `trigger_now` run their blocking work through
`offload()`, which hands it to a pool thread and gives the wait up after a
timeout; the thread goes on. Several such threads, the Django administration
site and the Beat process change one table. Django's signals call the hooks in
whichever thread saves a row.

What is hard about it, and what should hold:

* **Time-outs that are not failures.** A call that was given up may still take
  effect, now or later. Nothing may be reported as failed that can still happen
  (`AnswersAreFinal`, `AnswersCoverEffects`), no command may be offered to a
  second source after the first timed out (`AtMostOneSource`), and a stall may
  leave only boundedly many late effects behind (`LateEffectsBounded`).
* **Many writers of one row.** A compare-and-set edit takes effect only on what
  its caller saw (`CasCommitsOnExpected`); an edit that reads, locks and writes
  may lose nothing in between (`NoLostUpdates`); and it should be known which
  operation can undo others' work (`OnlyPlainUpdateUndoes`).
* **Sources that cannot be read.** An unreadable source is not an empty one: the
  inventory must be complete or absent (`InventoryComplete`) and a trigger must
  fire the schedule of the source that owns the id, or none (`FiresTheOwner`).
* **Identities.** A numeric task name must not shadow another row's key
  (`ExactIdentity`), and every schedule that is listed must be found under its
  id, and nothing else (`ListedIsFound`).
* **One pool.** Threads that find no pool at the same time create one
  (`OnePoolPerProcess`), a forked child uses none of its parent's
  (`PoolIsLocal`), and nobody waits for a lock whose holder does not exist
  (`CallersGetAPool`).
* **Shared schedule rows.** Writing one task's schedule must not change another
  task's (`OthersKeepTheirSchedule`), a native command must become visible with
  its schedule row or not at all, also when the answer to its commit is lost
  (`NativeIsAllOrNothing`), and what is read back must be what was written,
  through texts with several spellings and columns of bounded precision
  (`WrittenIsRead`, `CasSeesNativeColumns`).
* **Lossy, unordered events.** What the sink is told must become the table
  (`ToldConverges`) and stay right while nothing disturbs it
  (`ClearRowsAreRight`, `SettledStays`).
* **Progress.** Callers are always answered (`EveryCallAnswered`), the pool
  recovers from a stall (`PoolRecovers`), row locks are given back
  (`EverySessionEnds`). Each rests on something the states must provide: no call
  is lost from the queue (`QueueIsExact`), a lock always has a holder that goes
  on (`LocksAreNotOrphaned`), and a picture that is right is not made wrong by
  what is still on its way (`SettledStays`).

`PROJECT.json` lists every hazard at its line, the covered and the uncovered.

## The modules

### OffloadPool and CallPromise

`OffloadPool` is `offload()` with the executor beneath it. `reply[c]` is the
awaiting coroutine, `future[c]` the concurrent future, `queue` the executor's
queue, `running[w]` a thread, `landed[c]` the call's side effect. `Submit`,
`Deliver` and `TimeOut` are the event loop's steps; `Start`, `Skip`, `Apply` and
`Finish` are a thread's, modelled from `concurrent.futures` as the code uses it.
A thread may raise before or after its effect, may raise `TimeoutError` itself
(which the handler around `wait_for` cannot tell from the timer's), and may hang
for ever. A future that times out while queued is cancelled and its item stays
in the queue until a thread drops it.

`CallPromise` is the abstract contract the rest of the code is written against:
an effect lands at most once; a definite answer is given only when the function
has ended; "unknown" promises neither. `KeepsPromise` says that `OffloadPool`
implements it under the mapping `answer`, `ended`, `landed`.

### ExecutorLifecycle

`_get_executor()` statement by statement, and `reset_offload_executor()`.
`executor[p]` and `lock[p]` are the module globals `_executor` and `_lock` of
process `p`; a pool is named after the thread that created it. `Look` is the
check without the lock, `Acquire` ... `Release` the locked section, `Return` the
last read of the global. `Fork` copies both globals as they are, whatever the
parent's other threads are doing, and only the thread that forked; `Reset` is
the at-fork hook in the child. That a lock is replaced while the child has one
thread only is what makes it safe. What a copied thread held is not used in the
child before the hook has run. `OffloadPool` starts where this module ends:
with one pool.

### PeriodicTaskStore and AtomicTable

The operations of `DjangoCeleryBeatSource`, one action per database statement. A
session `s` is one offloaded call; `pc[s]` is the next statement of its
function, `target[s]` and `seen[s]` the row it found and what it read,
`verdict[s]` how the function ended, `reply[s]` what the coroutine was told. The
function goes on after a `TimeOut` unless it was still queued: this is all the
module uses of `OffloadPool`.

| action | code |
|---|---|
| `Begin` | the overlap refusal, the identity check of `_mutate_sync`, and the choice of the first statement |
| `Resolve`, `ResolvePk` | `_resolve_periodic_task`, `_get_schedule_sync`: exact key, else name, else the name read as a key |
| `LockToToggle`, `LockToMutate` | `select_for_update().get()` in `_set_enabled_sync` and `_mutate_sync`, the latter with the comparison |
| `CheckName`, `Insert` | `exists()` and `objects.create()` |
| `WriteRow` | `row.save()` of every column: the new configuration beside the run counter as it was read; a vanished row is inserted again |
| `WriteEnabled`, `WriteDelete` | `save(update_fields=...)`, `row.delete()` |
| `NameClash`, `DatabaseError` | the unique index; a statement that fails and is rolled back |
| `AdminSave`, `AdminDelete`, `BeatTick` | the other writers of the table (external) |

A row is a unique name, one value for all other configuration columns, the
enabled flag, and Beat's run counter, which stands for every column the adapter
does not mean to write. The native update writes `prior` overlaid with the
definition, where `prior` was just found equal to `expected`; the model's `spec`
is that result. The database is a row-locking one at READ COMMITTED: a writing
statement waits for a locked row, a plain read does not. SQLite, which serialises
writers, allows fewer interleavings. A save of the administration site or of Beat
is one step, and so are a session's write and the commit of its transaction: what
a transaction does in between (it may build a schedule row, run into the unique
name index and update the `PeriodicTasks` row) is not apart from its write here,
and deadlocks that the database finds there and breaks with an error are
`DatabaseError`. An unavailable source is not modelled here but in the routing;
unsupported operations and fields, refused before anything is read, are in
`RelatedSchedules`.

`AtomicTable` is the abstract specification: each operation is one step that
happens at one moment between its call and its answer, or never. `SeemsAtomic`
says that `PeriodicTaskStore` implements it under a mapping that lets an
operation take effect with its commit. The specification makes the one exception
visible that the code makes: `Overwrite`, the plain update, puts every column in
place with an arbitrary run counter, also where the row has been deleted.

### ScheduleMapper and RelatedSchedules

`ScheduleMapper` holds the mapper's pure functions as operators: the length of
an interval, the tolerant JSON fields, the kind and expression of a joined row
(the first foreign key that is set decides), the columns behind `source_hash`,
and the static entries. Text is abstract: an identity is a scheme and what it
names, a cron expression a value, JSON one of a few texts of which some do not
parse. Durations are counted in half microseconds and coordinates in thirds of a
millionth of a degree, so that a value finer than its column can be told from
one that is not; `MicrosPerSecond` is a parameter that is a million in the code
and small in the runs. One number (`place`) stands for both coordinates, whose
columns are alike. `NoRow` stands for
a row that is not there, and for a foreign key whose object is `None`.

`RelatedSchedules` is the writer beside it: `_build_related_schedule_object` as
its parsing and query (`Lookup`) and its insertion (`InsertRelated`), between the
first statement of the create, update or native edit (`Begin`) and the save of
the task (`Save`). `related` is the four schedule tables in one, `maker[r]` the
session that inserted a row, `hidden` the rows of transactions that have not
committed. A native command runs in a transaction: `Commit` ends it with what it
wrote, also when the answer to the commit is lost and the function raises; `End`
ends it with a refusal or an error and rolls back. The plain operations have no
transaction and keep what they have written. A native definition with a field that is
not `Allowed` is refused; coordinates are none of those, so a native edit of a
solar task keeps its place and a native solar creation is refused for want of
one. The solar table is unique and falls back to the row another session has
inserted; the other three are not.
Which expressions parse is a parameter: `FiveFields` as a crontab, `Timestamps`
as a time with an offset, `Naive` as one without, `Empty` as the crontab of
every minute. `Canonical` is the text they are read back as: blanks between cron
fields and the offset of a time are not kept. Coordinates are `Rounded` as they
are stored. Whether a query is rounded too depends on the database:
`RoundedQueries` is FALSE in the runs, where `get_or_create` finds no row for a
coordinate that is too fine, inserts, and raises if the unique index has the row
(`Findable`); the proofs hold for either. What a create or update *answers* about such
coordinates is the unrounded value in memory, which is not modelled. A native edit of a task's kind
alone is judged with the expression the task has, as the code does. The
administration site edits tasks and shared rows in place and deletes both, the
latter with the tasks that point to them; its forms keep the solar table unique
too. `beat_schedule` is a dict, so no two static entries have one name
(`TablesAssumption`, which TLC evaluates for every instance). `Joined(p)` is the task with its
schedule rows, which is what `ScheduleMapper` reads; `Inventory` and `Get` are
the two sources' list and look-up over the tables and the static entries.
The locks and the retries of the writes are in `PeriodicTaskStore`, and are here
only as far as the native edit's lock on the task is concerned (`Locked`).

### LiveSync

`signals.py` beside the table it reports. A writer is a thread of this process
whose save or deletion sends Django's signal in that thread: `Write` is the
statement, `Signal` the handlers with their noise filter, `Commit` and `Rollback`
the end of a transaction, which comes after the signal. `ForeignWrite` is
everything that sends none. `ConnectSignals` and `DisconnectSignals` are the
adapter's, with the hooks object that a second connect forgets, and handlers
that stay connected when they cannot be disconnected; `SyncQuery` and
`SyncSend` are the initial-sync thread, row by row. `SnapshotRead`,
`SnapshotSend` and `SnapshotSkipped` are the runtime's inventories through
`list_schedules()`.

`told` is what a consumer holds that applies the sink's calls in their order.
`clear` and `fresh` are history: a row is clear when an inventory has told of it
and since then its writes came from this process, one at a time, committed, and
were handed to a sink that took them.

### SchedulerRouting

`CeleryBeatSchedulerAdapter`'s loops. `phase[c]` and `at[c]` are a command's
coroutine; a command stops being atomic exactly where the code awaits a source
or the broker. What a source answers is nondeterministic within what its answers
promise, whatever its kind: `Accepted`, `Refused` (nothing was changed),
`NotImplemented` (injected sources), `Failed` (something was raised, and the
change may have been made), `TimedOut` (the change may be made later, by
`LandLate`). `touched`, `pending`, `sent`, `since` and `owners` record what
really happened, to compare with `result`. Sources are the built-in database and
static source and "custom" ones, since `sources=` is a public argument;
a subclass of `DjangoCeleryBeatSource` counts as custom, as `type(source) is`
has it. The ids of an inventory stand for names as well, by which the loop drops
what an earlier source has listed. `loaded` is the cached `_models`; `django` says whether the import works.
The overlap refusal that `create_schedule` and `update_schedule` make before
their loop changes nothing and awaits nothing: the commands are those past it.
It is modelled in `PeriodicTaskStore` (`Begin`).

## The runs

Deadlock checking is off everywhere: each call, session or command is made once,
and the system may come to rest after the last.

| run | expects | what it shows, and its bounds |
|---|---|---|
| `OffloadPool` | pass | Four calls, two threads: two calls can be stuck in threads while two more wait and are cancelled. Safety, the queue, answers and recovery under fairness, and `CallPromise`. |
| `ExecutorLifecycle` | pass | A parent and its child with two threads each and a grandchild with one: two threads race for the pool in either process while a fork takes place at any statement, and a child forks again. No lock is left without a holder. |
| `StoreWrites` | pass | Every pair of write operations on one row beside the administration site and Beat (at most one run), under fairness. One row is where they conflict; two sessions and two outside writers give each conflict a third party. Who may overwrite whom, and that every lock is given back. |
| `StoreNames` | pass | Two rows, one named like the other's key, and a free key; creations, exact and bare identities, refusals; `AtomicTable`. |
| `StoreRetry` | violation | See the divergences below. |
| `RelatedSchedules` | pass | Two sessions over three task keys and four schedule keys, two tasks that share an interval; every kind of schedule, plain and native, and refusals of the expression, the kind and the fields; two edits by the administration site. A second is 4 microseconds and the interval column ends at 100, so that whole seconds, fractions, fractions too fine and numbers too large all occur. Of two coordinates one has its column's precision and the other is finer and rounds to it; a crontab is empty or has more blanks, a time has another offset; native definitions have fields that are refused. |
| `RelatedDuplicates` | violation | Three sessions: two to insert, the third to be turned away. |
| `RelatedCasRace` | violation | One native edit and one edit by the administration site. |
| `LiveSync` | pass | Two writers of one row (plain, in a transaction, a toggle, Beat's bookkeeping, a deletion, a foreign write), two connections, any number of inventories; what is settled stays settled, and under fairness it settles. One row suffices: nothing in the hooks relates two rows. |
| `Routing` | pass | Every operation over four sources, custom, database, static, custom: a source before and after each built-in one. |
| `RoutingCold` | pass | Two commands while the models become and stop being importable. |
| `RoutingColdTrigger` | violation | See the divergences below. |

Bounds: `MaxRuns` limits Beat's counter; calls, sessions and commands are made
once each; primary keys are never reused, and a creation needs a free one.
`MaxEdits` limits the administration site in `RelatedSchedules`, `MaxEvery` and
`MicrosPerSecond` its numbers. Commands interact only through the sources'
contents and availability, so `Routing` needs one command and lets the
environment do the rest. Symmetry is used only in runs without a liveness
property. Beside each property's run the
modules hold the mutated operators (marked "Mutant") that show the property can
fail: each is one plausible slip in the code it stands next to.

Fairness. In `OffloadPool`: a timer that stays armed fires (the loop runs), and
an idle thread takes the head of the queue; nothing is assumed of a function
that has started. `PoolRecovers` therefore has its own hypothesis, that some
thread keeps coming back. In `PeriodicTaskStore`: a statement that stays
executable is executed; a statement waiting for a lock gets no help, so
`EverySessionEnds` fails as soon as one path keeps its lock. In
`ExecutorLifecycle`: a thread inside `_get_executor()`, or a forked child before
its hook, goes on when the lock lets it; nobody has to ask, to fork or to start
a thread. In `LiveSync`: the runtime reads an inventory when it has none
pending, and one that is read again and again is passed on at last, which is
what `scheduler.py:104-121` relies on when it lets the next periodic resync
repair a failed one; nothing is assumed of the writers, the handlers or the sync
thread.

### Divergences between the code and its comments

* `StoreRetry`: the comment in `update_schedule` (`sources/dcb.py:209`) calls the
  update idempotent and the retry safe. The first attempt's save is still on its
  way when the retry is made; it can land after the retry and after a later edit,
  which it undoes. A retry of a timed-out update is safe only while nobody else
  edits the row.
* `RoutingColdTrigger`: `scheduler.py:150` says that any read error is
  indeterminate, not absence. The database source turns every failure to import
  the models into "no such schedule" (`sources/dcb.py:73`, `:104`), so a trigger
  made then fires the static entry of the same id. With Django set up the same
  property holds (`Routing`). The head of `sources/dcb.py` (8-11) describes the
  fall-through to the next source as intended for a package that is not
  installed; the code cannot tell that case from an import that fails for
  another reason, or that will work a moment later.
* `RelatedDuplicates`: `sources/dcb.py:440` says "create or fetch". The interval,
  crontab and clocked tables have no unique constraint; two concurrent writers of
  one schedule each insert a row, and from then on `get_or_create` raises
  `MultipleObjectsReturned` for every write of that schedule. The solar table is
  unique, which is django-celery-beat's doing and taken over in the model.
* `RelatedCasRace`: `mapper.py:60` says that a compare-and-set cannot silently
  overwrite an intervening admin edit. The task's row is locked, its shared
  schedule row is not: an administrator's edit of that row after the comparison
  is overwritten. `CasSeesNativeColumns` shows that this is the only way.

Read in the code while modelling it, and modelled as it is, without a run that
is about it: a native edit of any field puts `one_off` back to what the kind
implies (`sources/dcb.py:273`) and rewrites arguments that do not parse as JSON
to the empty list; an invalid clocked expression is reported as `NotFoundError`
(`sources/dcb.py:478`), which the adapter's update loop takes for another
source's schedule; the plain create and update leave a schedule row behind when
the save after it fails; an entry of `beat_schedule` whose schedule is a plain
Celery `schedule` object reads as a cron expression (`mapper.py:293`); and
events are sent before the commit, so a transaction that is rolled back has been
told of until the next inventory.

## The proofs

Eight modules hold theorems. They assume only the named assumptions on the
constants (`PoolAssumption`, `LifecycleAssumption`, `StoreAssumption`,
`RelatedAssumption`, `TablesAssumption`, `TextAssumption`, `MapperAssumption`,
`LiveSyncAssumption`, `RoutingAssumption`), except two theorems of
`RoutingReadProofs`, see there. Each has an inductive invariant, some a second on top of it, one lemma per
action or per kind of step, and the properties as consequences.

* **Pool** (`OffloadPoolProofs`; any calls, any finite non-empty set of threads).
  The inductive invariant `IndInv` adds to the types: a future is RUNNING exactly
  when a thread holds the call, no two threads hold the same one, a definite
  answer implies a finished future, a call given up is not PENDING, and only
  started calls have landed. From it: `TypeCorrect`, `CancelledCallsNeverLand`,
  `AnswersTrue`,
  `LateEffectsBoundedByThreads` (the outstanding calls map into the threads that
  run them) and `PoolKeepsPromise`, the refinement of `CallPromise`, one case per
  action. On top of it `QueueIsExact` is inductive: a call is on the queue from
  its submission until a thread takes it off, hence `QueueNeverLoses`.
* **Executor** (`ExecutorLifecycleProofs`; any processes and threads). `LifeInv`:
  the locked section is its holder's alone, whoever is about to create a pool
  still finds none, a pool that was created is what its process has for ever
  after, what a running process has is its own, and the hook runs before the
  child has a second thread. From it: `LifecycleTypeCorrect`, `OnePool`,
  `LocalPool` and `LocksHaveTheirHolder`: the child's new lock is its own.
* **Store** (`PeriodicTaskStoreProofs`; any rows, requests and number of
  sessions). `StoreInv` adds to the types: a session that is past its lock holds
  it and what it has seen is what is in the row; nobody else writes a locked row.
  From it: `StoreTypeCorrect`, `CasIsAtomic` and `LockedWritesLoseNothing`.
* **Refinement** (`AtomicTableProofs`; the same generality, on top of `StoreInv`).
  `AtomicInv` adds that a commit is the last thing a function does, that a
  definite answer is the verdict of a function that has ended, and that a session
  with an exact identity works on that row at every later statement. With it each
  commit is the one abstract step of its operation, each answer an abstract
  answer and everything else a stutter (`StoreSeemsAtomic`). The same invariant
  gives `AnswersFinal`, `IdentityIsExact` and `PlainUpdateOnlyUndoes`.
* **Related rows** (`RelatedSchedulesProofs`; any tables whose foreign keys point
  to rows, as the database sees to, any requests and number of sessions).
  `RelatedInv`: a task points to rows that are committed, a key that was never
  used has no row, and a native session's row stays hidden until the session has
  ended. A session touches only a row that is not committed, hence
  `SharedRowsAreLeftAlone`. The task a native command writes points to the one row
  it has hidden, and both come to light with its last step or neither does
  (`NativeCommandsAreWhole`). `CasIsExact` says that a compare-and-set edit
  lands only on what its caller saw: in tables whose rows have their table's
  columns and whose tasks have one schedule at most, what is compared determines
  the task and its schedule row (`MappedDetermines`), and from the comparison on
  the lock on the task keeps both (`CasInv`); the exception is the one that
  `RelatedCasRace` shows. `RelatedTypeCorrect` needs that rows stay under the keys
  tasks have, whoever deletes or rolls back (`KeysInv`).
  `WritesAreReadBack`: between its look-up and its save a session holds a key under
  which the row it asked for stays unless it is edited or deleted (`AtHand`);
  that the mapper then reads what the schedule that was given stands for, an
  interval exactly and coordinates to the nearest of their column, is `RoundTrip`,
  about the two conversions alone, for any number of microseconds to the second.
  `ListingsAreFound` follows from the identities: a database id names one key,
  a static one one entry of the dict.
* **Routing** (`SchedulerRoutingProofs`; any number and kind of sources and
  commands). `RoutingInv` ties a command's past effects to its phase: while it
  loops or awaits nothing has been touched or is pending, because each answer
  that leaves a doubt ends it. From it: `RoutingTypeCorrect`, `AnswersAreHonest`
  and `OneSourcePerCommand`.
* **Reads** (`RoutingReadProofs`; the same generality). `InventoriesAreComplete`
  and `TriggersFireTheOwner` have the hypothesis `ColdStart = FALSE`, that Django
  can be imported: `RoutingColdTrigger` shows that the second is false without
  it. `ReadInv`: a loop passes a source only on its answer, and a source whose
  models are loaded answers with what it holds. `AdvertisementsAreKept` needs no
  such hypothesis: the source that was available when an edit was advertised is
  latched, and an external mutation looks at every source from the first
  (`LatchInv`).
* **Signals** (`LiveSyncProofs`; any table, writers, requests and connections).
  `SyncInv`: who is about to tell of a clear row is either one writer, whose draft
  the row is or will be, or sync threads that hold the row as it is; a row that
  is fresh stands in the inventory as it is. From it: `SyncTypeCorrect` and
  `EventsKeepClearRowsRight`. `Settled` is inductive by itself: hence
  `SettledIsStable`.

Model-checked only: liveness (`EveryCallAnswered`, `PoolRecovers`,
`EverySessionEnds`, `CallersGetAPool`, `ToldConverges`), which is beyond the
proof system's reach with fairness. What liveness asks of the states is proved:
a call that waits is in the queue (`QueueNeverLoses`, for `PoolRecovers`), a lock
that is waited for has a holder in the locked section (`LocksHaveTheirHolder`, for
`CallersGetAPool`), and what is settled stays so (`SettledIsStable`, for
`ToldConverges`). That the fair steps are then taken is
what TLC checks.

## Not modelled

* The package exports (`__init__.py`, `sources/__init__.py`): imports and
  `__all__` lists, no state.
* Log messages and the wording of errors and results
  (`indeterminate_timeout_result` only words a message). Which error or result is
  given is modelled.
* The waits of a transaction between its write and its commit (`get_or_create`,
  the unique name index, the `PeriodicTasks` row of `sources/dcb.py:338-340`), and
  with them the deadlocks between two transactions that a database detects and
  turns into an error: write and commit are one step in `PeriodicTaskStore`, and
  `EverySessionEnds` says nothing about such waits.
* Which publishes have happened under an answer of `failed`: `AnswersCoverEffects`
  excepts a publish whose acknowledgement was lost.
* The columns the mapper copies unchanged (task, queue, routing, counters): one
  value of a row stands for all of them.
* What django-celery-beat, Celery, Django and the database do beyond what the
  code relies on. Their parts that the code depends on (the executor, row locks,
  `get_or_create`, signals, the administration site, Beat) are marked external
  in the map.
* `source_hash` as a digest: two schedules have the same one exactly when the
  columns behind it are equal. That the caller compares it as part of the
  schedule's external configuration is assumed of the z4j core, which is not in
  this repository.
