# A verification of mind-weaver

mind-weaver keeps Markdown notes, indexes them in a SQLite database, and (in its Go
implementation, under `legacy/go`) syncs the notes of several devices through a server,
Hive Sync. The Rust implementation, under `crates`, has a daemon that keeps the database
fresh. This directory models the parts of the program where order, failure and
concurrency matter, checks them with TLC on small instances and proves the most important
properties with TLAPS for every instance.

All paths below are relative to the repository; `G/` stands for `legacy/go/internal/`.

## 1. The system

| Component | Code | State it keeps | Operations |
|---|---|---|---|
| Server, HTTP | `G/features/syncapi/server.go` | none | push, pull, register a device, state, health |
| Server, in-memory store | `G/features/syncapi/memory_store.go`, `conflict_resolution.go` | log, cursor, idempotency index, snapshots, devices, all under one mutex | `RegisterDevice`, `Push`, `Pull`, `LatestCursor` |
| Server, Postgres store | `G/features/syncapi/postgres_store.go` | the same as tables | the same; a push is one transaction |
| Server, auth and CORS | `G/features/syncapi/auth.go`, `cors.go` | a table read at start | stateless checks |
| Client | `G/features/syncclient/client.go` | local variables of one `RunSyncOnce` | push pending rows, record acks and conflicts, pull pages, apply them, save the cursor; retry with back-off; a worker loop |
| Client database | `G/infra/db/sync_*.go` | outbox, entity versions, cursor, conflicts | enqueue, list pending, mark acked or failed, resolve/increment version |
| Note service | `G/features/notes/service.go` | notes and their children | upsert/delete a note with its outbox row in one transaction |
| Ingestion | `G/features/ingestion/handler.go` | none | walk the notes directory, upsert, prune |
| File watcher | `G/infra/fs/watch/` | one debounce timer per path | write, remove, rename events |
| Todos | `G/features/todos/` | the dashboard and archive files | sync the dashboard, toggle, update, archive |
| Conflict artifacts, review | `G/infra/fs/conflicts/`, `G/mwcli/buildSync_conflicts.go` | files, `resolved_at` | write, list, mark resolved |
| Formatter | `G/features/formatter/`, `G/markdown/meta.go` | none | write ids and titles into notes, create and fill the hubs of folders |
| Registration, validation | `G/features/registration/`, `G/features/validation/`, `G/schema/templates/` | the registry of ids, its conflicts, a cache of issues | scan notes, replace the registry, validate against a domain's schema, list issues |
| Terminal interfaces | `G/features/todos/ui/`, `G/features/graph/ui/` | a screen | keys; the todo screen saves |
| Graph, queries, recipes, cheats | `G/features/*` | none | views of the database |
| Rust watch daemon | `crates/mw/src/main.rs` | the last snapshot of the directory; `watch.pid` | poll, refresh the database; start, stop, restart, foreground, status |
| Rust database, formatter, registry | `crates/mw-db`, `crates/mw-notes` | the same SQLite projection | upsert, prune, replace the registry of note ids, format files |
| Rust todos, parsers, views | `crates/mw-notes`, `crates/mw-tui` | todo files | it has no `mw sync` |

How they interact:

- An edit on a device goes through the note service, which changes the note and inserts an
  outbox row in one SQLite transaction. The row carries the entity version the device last
  *pulled* as `base_version`.
- `mw sync` (`RunSyncOnce`) reads its cursor and the oldest pending rows, sends them in one
  push, marks what was accepted, writes down the conflicts of the answer, and then pulls
  page after page. Each pulled operation is its own transaction; the cursor is saved after
  the page. The client pulls its own operations too: that is what counts its versions.
- The server gives each operation a place in one log. An operation whose `base_version` is
  not the entity's version conflicts, and last-writer-wins decides whether it is applied.
  An operation that loses is logged, but never sent to pullers.
- A push that is sent again is recognised by device and idempotency key.

- `mw notes watch` and `mw notes ingest` bring the files into the database through the note
  service. The watcher hears of changes, deletes at once and reads after 250 ms by a timer;
  ingestion walks the folders and prunes what it did not see. Both may run, and sync too.
- The todo commands read the tasks of all notes, write them back to the notes, to a dashboard
  that the user ticks off, and to a life log. The formatter rewrites notes and hubs. Neither
  locks anything: an editor, or a stop, may come between two accesses to files.
- The Rust daemon polls the directory. When files changed it formats them if it was told
  to, ingests all notes, prunes those whose file is gone, and rebuilds the registry of ids.
  Commands find the daemon by its pid file. User, daemon and commands share the files and
  the database and nothing else.

What is hard: two handlers at once, pushes that are retried while the first is still being
worked on, answers that are lost, sessions that stop between two statements, READ COMMITTED
transactions in Postgres, edits that are made while a sync or a refresh runs, and processes
that are stopped half-way. `PROJECT.json` lists
each hazard at its line, with the properties that would catch it.

What makes each component correct:

- *stores*: an idempotency key is logged once; what was answered is logged; the snapshot
  follows the log; concurrent edits end with the newest; a lost edit is reported; a puller
  misses nothing;
- *client*: an acknowledged row is on the server; the cursor passes nothing that was not
  applied; versions count the log; devices converge; a losing device learns of it; every
  edit is pushed and arrives everywhere in the end;
- *watch daemon*: once it is up to date, the database and the registry are what is on disk;
  what is in the database is queued for sync; every change is noticed; there is one daemon
  and `--stop` finds it;
- *todos*: no task is lost; an id names the task it was listed for; a sync can be stopped and
  repeated; an update changes its todos and the keys it was asked for, and nothing else; what
  was marked is what is archived; all readers of a todo agree;
- *formatter, registration*: formatting can be stopped and repeated, loses no line, changes no
  id and breaks no schema; a note is registered or its issue is listed;
- *watcher and ingestion*: when nothing is under way, the database is what is on disk, and the
  difference is queued.

## 2. The modules

| Module | What it is |
|---|---|
| `SyncLog` | the abstract specification: what a store promises its clients |
| `SyncOperations` | operations, validation and the conflict rule, as operators both stores use |
| `HiveStore` | the server with the in-memory store; implements `SyncLog` |
| `HiveStoreProofs` | theorems about `HiveStore` and their proofs |
| `PgStore` | the server with the Postgres store, one action per SQL statement |
| `PgStoreProofs` | theorems about `PgStore` and their proofs |
| `HiveSync` | clients with their databases, composed with `HiveStore` |
| `HiveSyncProofs` | theorems about `HiveSync`, on top of those about `HiveStore` |
| `NotesProjection` | note files, the SQLite projection and one refresh of it, step by step |
| `WatchDaemon` | the watchers that run refreshes, and the commands that run watchers |
| `WatchDaemonProofs` | theorems about `WatchDaemon` and their proofs |
| `TodoLines` | how the todo commands read a note: tasks, blocks, ids, dashboard, as operators |
| `TodoFiles` | the todo commands, file by file, beside an editor |
| `TodoFilesProofs` | theorems about `TodoFiles` and their proofs |
| `TodoScreen` | the todo screen, key by key, on top of `TodoFiles` |
| `TodoWeights` | the tokens of a todo: readers, the update of the metadata line, the weight |
| `TodoUpdates` | one todo under any updates |
| `TodoUpdatesProofs` | theorems about `TodoUpdates` and their proofs |
| `NoteLines` | what formatter and registry make of the lines of a note, as operators |
| `DomainSchema` | the errors of a note against the schema of its domain |
| `NoteFormat` | format, register, validate and fix over folders of notes |
| `NoteFormatProofs` | theorems about `NoteFormat` and their proofs |
| `NotesWatch` | the Go watcher and ingestion, their database and queue |
| `NotesWatchProofs` | theorems about `NotesWatch` and their proofs |
| `MC...` | the constants of the small instances, one module for each module that is run |

### SyncOperations

`Valid` is the checks of `handlePush`; `IsConflict`, `Applied`, `NextSnapshot` and `Event`
are the branches of the loop of `Push`, which both stores share word for word;
`IncomingWinsByLWW` is `incomingWinsByLWW`. Operation and device ids are compared as
strings in the code and are numbers here; only their order matters. A `client_updated_at`
is its instant, 0 if it is no RFC 3339 text. Payloads are opaque, a delete is one of them.

### HiveStore

`operations`, `latestCursor`, `idempotencyIndex`, `entities` and `devices` are the fields of
`MemoryStore` (its `nextCursor` always equals `latestCursor`). `handlers` are requests that
have been decoded and registered and wait for the mutex, `mu` and `job` the push that holds
it. `acked`, `told`, `cursor` and `got` record what devices were told, sent and keep.

| Action | Code |
|---|---|
| `HandleDeviceRegister`, `HandlePush` | the handlers up to `store.Push`, `RegisterDevice` included |
| `LockPush` | `s.mu.Lock()` by any waiting handler |
| `RejectOperation` | the six rejections of `handlePush` |
| `AcceptDuplicate`, `AcceptOperation` | one turn of the loop of `Push` |
| `ReplyPush` | unlock and answer |
| `HandlePull` | `handlePull` and `MemoryStore.Pull`, by a device that keeps `next_cursor` |

Rejections are met inside the loop although `handlePush` makes them before it; they change
nothing, so nobody can tell. Contexts are ignored by the store, so a request whose client
has gone is still carried out.

### PgStore

Each action is one statement of `PostgresStore.Push` in a READ COMMITTED transaction. `rows`,
`entities` and `told` are committed; a transaction `tx[t]` has its own `inserted`, `written`
and `conflicts` until `Commit`. `Blockers` says whom a statement waits for: a `FOR UPDATE`
or an upsert for whoever has locked or written the row, an insert for whoever has inserted
the same unique key. `UniqueViolation`, `DeadlockAbort` and `Fail` are the ways to
`Rollback`. `nextSeq` is the BIGSERIAL: drawn at the insert, never given back. This is the
part of Postgres' documented behaviour that the statements meet, and the only part of the
project, besides the clock and vanished connections, that is not translated from source.

### HiveSync

A device's database is `outbox`, `versions`, `notes`, `conflicts` and its `cursor`. A session
is one running `mw sync`; `pc` and `run` are the program counter and the local variables of
`RunSyncOnce`.

| Action | Code |
|---|---|
| `Edit` | `UpsertParsedNote` / `DeleteNoteByPath` with `EnqueueOutboxOperation` |
| `StartSync` | `readCursor`, `ListPendingOutbox` |
| `SendPush`, `AnswerPush` | the HTTP exchange, composed with `HandlePush`, `ReplyPush` |
| `PushFails` | the error branch: every row of the batch `MarkOutboxAttemptFailed` |
| `RecordAck`, `RecordConflict` | the loops over `Accepted` and `Conflicts` |
| `Pull` | one GET; an empty page ends the sync |
| `ApplyOperation` | `applyOperation`: the note and its version in one transaction |
| `SaveCursor` | `SetSyncState`, next page or end |
| `Crash` | the process stops, or a later step returns its error |
| `Tick` | the second changes |

The server's part is `HiveStore`'s own actions. `PushFails` covers a request that never
arrived, an answer that was lost and a client that timed out: `Disconnect` leaves the
handler running with nobody to answer, so a late original and its retry can meet in the
server in any order. It marks the rows of the batch in one step, where the code marks them
one after another: nothing reads them in between, for a database has one session in these
runs. `time.RFC3339` keeps whole seconds, so `clock` counts seconds.

### NotesProjection and WatchDaemon

`disk` is the notes directory, `notes`, `outbox` and `registry` the tables, `proc` where each
process is in `run_notes_watch_pipeline`. `snap` and `previous` are the locals `current` and
`previous` of the polling loop, `pidFile` is `watch.pid`, `cmd` the invocations of
`mw notes watch`. `alive` is what `kill -0` sees; `spawned`, `background`, `ended` and `untold`
record the history that the properties speak of. Of the outbox a path has the rows, each what it
says of the note, and the newest of them: `Enqueue` is `enqueue_outbox_operation`, which ignores
a row that equals an earlier one, and `untold` are the paths whose latest change met that, or
whose process ended before it could queue.

| Action | Code |
|---|---|
| `Save`, `Remove` | the user |
| `Wake`, `StatNote`, `StatFails`, `EndSnapshot` | `markdown_snapshot` and the comparison |
| `ScanNote`, `EndCheck`, `FormatNote`, `WriteNote`, `EndFormat` | `format_notes` |
| `ReadNote`, `UpsertNote`, `ListPruned`, `DeleteNote`, `QueueDelete`, `EndIngest` | `ingest_notes`, with `upsert_parsed_note` and `delete_note_by_path` |
| `ScanNote`, `LookUpNotes`, `ReplaceRegistry` | `register_notes` |
| `ReadFails` | the `?` of every reading: the file is gone or is not UTF-8 |
| `EndRefresh` | `previous = current`, well or not |
| `Invoke`, `ReadToStop`, `Kill`, `RemovePid`, `RunForeground` | `notes_watch_command`, `stop_notes_watch_daemon` |
| `ReadToStart`, `CleanPid`, `Spawn`, `WritePid` | `spawn_notes_watch_daemon` |
| `Die` | a watcher is interrupted |

A step reads or writes one file or is one transaction. A file is its text, one of a few
values with a size, an id and what it is formatted to; hub notes, which the formatter
creates and fills from their directory, are left out. A process that is sent SIGTERM is
gone at once, and a pid is given out once.

### TodoLines and TodoFiles

`files` are the notes, `dash` the dashboard, `log` the life log, `cmd` the command that runs:
the stages it has left, the notes left to walk, the note just read. `seen` and `kept`, what a
query listed and what the user wrote, are history; `seen` is empty again once a line with a task
was added, removed or retitled. A line is a record: its kind, its level or
indentation, its text, its box, and the area and tags it carries. Parsing of such a line is
left out; which lines belong to a task, to its block and to the Todo section is not.

| Action | Code |
|---|---|
| `UserTicks`, `UserInserts`, `UserTicksDashboard` | the editor saves a file |
| `QueryTodos` | `QueryTodos`; the ids that the other commands are given |
| `SyncTodos`, `ToggleTodo`, `UpdateTodos`, `ArchiveTodos` | the commands of `buildTodos.go`, each a sequence of stages |
| `ReadSelections`, `ReadNote`, `SyncNote`, `WriteDashboard` | `syncDashboardFromTaskIndexNotes` |
| `FindTargets`, `TodoNotFound`, `ReadTarget`, `UpdateTaskIndexTodos` | `UpdateTaskIndexTodos`, with `updateTaskMetadataInLines` for each target |
| `ToggleTaskIndexTodo`, `NoCheckbox`, `AlreadyToggled` | `ToggleTaskIndexTodo` and its error |
| `CollectNote`, `WriteArchive`, `PruneNote`, `NothingToArchive` | `archiveTasksToLifeLog` |
| `Stops` | the command is stopped, or a step returns its error |

A note's front matter says whether it takes part (`TakesPart`), under which id and in which
area; two notes with one id, which would share selections, are not in the instance. A sync
writes a note only if a box changes, an update only if a line does (`WritesBack`). An update of
several todos of a note starts with the lowest, so that no line moves before its turn
(`UpdateLines`). The listing of all todos is a set where only ids are looked up in it (`Listed`),
and a sequence where the dashboard is made of it (`AllTodos`). The walk comes to a note once
(`DirAssumption`); what a note may contain is any sequence of lines (`ContentsAssumption`). An entry
of the life log is its note and text: equal entries of one day are one in the code as well.

### TodoScreen

`screen` is the `model` of the terminal program: tab, cursor, the todos as they were when it
was opened, marks, the edit buffer. One action for each key; `QuitScreen` is `RunTodoTUI` after
the last key: `SaveToFile`, and the archive of what was marked, which `TodoFiles` carries out.
The dashboard is read once when the screen opens (`OpenScreen`), metadata is written to the
notes at once (`SaveMetadata`, looked up by text and occurrence), new tasks to the inbox.

### TodoWeights and TodoUpdates

A todo is a sequence of tokens, its own and those of the line below; a token is a key, a
spelling and a value. `BuildTodoMetadata` is what the listing shows, `EffectivePriority` and
`EffectiveEnergy` what the screen shows, `DeriveWeight` the weight, each with the order in
which its reader tries the spellings. `BuildUpdatedLine` is what an update writes. Weights
are integers with eight decimals, and days are counted as the code does, by hours divided by
24 (`Days`): `Midnight` says when each day begins, in minutes from the beginning of today. What
is asked for is a value of its key, or none (`UpdatesAssumption`): the code writes a date, a
weight or an estimate that is none as it stands, and no reader finds it again.

### NoteLines, DomainSchema and NoteFormat

A note is its front matter and its lines; a comment in the front matter, which the formatter
takes for a heading, is the key "comment". `FormatNote` and `PlanUpdate` are what becomes of a
note and of a hub; `ExtractID` is the id the registry gives a note; `ValidateNote` is the set
of errors against a schema. `tree` are the files, `known` the paths in the database, `onDisk`
is `.mw/registry.json`, `registered` and `conflicts` are the tables of the registry. `cmd.walk`
are the places in `WalkOrder`, the order of `WalkDir`, that a format has yet to come to; the
files of a folder are listed once the walk has entered it (`NextFile`), and the names that its hub
links before the hubs of its folders are created (`EnsureHubFile`, `cmd.names`). `cmd.aim` is
history: what the run is to leave (`Outcome`).

Three names of a path are kept apart: `OwnName`, which the registry falls back on, `Title`, and
`GivenName`, the id that the formatter writes, as it is read back. For `Tips.MD` they are "Tips",
"Tips" and "Tips.MD"; a quote in a name is written with a backslash that stays when it is read.

| Action | Code |
|---|---|
| `Save` | the editor |
| `Ingest`, `Format`, `Register` | the commands |
| `CheckDuplicates` | the scan that refuses to format while ids are in conflict |
| `EnsureHubFile`, `EnsureChildHub`, `ReadHub`, `WriteHub` | `applyHubUpdate`, `buildSnapshot` |
| `ReadNote`, `EnsureMetaIDFile`, `WriteHeadings` | `formatRegularNote`, in its two writes |
| `WriteToDisk`, `ScanNotes`, `ReplaceRegistry` | `RegisterNotes` |
| `Stop` | the command is stopped, or a step returns its error |

Warnings, the cache of issues and the choices of the fix screen are left out, and `Ingest` is
one step here; `NotesWatch` has it in detail. So are names that are no link or no id when they are
read back (with brackets, or with both a quote and a blank), hubs spelled `Hub.md`, a folder `.git`
in a notes folder, and comments in the front matter that spell the name of a section.

### NotesWatch

`disk` is the notes directory, `rows` the table of notes, `queued` what was queued for sync
since the version of a note last moved, `None` for its deletion. `ingest.had`, the notes that had
a row when an ingestion began, is history. `events` are the file events not yet handled, `armed`
the paths whose timer runs, `read` what a timer's callback has read and not yet stored.

| Action | Code |
|---|---|
| `Write`, `RemoveNote`, `Rename`, `SaveByRename` | the user, and the events they cause |
| `Pull` | a session of sync stores what another device did |
| `WatchStart`, `WatchStop` | `Run`; stopping forgets events and timers |
| `HandleGone` | `handleRemove`, `handleRename`: the note goes at once |
| `Debounce` | `debouncer.Do`: the timer of the path is armed, or armed anew |
| `Fire`, `Ingested` | `ingestOneFile` in the timer: the file is read; the note is stored |
| `IngestStart`, `IngestRead`, `IngestUpsert` | the walk of `ingestion.Run` |
| `GetAllNotePaths`, `Prune`, `IngestDone`, `IngestStop` | what the walk did not see is deleted |

A timer fires at any time after its event, and a stored note of one timer is in the database
before the next timer of that path fires: storing takes less than 250 ms. So is a note that an
ingestion has read. Folders that are hidden, or made after the start, are not watched
(`Watched`).

### Slips

Modules hold, under the comment `slips`, variants of a definition with a mistake that a
programmer could make: an idempotency index filled only for applied operations, a version
taken from `base_version`, `latest_cursor` returned as `next_cursor`, a cursor saved before
the page, acknowledgements on failure, a `FOR UPDATE` left out, a note pruned before it is
logged, an update in order of lines, a timer that is not armed anew, a prune that queues nothing. Nothing uses them. `PROJECT.json` names, for every property of every passing
run, a slip that breaks it in that run: this is the evidence that the property and the
bounds are strong enough to notice.

## 3. What is checked

| Run | Instance | Properties | States |
|---|---|---|---|
| `HiveStore` | 2 devices, 2 keys, 2 entities, 2 handlers, page sizes 1 and 2, log of 6; ties, unreadable times, an invalid and a repeated operation | `TypeOK`, `OnceInLog`, `EntityFollowsLog`, `AcceptedIsLogged`, `HeadIsNewest`, `LostEditsReported`, `NoOperationSkipped`, `ImplementsSyncLog` | 476 000 |
| `HiveSyncReliable` | 2 devices, 3 edits, 2 seconds, nothing lost | `LostEditsKnown`, `NewerEditWins` | 4.6 million |
| `HiveSyncLossy` | 2 devices, 2 edits, pushes and answers lost and retried finitely often, fairness | `AckedIsLogged`, `Converged`, `EditsArePushed`, `OperationsArrive` | 152 000 |
| `HiveSyncCrash` | 2 devices, 2 edits, crashes anywhere | `NothingSkipped` | 2.6 million |
| `PgStoreConcurrent` | 2 connections, 3 pushes, both entities present, crossing lock orders, fairness | `OnceInLog`, `AcceptedIsLogged`, `SameBaseConflicts`, `PushesEnd` | 517 000 |
| `WatchDaemon` | 2 notes with one id, 2 seconds, 2 watchers one after the other (the second with `--format`), commands one after the other, fairness | `ProjectionFresh`, `RegistryFresh`, `ProjectionQueued`, `StopReaches`, `AtMostOneWatcher`, `WatcherCatchesUp` | 806 000 |
| `TodoFiles` | 3 notes with twins, nested tasks, one that an update takes for metadata, and two areas, 1 save, 2 commands, 2 todos in an update, stops anywhere | `NoTaskLost`, `IdsNameTheSame`, `SyncRestartable`, `UpdateIsLocal` | 609 000 |
| `TodoScreen` | the same notes, 2 commands, 6 keys | `MarkedIsArchived` | 197 000 |
| `TodoUpdates` | 3 texts, 5 lines with every spelling, 3 defaults, 9 updates with 4 sets of keys to clear, as often as one likes; days of 23 and 25 hours | `ReadersAgree`, `UrgencyMonotone`, `UpdateKeepsTheRest` | 3 339 |
| `NoteFormat` | a root, three folders and a hidden one; 8 trees of 2 or 3 notes and up to 2 hubs, with a file `*.MD`, a folder titled like a section, a folder and a note of one name, fences and ruled sections; 2 commands, 1 save, stops anywhere; a schema with every kind of rule | `RegisteredOrReported`, `FormatRestartable`, `IdsStable`, `LinesKept`, `SchemaKept` | 346 000 |
| `NotesWatch` | 2 notes, one in a folder that is not watched, 2 contents, 3 changes, 1 pull, 3 starts of watcher and ingestion | `Settled`, `IngestMirrors` | 3.5 million |

The bounds: two devices and two edits are enough for a conflict and its loser; a third edit
adds one made after the conflict, on a version that has moved. Page size 1 makes every pull of two operations a loop with a cursor saved in between.
Two handlers are the original and its retry. `MaxLog`, `MaxHandlers`, `MaxClock`,
`MaxVersion` and `MaxPushes` stop counters that the program lets grow; `MaxVersion` only
binds where crashes apply pages again. Each is a guard of the action it bounds. Two notes are
enough for one id twice, and two seconds for a file that is saved before a refresh and saved
or removed during it. Deadlock is not checked for the stores, which stop when the bounded requests are used up, and is checked
for the runs of `HiveSync`, where a device can always start a sync. `WatchDaemon` too can stop,
once its pids are used up.

For the todo commands two commands are one that is stopped and the next, or a listing and what
is done with its ids; two equal tasks and a nested one are where readers that count lines,
occurrences and blocks can disagree, and a bulk update of two todos is where one moves the
lines of the other. Six keys let the user mark, move and mark again, or edit and mark.
`TodoUpdates` has no bound: its lines are finitely many. For the formatter a hub has a parent,
a child and a note beside it, some of them still to be created; one save, of one of three paths
(`Edited`), comes between any two steps. The first trees have no exception of the properties in
them and the last are made of exceptions: leaving out one of `Settles`, `KeepsID` or `RuledOnTop`
makes its property fail, but for two that the instance has no example of, a folder that gets
another id than its name and a title that is ruled. For the watcher two starts of it and one of ingestion, or the reverse, let each come
first, and three changes let a note be written, removed and written again. These commands end
or are stopped, so deadlock is not checked, and nothing is fair: their properties are about
what a step may do and what holds when a command has ended.

Some properties make an exception, always named in the property. `SyncRestartable` and
`MarkedIsArchived` ask that tasks of one text share an area (`TwinsShareArea`), `MarkedIsArchived`
that none is nested (`NothingNested`), the step properties of the formatter that a note was not
saved after it was read (`overtaken`), `SchemaKept` that no ruled section is on level 1 afterwards
(`RuledOnTop`), `FormatRestartable` what its comment lists (`Settles`, `Duplicated`), `IdsStable` a
note without an id whose name is read back as another (`KeepsID`), `ProjectionQueued` a path whose
latest change was not queued (`BeingDeleted`, `untold`), `Settled` that a note was not changed behind the watcher's back (`missed`), and
several that no file was saved since the command began (`disturbed`). Without it the property fails, and section 4
says what then happens.

Fairness. `HiveSyncLossy` assumes that the server goes on with the requests it has, that a
sync that is due is run and takes its steps (the loop of `RunSyncWorker`), and that pushes
fail only finitely often: a network that fails for ever delivers nothing, and the code
claims nothing else. Only the steps of the program are fair; edits, the clock and failures
are not. `PgStoreConcurrent` assumes that a statement runs once nobody blocks it, and that
Postgres ends deadlocks, which is what its detector does after `deadlock_timeout`.
`WatchDaemon` assumes that a watcher that runs is scheduled; users and commands are not fair.

`WatchDaemon` is checked under three assumptions about the user, each a guard with a name:
a file is not changed twice within a second (`Save`, `Remove`), for the snapshot keeps whole
seconds; a file does not come and go between two polls (`ShortLived = FALSE`), for its note
would stay in the database; and no daemon is started beside a foreground watcher
(`Alone = TRUE`), which has no pid file. Without the second `ProjectionFresh` and
`RegistryFresh` fail, without the third `AtMostOneWatcher` fails, and so
does `ProjectionQueued`, for a second watcher stores a note again between its deletion and the row
that says so; and with two commands at
once (`Command = {c1, c2}`) `StopReaches` fails. Formatting may overwrite what the user saved
since the file was read (`WriteNote`); the projection then follows the file that is left.
Freshness is not asked of a watcher in whose time another one ended (`ended`). One that
started after that is asked for it once it has refreshed: its first snapshot takes everything for
seen, so that it catches up only with the next change.

## 4. Where the code breaks a promise

`PgStoreOutOfOrder` is a run in which TLC finds `NoOperationSkipped` violated: a smaller `seq`
commits after a larger one was pulled, and the puller's cursor has passed it
(`PROJECT.json`, findings). Five more violations are found by changing the constants of a
run and are not kept as runs:

| Property | How | What happens |
|---|---|---|
| `Converged` | `HiveSyncCrash.cfg` with `INVARIANT Converged` | a stop between applying a page and saving the cursor applies the page twice and counts the version twice; later edits carry a version the server never had |
| `LostEditsKnown` | `HiveSyncReliable.cfg` with `MayLose = TRUE` | the answer with the conflict is lost; the retry is a duplicate and has no conflicts |
| `NewerEditWins` | the same | a failed attempt moves `updated_at`, which is sent as the time of the edit |
| `ChangeIsQueued` | `HiveSyncReliable.cfg` with `Device` and `Session` set to `{1}`, `INVARIANT ChangeIsQueued` | an edit back to an earlier content is taken for a duplicate, though the row it repeats was acknowledged long ago |
| `SameBaseConflicts` | `PgStoreOutOfOrder.cfg` with `INVARIANT SameBaseConflicts` | `FOR UPDATE` locks nothing before an entity has a row; two first writes both succeed |

`NewerEditWins` speaks of edits in different seconds: two edits that a device makes of a note
within one second, before it pulls the first, are ordered by their random ids, and the first
may win. The passing runs show how far the damage goes: `Converged` holds under lost messages
(`HiveSyncLossy`), `NothingSkipped` holds under crashes (`HiveSyncCrash`), and the Postgres
store logs once and reports conflicts as long as entities exist (`PgStoreConcurrent`).

What else the models show the code to do, and what the properties therefore except or the
instances leave out:

*Todos.* Tasks of one text in two areas swap their boxes with every sync: the dashboard lists
them by area, the note by line. Archiving a task removes the open tasks nested below it, and two
equal tasks of one day are one entry of the log. A tick in the dashboard is lost when a toggle
or an update refreshes the dashboard before a sync has read it. The id of an archived task
can name another task afterwards. A toggle or an archive writes back the note as it read
it, over whatever was saved since; the screen, when it is left, ticks the dashboard by line numbers, also if
the dashboard was rewritten in the meantime. Editing the metadata in the screen drops a line that carries a
key it knows together with the area and the other keys on it. An update deletes nested tasks
that carry tokens of their own, and it has no effect on a key that the task's own text mentions.
`* [ ]` is a heading of level 1 to `parseHeading` and ends the Todo section. A long spelling in
the text of a task is shown but not weighed, and on a day of 23 hours what was due yesterday
counts as due today.

*Formatter and registry.* Hubs are created in hidden folders below a visited one. Two folders of
one name, or a folder and a note, get one id from the formatter itself, which then refuses to run
again. A note `Tips.MD`, which the registry knows as Tips, is given the id Tips.MD, and a name with
a backslash or a quote is read back as it was escaped. A folder named like a section (Research,
Resources, Todo, Topics, in any case) gets one more title from every run, since the title is moved
down as a section and then missed. A folder and a note of one name are linked twice by one run and once by
the next. Below Topics whatever is no link is dropped, one of two fences too, which the next run
reads differently. A comment in the front matter is taken for the first heading of level 1, so that
the real one moves down. The links in Topics are file names, not ids. Schemas ask for sections of
level 2 while their rules apply to sections of level 1 only, so that a note as the formatter leaves
it meets no rule, but where the ruled section is the first heading or the title, a line with a star,
or a heading in a fence, which the formatter passes over and `extractTopLevelSectionBlock` does
not: the headings that moved down become its children, and the note gains errors. `mw notes validate`
rewrites the cache of issues without those of the registry.

*Watcher and ingestion.* A new note that is saved by renaming, unchanged, is queued as written,
as removed, and then not again, since the version has not moved: other devices delete it. A
removal that is handled while a timer holds what it read is undone by the timer until the next
ingestion. Ingestion prunes a note that was made after its walk had passed, and every note
that was only pulled from another device, and queues their deletion for all devices.

## 5. What is proved

### The in-memory store

`HiveStoreProofs` proves, for any devices, keys, entities, requests, page sizes and bounds,
every property that the run `HiveStore` checks:

| Theorem | Property |
|---|---|
| `TypeCorrect` | `TypeOK` |
| `LoggedOnce` | `OnceInLog` |
| `AcceptedLogged` | `AcceptedIsLogged` |
| `EntitiesFollowLog` | `EntityFollowsLog` |
| `NewestIsHead` | `HeadIsNewest` |
| `LostAreReported` | `LostEditsReported` |
| `NothingIsSkipped` | `NoOperationSkipped` |
| `StoreImplementsSyncLog` | `ImplementsSyncLog` |

The assumptions are those of the modules: device ids are positive numbers, the values for
"no key" and "no entity" are not keys and entities, requests are lists of operations (valid
or not), page sizes are positive.

The argument. None of the properties is inductive. `OnceInLog` needs to know why a key that
is not in the index is not in the log, so `Inv` adds `Agreement`: the index and the log are
inverse to each other, and every logged operation is valid. `AcceptedIsLogged` needs
`Promises`: what the running push has accepted so far is in the index already, since the
answer comes later. Paging needs `CursorsInLog`. `Inv = TypeOK /\ Agreement /\ Promises /\
CursorsInLog` is inductive (`InvNext`, one lemma per action), which is theorem `Invariance`.
`EntityFollowsLog` and then `LoggedIsPresent` (a logged entity has a snapshot) are inductive
relative to it; with both, `HeadIsNewest` follows because losing and winning are decided
against the head, the head describes a stored operation, and `Beats` is a total preorder
(`WinnerIsNotBeaten`, `BeatsIsTotal`). `NoOperationSkipped` rests on `PageHasNoHoles`: a
page has every applied operation up to its largest cursor. For the refinement each action
is mapped to a step of `SyncLog` (`AcceptAppends`, `ReplyAcknowledges`, `PullReads`) or to a
stutter.

### The watcher and ingestion

`NotesWatchProofs` proves, for any notes, contents, folders, walk and bounds, both properties
of the run `NotesWatch`:

| Theorem | Property |
|---|---|
| `SettledHolds` | `Settled` |
| `IngestMirrorsHolds` | `IngestMirrors` |
| `NotesFresh` | the invariant `WatchInv` that `SettledHolds` rests on |

It assumes `WatchAssumption`: watched notes are notes, and the walk is a list of notes that
comes to each.

The argument. `Settled` speaks of the moments when nothing is under way; `Fresh` says of every
state what is still to come. As long as a note on disk has an event in the queue, or its timer
runs, it is yet to be read. Otherwise what a timer has read is what the file says, and so is
what an ingestion holds or the row, unless the note was missed. This needs to know that a
removal in the queue is followed by a write if the note is on disk (`EndsInWrite`): renames
and saves by renaming append both. `WatchInv`, the types, `Fresh` and that a watcher which is
off holds nothing, is inductive (`WatchInvNext`, one lemma per kind of step). For
`IngestMirrors` the invariant `MirrorInv` says what an undisturbed ingestion has done so far:
notes that the rest of the walk does not come to are stored and queued, and once it prunes,
what is neither on disk nor doomed has no row. `Dropped` says at every point that a note which had a
row at the start (`had`) and has none now has had its deletion queued.

### The Postgres store

`PgStoreProofs` proves, for any devices, keys, entities, connections, requests and bounds, the
three invariants of the run `PgStoreConcurrent`:

| Theorem | Property | Hypothesis |
|---|---|---|
| `PgInvariance`, `PgTypeCorrect` | the inductive invariant `PgInv`, the types `PgTypeOK` | |
| `PgLoggedOnce` | `OnceInLog` | |
| `PgAcceptedLogged` | `AcceptedIsLogged` | |
| `SameBaseIsConflict` | `SameBaseConflicts` | `FirstsLogged` |
| `SerialPullsSkipNothing` | `NoOperationSkipped` | `OneConnection` |

`SeedAssumption` says what the tables may hold at the start: finitely many rows, numbered from
1, one for a key and one for an entity.

The argument. `OnceInLog` is about committed rows, and says nothing of what two open
transactions have inserted. `PgInv` therefore speaks of all rows that are known to anybody,
committed or not (`KnownRows`): no two share a key or a sequence number, because an insert
waits for whoever has inserted the same key and fails once that is committed.
`AcceptedIsLogged` needs that what a transaction has accepted is among the rows it sees
(`AcceptedIsSeen`), and that rows are only ever added to the table; `Stages` ties the program
counter to the operations that are left. `NoNewRow` and `OnlyTransaction` are the frame: most
statements move one transaction and commit nothing.

`SameBaseConflicts` rests on locks. `SameBaseInv` says that they exclude each other
(`Exclusive`), that the version a transaction read under its lock is the latest (`HoldsLatest`),
and that an operation which no conflict mentions has a base below the version it led to, so
that a second one on that base finds a later version (`BasesCommitted`, `BasesInserted`). `FOR UPDATE` locks nothing for an entity that has no row yet, so that the
theorem supposes that each entity has its first operation; without it the property fails
(section 4). `NoOperationSkipped` fails with two connections, because sequence numbers commit
out of order. `SerialPullsSkipNothing` says that this is the only reason: over one connection,
with aborts and sequence numbers that are never used, an uncommitted row is after every
committed one and after every cursor (`SerialInv`).

### The sync client

`HiveSyncProofs` extends `HiveStoreProofs`: the server in `HiveSync` is that of `HiveStore`, so
that its invariant `Inv` is part of every invariant here. It proves, for any devices, sessions,
notes, batches, page sizes and bounds, the invariants that the three runs of `HiveSync` check:

| Theorem | Property | Hypotheses |
|---|---|---|
| `CursorInvariance`, `SyncTypeCorrect` | the inductive invariant `CursorInv`, the types `SyncTypeOK` | |
| `SyncSkipsNothing` | `NothingSkipped` | |
| `SyncAckedLogged` | `AckedIsLogged` | |
| `SyncLostEditsKnown` | `LostEditsKnown` | `~MayLose`, `~MayCrash` |
| `SyncNewerEditWins` | `NewerEditWins` | `~MayLose` |
| `SyncConverged` | `Converged` | `~MayCrash`, `OneSessionEach` |

The first two say more than the runs, which have one session for each device: they hold for
any number of sessions on one database, with losses and crashes together. The hypotheses of
the others are needed, as section 4 shows: a lost answer loses the conflict it carried, a
failed push gives the edit a later date, and a stop before the cursor is saved applies a page
twice and counts its versions twice. Two sessions of one device do the same, hence
`OneSessionEach`.

The argument. *Cursors*: `CursorInv` adds to `NothingSkipped` what a session holds in its
variables; its page has every applied operation between the cursor it asked with and the one
it will save, which is `PageHasNoHoles` of the server. *Acknowledgements*: `TalkInv` describes
one push from both of its ends. A session that waits has at most one request at the server
(`Requested`); what it sent is what the server has accepted of it or has left (`WorkedOn`); once
the answer is there, every row of the batch is acknowledged (`Answered`). A request whose client
has given up has no connection, and so cannot answer a later push. *Origin*: `OriginInv` says
that each operation in the log or on its way is the edit of one row of its device, and that ids
are not shared. *Lost edits*: by `LostInv` the event of an operation that lost is written down,
on its way, or in the answer being made. *Dates*: `DateInv` says that all of them, in the outbox,
in requests and in snapshots, are the dates of the edits. *Convergence*: `ConvergeInv` has the
most parts. Every device has applied each operation once, in the order of the log (`InOrder`),
so that its version of an entity is the number of operations it has applied (`Counted`); no edit
is based on a version that the server has not reached (`Bases`); and a note shows the last
operation applied to it unless it was edited since (`EditedSince \/ Shown`). When all is settled,
the version is the server's, an edit since would be an operation in the log with that version
as its base, and `Bases` excludes it.

### The watch daemon

`WatchDaemonProofs` proves, for any pids, files, texts, ids, commands and bounds, every
invariant of the run `WatchDaemon`:

| Theorem | Property | Hypotheses |
|---|---|---|
| `WatchInvariance`, `WatchTypeCorrect` | the inductive invariant `WatchInv`, the types `WatchTypeOK` | |
| `QueueInvariance` | `ProjectionQueued` | `OneCommand`, `Alone` |
| `DaemonIsReached` | `StopReaches` | `OneCommand` |
| `OneWatcher` | `AtMostOneWatcher` | `OneCommand`, `Alone` |
| `ProjectionIsFresh` | `ProjectionFresh` | `~ShortLived`; `Formatting = {}` or both of the above |
| `RegistryIsFresh` | `RegistryFresh` | `~ShortLived`, `OneCommand`, `Alone` |

`OneCommand` (`Command` has one element) means that commands do not overlap. `ProjectionIsFresh`
goes beyond the run: it holds for any number of watchers and overlapping commands if none of
them formats. With several, a formatter may write a file in the second in which another watcher
has looked at it, which the dates do not show. For the registry there must be one watcher:
another one can prune a row that this one looks up, or store it again under a new id, between
the lookup and the replacement, and the note is then missing or reported for no reason.

The argument. `WatchInv` says what a process that does not run holds (nothing, `Resting`), that a
refresh in the middle of a file has it in its list (`HasNext`), and which rows there are (`Rowed`). For
`ProjectionQueued`, `QueueInv` adds that a note whose deletion is about to be queued is gone from the
table (`Gone`): only with one watcher does nobody store it again in between. For the pid file,
`CommandInv` says what a command may rely on between its steps: before it has killed, a daemon
that runs is the one in the file; after it, and before it spawns, there is none. `SingleInv` adds
that while a command is under way nothing runs in the foreground. Freshness is about a
refresh that reads files while they change. `Done(w, p)` says that watcher `w` has passed `p` in
the refresh it is in, and that `p` is still as its snapshot has it. `FreshInv` says that the row
of a path with which every watcher is done is what is on disk, and that what a refresh has
listed is right for the paths that are as in its snapshot. A change of the user ends being
done for every watcher, since no two changes share a second (`ChangeIsVisible`); the steps of
other watchers write only what they have just read. `RegistryInv` continues this for one watcher
through the scan, the lookup and the replacement.

### The formatter and the registry

`NoteFormatProofs` proves, for any folders, notes, ids, schema, saves and bounds:

| Theorem | Property |
|---|---|
| `HandInvariance` | the inductive invariant `HandInv` |
| `IdsAreStable` | `IdsStable` |
| `NoneIsSilent` | `RegisteredOrReported` |

It assumes `TreeAssumption`, that the walk comes to each path once and to a folder before what is
in it (`WalkAssumption`), and that notes are a front matter and lines (`NotesAssumption`).

The argument. Both properties are about ids, which stand in the front matter, so that nothing
need be known of the lines. `EnsuredID` and `PlannedID` say that what is written over a note
has the id of what was *read* or, if that had none, the name it was given; `HandInv` makes it the id of what is *there*: the formatter at a
hub is at a hub, and at a note is at another one, which matters because they are given
different names; the file is still there; and what is in hand is what it says, unless it was
saved since. The note that a walk comes to is there because its folder was entered
(`NextFileEffect`, from `WalkAssumption`). `RegisterInv` says of an undisturbed registration
that what was scanned is what there is, and that every note with an id of its own is in one of
the two tables afterwards; notes without one, or with that of another note, are found by the
scan of `mw notes fix` itself.

### The todo's metadata

`TodoUpdatesProofs` proves, for any text, line, defaults and updates, every property that the
run `TodoUpdates` checks:

| Theorem | Property |
|---|---|
| `TokensInvariance` | the inductive invariant `TokensInv` |
| `RestIsKept` | `UpdateKeepsTheRest` |
| `AllReadersAgree` | `ReadersAgree` |
| `SoonerIsNotLighter` | `UrgencyMonotone` |

It assumes that days follow each other (`MidnightAssumption`, so that days of any positive
length are covered), that "none" and "no energy" are not values (`NoneAssumption`), and that
texts are made of tokens (`UpdatesAssumption`).

The argument. All readers are made of `First`, and `FirstOfTwo` says what it finds in two texts
put together: what the first says, or else what the second says. With `SpelledReads`, for one
token, this gives `LineReads`: a line that was put together of tokens is read back as it was
meant, for every key and every set of spellings. `RestIsKept` follows because an update writes
what was read (`Updated`). `ReadersAgree` supposes that every token is spelled short: the three
readers rank "p1" and "priority: 5" in one text differently. For `UrgencyMonotone`, rounding
towards zero is monotone (`DaysMonotone`), and the multipliers are natural numbers.

### The todo files

`TodoFilesProofs` proves, for any notes, contents, front matters, texts, areas, edits and bounds,
both invariants and one of the action properties that the run `TodoFiles` checks:

| Theorem | Property |
|---|---|
| `InductiveInvariant` | the inductive invariant `IInv` |
| `TasksAreKept` | `NoTaskLost` |
| `IdsStayTrue` | `IdsNameTheSame` |
| `UpdatesAreLocal` | `UpdateIsLocal` |

It assumes that the walk comes to each note once (`DirAssumption`) and that notes are
sequences of lines (`ContentsAssumption`).

The argument. Which lines are tasks, and which of them are nested, is read from the whole note:
a heading, or a line that is indented less, changes it for the lines below. What the commands do to a
note is therefore stated without that reading. `Embeds(a, b, E, from)` says that the lines `E` of
the new note `b` are lines of the old one `a`, in order, with their kind, depth and text; that no
heading is gone; and that what is new is metadata. `GoesInBlocks` says that a line that is gone is blank or stands in a
block where no line that stays begins one. Ticking a box, rewriting metadata and removing blocks
all do this (`OnlyBoxesKeep`, `RewriteEmbeds`, `RemoveEmbeds`), and from it follows, once for all, that
what stays in the Todo section (`EmbedInTodo`), that tasks stay tasks (`EmbedTasks`), that top-level
tasks stay top-level (`EmbedTops`), and that the tasks, if they are as many as before, have the
texts in the order they had (`EmbedSays`). An update of many todos is such a step for each of them
(`UpdateLinesKeeps`): below the line that is next, nothing is left to do, and above it nothing has
moved.

Neither invariant is inductive. A command writes back what it read some steps before, so that `IInv`
says of the note in the buffer that it is the note on disk, unless the user saved a file
meanwhile (`BufferIsNote`). An archive decides what to remove long before it removes it:
`EditsKeepOthers` says that an edit that waits takes only tasks out of its note that the life log
has, or that are in the bucket and so will be in the log before any edit is carried out; and that
no other edit, and nothing left to walk, is of the same note. `SeenStays` says that a listed
todo is the task at its place, in the note and in the buffer as well, since the buffer will be
the note. `CommandShape` is the frame: notes left to walk are distinct, and what a stage
does not use is empty. The user may save a file at any time; a command that then writes an old
note over it takes the user's tasks with it, and `kept` is from then on what it wrote
(`KeptAfter`). That is what the code does, and what the properties do not promise against.

`UpdateIsLocal` asks for more than the texts: that boxes, areas and tags of all todos outside the
updated blocks stay, though their lines move. `BlockEdited(a, b, i)` says that two notes differ
only in the block of the task at line `i`, and in what that line says. Nothing outside such a block
can tell: the same lines are tasks (`EditedInTodo`), and top-level tasks (`EditedTops`, counted in
`EditedPlaces`), and their blocks have moved as a whole (`EditedBlocks`), so that their children,
and what is read from these, are the same (`EditedFacts`). Setting a title and rewriting metadata
are such edits (`TitleEditsBlock`, `RewriteEditsBlock`). `SaysTheSame` is what composes when todos of
one note are updated from the last line to the first (`UpdateLinesAreLocal`): each update leaves the lines
above its own alone, so that the next todo is still where it was listed, in the block it was in.
The theorem needs one more invariant, `TargetsStay`: until its note is written, a target is a task at the
line it was listed for, unless the user saved a file. It holds because a note is left to walk only
once.

### What is only model-checked

*Liveness* (`EditsArePushed`, `OperationsArrive`, `PushesEnd`, `WatcherCatchesUp`) needs fairness
and is out of the prover's reach.

*What recursion returns.* The functions of `NoteLines` and `DomainSchema`, and the dashboard and its
selections in `TodoLines`, read their input line by line, by folds, `SelectSeq` or `FlattenSeq`,
and what these return for every input needs induction over it. `SyncRestartable` and
`MarkedIsArchived` are about the dashboard, and `FormatRestartable`, `LinesKept` and `SchemaKept`
about the lines of a note as the formatter leaves it: they stay with TLC and its instances.

Every other property that a run checks is proved, all of the invariants among them.
`SyncTypeOK`, `PgTypeOK` and `WatchTypeOK` are the types those proofs start from, and no run
checks them.

## 6. Not modelled, and the plan

Left out for good: HTTP details, authentication, CORS, the schema of the database, conflict artifacts,
flags and output, configuration, and the read-only views (graph, queries, recipes, cheats).

Partly modelled (`PROJECT.json`, components): device registration in Postgres, which nothing
reads; diagnostics of the outbox; hub notes of the Rust formatter; the choices of the fix
screen; the headings, links and todos that the database keeps with a note.

Open, in this order:

1. two sync sessions on one database, for which `HiveSync` has the constants `Session` and
   `DeviceOf`, a restart of the in-memory server, and a pulled operation that cannot be applied;
2. the back-off of `RunSyncWithRetry`;
3. the todo commands and the hub notes of the Rust implementation;
4. the fix screen, and the parser's links against a reference definition.
