# Cliply: a verification development

Cliply is a local-first clipboard manager for Windows (a Tauri program: Rust in
`src-tauri`, a React front end in `src`, a separate installer in
`apps/cliply-installer`). It keeps a history of what was copied in SQLite and
can synchronise that history between devices through a folder, WebDAV or FTP.
This directory holds TLA+ models of the parts whose correctness depends on the
order of steps, TLC configurations that check them on small instances, and
TLAPS proofs of what matters most.

## Inventory

| component | state it keeps | operations | what is hard | what makes it correct |
| --- | --- | --- | --- | --- |
| clipboard history (`clipboard_service.rs`) | rows of `clipboard_items`, formats, FTS index | ingest, recapture of a duplicate, pin, delete, clear, retention | writes are not in one transaction with their event; several threads, no lock but SQLite's | one row per content when duplicates are ignored; pinned rows survive retention; the index agrees with the rows |
| paste (`paste_service.rs`) | `used_count`, `updated_at` | paste, paste plain | changes a row after it was read, with a stamp of whole seconds | a paste disturbs neither the queue nor the listener |
| sync events (`sync_service.rs`) | rows of `sync_events`, the device id | one event per change, backfill | inserted after the row, with the row's stamp | every change has its event |
| sync queue (`sync_queue_service.rs`) | `sync_status`, `synced_at`, `abandoned_at`, the full-export flag and the last abandonment | status, abandon, mark exported | the marks compare stamps long after the read; abandonment in between | nothing leaves the queue that the remote does not hold; what was abandoned is owed in a full export |
| sync package (`sync_package_service.rs`) | none | export, import | read in one transaction at a stamp taken before it; limits; window | the package covers the queue; an import is all or nothing |
| remote sync (`remote_sync_service.rs`) | `sync_state`, the snapshots on the remote | auto cycle, manual sync / export / import, prune | no lock between the auto thread and the commands; each remote call may fail | progress is recorded only after it happened; the newest snapshot survives pruning |
| sync merge (`sync_merge_service.rs`) | the rows an import changes | merge by sync id, by hash, insert | conflicting edits of several devices, tombstones, pinned items | devices converge; a pinned item is not deleted by another device |
| sync blobs (`sync_blob_service.rs`) | rows of `sync_blobs` | upload, download, tombstone | rows change between listing and marking | a synced live blob is on the remote |
| sync cleanup (`sync_cleanup_service.rs`) | all of the above | purge expired tombstones | must not purge what is unsynced | as in the sync queue |
| scheduler (`sync_scheduler_service.rs`) | a running flag and a condition variable | wait, back off, stop and join | stop against a wait, a cycle in flight | stop always ends the thread |
| clipboard listener (`platform/windows/clipboard_listener.rs`) | suppression window, message thread | start, stop, suppress, notify, retry | the program's own writes come back as notifications | own writes are not ingested, the user's are |
| blob files (`blob_service.rs`, `blob_cleanup_service.rs`) | image files | write, sweep | a sweep against an ingest that has files but no rows yet | no referenced file is removed |
| storage providers (`sync_storage_provider.rs`) | remote files | read, write, list, delete, exists | no write is atomic on any provider; FTP turns errors into empty lists | nothing that is recorded as done depends on a call that failed |
| settings (`settings_service.rs`, `shortcuts.rs`, `tray.rs`, `startup.rs`) | the table, a cache, the Run key, the registered shortcut, the tray | update, pause, check a shortcut, reconcile at the start | two callers without a lock; each statement commits by itself; registrations may be refused | the copies agree with the table |
| database (`database_service.rs`, `initialize_device`) | columns, the identity of the device, sample rows, default palette | bring up to date at each start | some thirty statements without a transaction | a start that is cut off is completed by the next |
| secrets, encryption | credential store | get, set | - | - |
| front-end stores (`src/stores`) | items, selection, detail, settings | load, optimistic updates, event listeners | responses that arrive late or out of order | the store shows what the back end holds |
| shell, installer (`apps/cliply-installer`), updater | the program, the uninstaller, registry entries, a downloaded file | download, launch, install, update, uninstall | any step may be the last; the program runs meanwhile | nothing dangles; only what was verified is launched |

Components call each other synchronously inside the Rust process; the threads
are the Tauri command threads, the clipboard message thread, the auto-sync
thread and a blob-cleanup thread. They share only the database (every handler
opens its own connection) and, with other devices, the remote storage. The back
end tells the front end of changes through events.

## Modules

| module | what it is |
| --- | --- |
| `ChangeLedger` | abstract: a change is acknowledged only once the remote holds it |
| `SyncQueue` | the sync queue of one device, its writers and its exporters |
| `MCSyncQueue` | the constants with which TLC checks it |
| `SyncQueueProofs` | type correctness, the safety theorems, and that SyncQueue implements ChangeLedger |
| `MergeRules` | `sync_merge_service` as operators on one device's rows, and the two formats of stamps it compares |
| `Replication` | several devices that edit, import, export and prune; EXTENDS `MergeRules` |
| `MCReplication` | its constants and symmetries for TLC |
| `ReplicationProofs` | types, pins, no rollback, deletions, pruning, convergence |
| `AutoSyncScheduler` | the auto-sync thread, its back-off, stop and join |
| `AutoSyncSchedulerProofs` | stop and back-off |
| `ClipboardListener` | message window, worker, silence around own writes, start and stop |
| `ClipboardListenerProofs` | types; own writes are hidden, copies are not missed |
| `History` | rows, payload and search index of one device, and all that writes them |
| `MCHistory` | its constants and symmetry for TLC |
| `HistoryProofs` | types, payloads, index, duplicates, retention |
| `BlobFiles` | image files, the rows that point at them, sweep, downloads and uploads |
| `MCBlobFiles` | which blob belongs to which item, for TLC |
| `BlobFilesProofs` | types, which files are kept, removed and fetched |
| `Exchange` | sync cycles of several devices, storage call by storage call |
| `ExchangeProofs` | what was synced is shared |
| `Settings` | the settings table and its four copies |
| `Desktop` | Settings with the updater and the setup program; EXTENDS `Settings` |
| `DesktopProofs` | the copies of the settings, installation, update and start; `StartUp` implements `Desktop` |
| `StartUp` | the start that brings the database up to date; EXTENDS `Desktop` |

The modules meet at their interfaces. `Replication` takes from `SyncQueue` what an
export reads and marks, in the case of one exporter and stamps in the order of
the commits; `SyncQueue` looks at one device and treats the remote as a set of
written packages. `AutoSyncScheduler` decides when the automatic cycle of
`Replication` starts and treats a cycle as one attempt that succeeds or fails.
`Exchange` opens that cycle up into its storage calls, with writes that are cut short, and
reduces what is exchanged to counts of changes, because what a merge does with them is in `Replication`.
`History` and `BlobFiles` look at the same handlers as `SyncQueue`, `History` at the rows, their payload and
their index, `BlobFiles` at the files and the blobs: neither has stamps of the queue, and imports are reduced in
both to what they may do to a row. `Desktop` composes the running program of `Settings` with the setup program that
replaces and removes it: they share the Run key and the process. `StartUp` opens up the first step of that program, which
`Settings` takes as done; each of its steps is one of `Desktop` or leaves the variables of `Desktop` unchanged.

### SyncQueue

State and code:

| variable | code |
| --- | --- |
| `item` | rows of `clipboard_items`: `sync_status`, `revision`, `updated_at`, `deleted_at`. `absent` is not captured yet, `purged` is removed by the cleanup |
| `event` | rows of `sync_events`, one per revision: `created_at`, `abandoned_at`, `synced_at` |
| `blob` | rows of `sync_blobs`: `sync_status`, `uploaded_at` with `remote_path`, `deleted_at` |
| `owed` | the statements a handler has yet to execute after it committed its row |
| `fullExport`, `lastAbandoned`, `autoSync` | keys of `sync_state` |
| `exporter` | program counter and locals of each running `export_remote_snapshot` |
| `carried`, `shipped` | what the snapshots written so far hold |
| `now` | the clock; it advances whenever a stamp is sampled |
| `late`, `stale` | history variables for the properties |

Every handler is one action per transaction it commits: `toggle_pin_clipboard_item`
and the two ingest functions commit their row, then their event, then (images)
their blobs, so they are `TogglePin`/`Ingest` followed by `LogEvent` and
`AddBlobs`; delete, clear and retention are one transaction each and therefore
one `Delete(S)`; the throttled retention that an ingest may end with is such a
`Delete`. An export is `BeginExport`, `UploadBlob` for each listed blob,
`SampleExport` (`exported_at`), `ReadPackage` (one transaction), `WriteSnapshot`
and `MarkExported` (one transaction); `FailExport` may end it at any point, and
`Crash` loses everything that is not in the database.

A stamp may be committed up to `Lag` ticks after it was sampled: the handler
connects, prepares and waits for the write lock (busy timeout) in between.
`julianday()` compares with the precision of a millisecond, so changes less than
a millisecond apart are equal to the marks; `Lag` covers this too. A paste
truncates its stamp by up to `Rounding`. The item set of `late` remembers for
which items this has happened since their last change with a fresh stamp.

Not in the model: imports (see `Replication`), the display
counts of the last abandonment, `LIMIT 200` of the uploadable blobs and the limit of
blobs in a package, the upload of the manifest and the device marker (they are
in `WriteSnapshot`/`FailExport`), the file export `export_sync_package`, which
marks nothing.

### Bounds

`MaxTime` and `MaxRev` are guards of the actions, not constraints. With
`MaxTime = 5` a behaviour has four stamped steps: enough for create, export,
change during the export, abandonment or a second export. `MaxRev = 2` gives
the item a creation and one change (or deletion); `Window = 1` lets a tombstone
expire; `Rounding = 2` lets a paste move a stamp back below a checkpoint. One image item with
one blob and two exporters is the smallest instance in which uploads and marks of two exports overlap.
`Crash` is always possible, so there is no deadlock to exclude.

### Runs

The run `queue` (2.6 million distinct states) checks all eight properties: `TypeOK`, `NoChangeLost`, `PackageCoversQueue`,
`AbandonedNeedsFullExport`, `SyncedBlobIsUploaded`, `DeletionEventsShipped`, `StaleExportKeepsAbandoned`,
`ImplementsLedger`, with an automatic and a manual export at once. `Lag = 0` there: what a late stamp does is the subject of
a configuration of its own, and the theorems hold for every lag.

Two more configurations are kept as counterexamples; TLC ends them with an error. With `MCSyncQueueLateStamp.cfg`
(`EveryAckedChangeIsCarried`, `Lag = 1`) a change that was stamped before an export and committed after its read is marked synced although
no snapshot holds it. With `MCSyncQueueEventLimit.cfg` events beyond the `LIMIT` of the package are
marked synced without being shipped. The first has a second cause, the whole-second stamp of a paste (`Rounding`), which
moves the `updated_at` of a pending row back below a running export's checkpoint. With
`Lag = 0` and `Rounding = 0` neither happens: the
comparison of stamps is right when stamps are in the order of the commits.
What an item loses is one sync, not its content: the
row is synced with the next change, since live rows are in every package. An
event inserted after its row (`LogEvent`) can be marked synced without being shipped for the same
reason; `DeletionEventsShipped` is therefore stated of the events that share their row's transaction, and of the
items that are not in `late`.

### Proofs

`SyncQueueProofs` proves for every number of items, blobs and exporters, every
`Lag`, `Rounding`, `Window` and `EventLimit`:

* `TypeCorrect`: `Spec => []TypeOK`;
* `NothingLost`: `Spec => []NoChangeLost`. `NoChangeLost` is not inductive: that the
  marks are right depends on what the exporter read. `IInv` adds that a checkpoint is not
  in the future (`CheckpointIsPast`), that the package covers the queue as far as the
  marks will look (`PackageCoversQueue`), and that what was written is carried
  (`WrittenIsCarried`). The stamp of a change is later than every checkpoint
  unless the item is in `late`;
* `PackagesCoverQueue`: `Spec => []PackageCoversQueue`, a part of `IInv`;
* `AbandonedIsOwed`: `Spec => []AbandonedNeedsFullExport`;
* `StaleExportsHarmless`: an export that read its package before an abandonment
  has a checkpoint that differs from the current one when it marks;
* `SyncedBlobsUploaded`: `Spec => []SyncedBlobIsUploaded`. It needs that an upload is stamped with an instant
  that is not 0, the value of a stamp that is missing (`UploadsAreStamped`);
* `DeletionEventsShip`: `Spec /\ []EventsFit => []DeletionEventsShipped`. `EventsFit` says that no export meets
  more events than the `LIMIT` of its query; what happens otherwise is the second counterexample above. `EInv` says that a package holds
  the pending event of every tombstone up to its checkpoint, and `OwedPrecedes` that an event
  a handler has yet to insert is never that of a tombstone;
* `QueueImplementsLedger`: under the mapping `latest` = revisions,
  `acked` = acknowledged and not late, `safe` = carried, every step is a step of
  the ledger or a stutter.

But for `EventsFit` all rest on `ConstantsAssumption` only. No liveness is claimed for the queue: the
code retries an export only while automatic sync is on and the provider answers.

### MergeRules and Replication

State and code:

| variable | code |
| --- | --- |
| `db[d]` | `clipboard_items` of device d, by `sync_id`: `revision`, `updated_at`, `is_pinned`, `deleted_at`, `sync_status` |
| `known[d]`, `queued[d]` | ids of `sync_events`, and those of them whose `synced_at` is NULL |
| `imported[d]` | the names in `sync_state.imported_snapshots` |
| `remote[d]` | the snapshots of d on the remote; `no` is their order by name |
| `cycle[d]` | where `sync_with_remote` is, with its locals and the open transaction |
| `now`, `horizon` | the last stamp; stamps up to `horizon` are older than the export window of 30 days |
| `buried` | history: the newest revision at which d held a tombstone |
| `forgotten` | history: items whose tombstone d purged, or whose row a merge by hash gave to another sync id |
| `pasted` | history: the newest revision at which an item was pasted |

`updated_at` is a string in one of two formats. Most stamps are RFC 3339, with a `T` between date and time; a paste writes
`datetime('now')`, with a space (`paste_service.rs:185`). `remote_wins` and `merge_duplicate_by_hash` compare the strings
(`sync_merge_service.rs:96-98`, `211`), in which a space is smaller than a `T`: a paste moves the stamp of its row below every other stamp of that day.
The marks, the export window and the order of a package read the time off the string (`julianday()`, `datetime()`), where both formats are right. A
stamp of the model is therefore its place in the order of the strings: a day has `Instants` places for pastes, then
`Instants` for the other stamps, and `Time` is the time of either. `Recapture` (the content is copied again) and `Paste` are different actions for this reason.

`Merged(table, t, v)` is `merge_item`: by sync id, else by hash, else an insert;
`Updated`, `Inserted`, `Deduplicated`, `Conflicted` are what it does in each case. It
is a set because the hash search may find two rows that are equal in its order.
A cycle lists (`Begin`), reads one snapshot (`Read`, `Missing` if it was pruned in
between), merges its items one by one inside a transaction (`Merge`, `Commit`),
records the name in a statement of its own (`Record`), exports when something is
pending or the remote was empty (`Export`, `Mark`) or ends (`Finish`), and prunes (`Prune`, which may stop
early). `Fail` may end it at every point. During `Merge` the device's database is
locked, so no local change falls into it.

Left out: blobs and their metadata, formats and tags (they follow the winning
version), the local row id, the device table, the cap of 1000 imported names, clocks that
disagree between devices. A conflict event has a fresh id at every import in the code; the
model gives one id per conflict, so that the state stays finite: what the code
does is therefore worse than `ExchangeEnds` allows for, and conflicts are excluded
there. Two sync ids with one content set each other's rows pending at every
import, so that the exchange does not end either; `ExchangeEnds` is checked for distinct contents.

| run | shows |
| --- | --- |
| `replicas` | `TypeOK`, `Converged`, `NewestCovers`, `ImportNeverRollsBack` for two devices and one item with up to three revisions and pastes between them, three snapshots, a failed cycle, and pruning to one snapshot (3.1 million states) |
| `replicas_same_content` | `NoReappearance`, `ImportKeepsPins` for two items with one content: merges by hash, with expiry, purges and manual syncs (860 thousand) |
| `replicas_settle` | `ExchangeEnds` under fairness (180 thousand) |

What the properties say, and what they leave open because the code does:

* `Converged`: devices that have published an item and imported what the others published hold the same revision of it, unless one of them has it pinned.
  They also agree whether it is deleted, but for an item that was pasted in that very revision: the paste may have lowered the stamp of one of two rows of
  the same revision, and an import of the other's older snapshot (a manual sync imports it again) then takes that row back.
* `ImportNeverRollsBack`: an import takes no row back to an older revision, nor to an earlier time of the same revision unless the row has the stamp of
  a paste. `MCReplicationPasted.cfg` is the counterexample to the statement without that exception (`PastesAreKept`).
* `NoReappearance`: a device that has seen a deletion shows the item again only in a revision that is not older, unless it has purged the tombstone or given
  its row to another sync id. `MCReplicationExpired.cfg` is the counterexample without the exception (`DeletionsAreFinal`): a deletion
  comes back from a snapshot that outlives the tombstone.

Bounds: `MaxTime` is the last stamp (`Instants` places of the first day are the pastes', so `MaxTime - Instants` local changes fit at most), `MaxRev` the revisions of an
item, `MaxSnapshots` the exports and `MaxFailures` the failed cycles of a behaviour; all are guards. With `Instants = 3` and `MaxTime = 9` two changes fall on the first day and a third on the
next, so that a paste changes the order of two stamps on one day and keeps it across two. Three
changes are a capture, a change or a paste, and a concurrent change or deletion by the other
device. Two devices that hold one revision of an item live and deleted take more changes than that, so this part of `Converged` rests on the theorem;
three snapshots let each device publish and one publish again, with
`Keep = 1` so that pruning meets a running import. `replicas_same_content` needs
two captures of the same content on two devices, a pin on one and a
deletion on the other, and the deleter's one snapshot; it is also the run in which stamps expire (`Pass`) and
manual syncs import everything again. `MCReplicationManual.cfg`, by hand, adds manual syncs to the instance of `replicas` in place of the
failed cycle, with the same four properties (8.5 million states); the theorems hold for either mode. Devices are symmetric, and so are the items of one content. The
behaviours end where the bounds are reached, so deadlock is not checked.
`replicas_settle` has room for all the snapshots two changes of one day lead to (with a smaller
`MaxSnapshots` a device could not write what it has pending); its fairness is that of `Sync(d)`: the thread repeats its
cycle and each of its calls returns. No failures there: a remote that always
fails justifies no liveness.

`ReplicationProofs` proves for every number of devices, items, snapshots and changes:

* `TypeCorrect`: `TypeOK`;
* `PinsKept`: `ImportKeepsPins`, without further assumptions. The transaction
  works on a copy; its invariant `WorkKeepsPins` says that every row pinned and live
  in the database is so in the copy; `MergedKeepsPins` is the step;
* `NoRollback`: `ImportNeverRollsBack` under `DistinctContent` (no two sync ids
  share a hash; `merge_duplicate_by_hash` takes the larger of two stamps beside the larger of two revisions, and so may pair them anew). The copy is
  not before the database but for stamps of pastes (`WorkNotBefore`);
* `DeletionsStand`: `NoReappearance` without hypotheses: also when contents are equal, when stamps expire and tombstones are purged. Its
  invariant is that a row which was not forgotten has at least the revision at which it was buried, in the database and in the open transaction, whose
  rows only move forward or are given away (`WorkForward`);
* `NewestSuffices`: `NewestCovers`, under `DistinctContent` and `Expires = FALSE` (no stamp leaves the export window: a purged tombstone is in
  no later snapshot). `IInv` = `TypeOK`, `WorkNotBefore`, `RowsBound` (the revisions in snapshots are bounded by the device's own
  rows) and `NewestCovers`; none of its parts is inductive alone;
* `Convergence`: `Converged` under the same two hypotheses, for any number of devices. `ConvInv` adds to `IInv` that a
  row stays at least as new as every snapshot whose name was recorded (`ImportsAbsorbed`), that the
  numbers of snapshots are unique and none that is still to be written counts as imported (`Numbered`), that
  two versions of an item with the same stamp agree whether it is deleted (`OneDeletion`; a conflict leaves each
  device its own row, so that without it two devices could settle on different ones), and what
  the snapshot in hand says of the open transaction (`InHand`). Where an item was pasted in the revision in question these speak of revisions only.

`DistinctContent` and `Expires = FALSE` are hypotheses of the theorems and no assumptions of the module: `replicas_same_content` checks
both the other way. `ExchangeEnds` is only model-checked.

### AutoSyncScheduler

`running` is the flag under the mutex, `notified` the condition variable,
`worker` and `main` the two threads; a critical section is one step. `Stop`
and `Notify` are two steps because `stop` clears the flag, releases the mutex and then notifies.
Time is in minutes; the initial delay of 20 seconds is one tick. `MaxClock = 40`
covers the longest wait (30) after a failure and `MaxCounted = 6` is where
`next_interval` no longer changes. `Tick` happens only while the thread waits or
talks to the remote: a wait that timed out is over before the next minute.

| run | shows |
| --- | --- |
| `scheduler` | `NoLostWakeup`, `NoNewCycle`, `StopEnds`, `BackoffWhileDue` while the user switches at any time between intervals of 2 minutes and of 5, the default (720 thousand states) |
| `backoff_default` | that `BackoffHolds`, which the comment at `MAX_BACKOFF` promises, is violated with the default interval |

`interval` is the setting, which the thread reads at each turn (`SaveInterval` changes it at any moment). `streak` counts the
attempts that failed in a row, as an outside observer would; `looked` says that a turn without an attempt fell between them.

`StopEnds` assumes that both threads are scheduled and that the calls of a sync
return (the providers have time-outs); nothing is assumed of the timer, so the stop
does not depend on a wait running out. `Disabled` stands for automatic sync
switched off, without provider or without saved password, at any time.

The loop checks every minute, `run_auto_sync_cycle` returns
`Ok(None)` when it is not due, and that resets the failure count (`sync_scheduler_service.rs:110-113`). After a failure
the thread waits 2 minutes, is not due (from an interval of 3 minutes on), resets, and tries again
when the interval is over: the failures never add up. `BackoffHolds` states the comment and fails in `backoff_default`; `BackoffWhileDue` states
what the code keeps of it for every interval: failures add up until a turn finds the sync not due. An interval of 2 minutes is the longest for
which no such turn follows a failure, 5 is one for which it always does; changes of the interval mix the two.

`AutoSyncSchedulerProofs` proves `WakeupNotLost`, `NoCycleAfterStop` and `BackoffAddsUp` for every set of
intervals and without a bound on time or any other hypothesis. `StopInv` adds to `NoLostWakeup` that the flag is set
exactly while `main` has not begun to stop. `BackoffAddsUp` is `BackoffWhileDue`; `BackoffInv`: while no turn has reset it, the thread's count of failures
is the number of failures in a row, and a wait ends no earlier than that count asks for. `StopEnds` is only model-checked.

### ClipboardListener

| variable | code |
| --- | --- |
| `clip` | the content of the clipboard: of another program, or the program's own |
| `posted` | the message queue of the window: updates with the time they were posted, and the stop message |
| `until` | `SUPPRESS_UNTIL`; `began` is when a running `write_payload` started |
| `sender`, `channel` | `CHANGE_SENDER`, number of changes in the channel |
| `window`, `worker`, `app` | the window's thread, the worker, and the thread that starts and stops |
| `reply` | what the window's thread told `start_listener` |
| `taken`, `recorded` | what the worker read, and what was ingested |
| `missed`, `overlap` | history: why the content of the clipboard goes unrecorded; an own write landed while an earlier change was handled |

The message carries no content: the worker waits 50 ms, drains the channel and
reads what is on the clipboard then. Own writes are told from others only by the
700 ms that follow the start of `write_payload`. `NoCopyMissed` says that those
and the reasons named by `missed` are all the ways to lose a copy;
`OwnWriteHidden` that an own write is recorded only if it lands while an earlier
change is being handled (`overlap`; the worker then reads the own content instead of the
user's). An ingest may record nothing (`RecordNothing`): it fails, or returns `Ok(None)` for blank text and for images that are not to be saved;
`missed` tells the two apart. The second property rests on `WriteTime + Lag <= Window`, which the model assumes: the
retries of `open_with_retry` add up to 605 ms and the rest is left for decoding an
image and for the delivery of the message. One own write runs at a time.

`StartReturns` has one exception, and it is the code's: if the window appears after
the 3 seconds `start_listener` waits for it, the join never returns.
`is_transient_clipboard_error` looks for an English text, while the reader's
error is a Chinese one (`clipboard_reader.rs:308`): the retry never happens, so
`ReadFails` ends the handling of a change.

Units are tenths of a second, scaled: `Window = 3`, `WriteTime = 2`, `Lag = 1`
is the tightest instance of the assumption; `MaxClock = 6` lets a silence run out and
another begin, `MaxChanges = 3` is a user copy, an own write and a third change
or a pause. Fairness: every thread that can run does, window creation ends.
`TogglePaused` and the copies are not fair.

`ClipboardListenerProofs` proves `TypeCorrect`, `OwnWritesHidden` and `CopiesNotMissed` for all
constants that satisfy the assumption. `HiddenInv`: a message is not older than `Lag`
and a write not older than `WriteTime` (`Punctual`), and while an own write is on the clipboard every
message still to come is dispatched within the silence (`Silent`). `StopReturns` and
`StartReturns` are only model-checked.

### History

| variable | code |
| --- | --- |
| `row` | `clipboard_items` with the format that holds the payload: `copied_at`, `is_pinned`, `deleted_at`; `origin` is history: copied while duplicates were ignored, while they were kept, or written by an import |
| `indexed` | item ids in `clipboard_items_fts` |
| `limit`, `dedup` | `max_history_items` and `ignore_duplicate` in the settings cache |
| `worker` | the clipboard worker with the locals of its ingest |
| `cleaner`, `clearing` | the settings command that enforces the retention; a clear under way |
| `outdated` | read transactions that another commit has overtaken |
| `lastRetention`, `clock` | `LAST_RETENTION_AT`; time in units of both the throttle and the age |
| `dead` | deleted rows whose `data_path` the blob cleanup has still to clear: its list, read in one query |
| `torn`, `revived`, `cleared` | history: rows whose ingest a failing statement or a crash cut off; rows that a merge of two deletions made live; rows whose path the cleanup cleared |

An ingest is `Read`, `SearchDuplicate`, then `Touch`, or `Insert`, `AddFormats`, `Index`, then
`LoadFails`, `Throttled` or `StartRetention` and `FinishRetention`: each is one autocommitted statement or one half of a
deferred transaction. `clear_clipboard_history` and the retention read before they write: SQLite refuses the write
of a transaction whose snapshot is no longer the newest (`outdated`), and the handler returns an error. `TogglePin`,
`Delete`, `SaveSettings` and the three import actions are one write transaction each. `ImportNew`, `ImportUpdate`
and `ImportDuplicate` are the branches of `merge_item` as far as they change these columns, with the pin that the package brings; which version wins is in
`MergeRules`. Every statement of an ingest after the row may fail (`StatementFails`): the `?` at `clipboard_service.rs:333-365` returns the error,
the program goes on, and the row stays live with what was written so far. `ListDeleted` and `ClearPath` are the part of `run_blob_cleanup` that
writes these tables (`blob_cleanup_service.rs:93-112`): it lists the formats of deleted rows and clears the `data_path` of one after the other, while an import may
make the row live again in between or afterwards. `Restart` ends the program anywhere and runs the retention of the next start.

The run `history` (2 rows, 1 text, 1 image, a limit of 1 row, an age and a throttle of 1 tick, 2 commands or imports; 3.8 million states) shows
`TypeOK` and

* `PayloadMissingOnlyWhenCut`: a live row without its payload is being ingested, was cut off by an error or a crash, waits for
  another device, or was made live again by an import around the cleanup that cleared its path; of those only images cannot be pasted;
* `WordsFindRow`: every live row is in the index, but for one that is being ingested, was cut off by an error or a crash, or was revived;
* `DuplicatesExplained`: the worker's search and insert are separate statements, but the worker is one thread and
  all other writers that create rows are imports;
* `RetentionIsExact`: what the retention deletes it would have selected at that instant.

Two rows are the smallest history with a duplicate and with a row beyond the limit; the limit of 1 and two commands let a
pin, a deletion or an import fall between the selection and the deletion; remote stamps lie before and after all
local ones. Ids are symmetric; the behaviours end where the bounds are reached.

`HistoryProofs` proves all five for every set of contents, every finite set of rows, every limit, age, throttle and
remote stamp. `Told` strengthens the three invariants: a row without its payload has its reason whether it is live or not (`Covered`), since
an import may make it live again, what the cleanup lists or has cleared was deleted and can only have come back that way (`Taken`), and every row that has the content the worker is about to insert came from an
import or was revived (`Searched`). For the retention, `InForce` says that the selection
of a transaction that nobody has overtaken is still a selection of the current rows (`Chosen`).

### BlobFiles

| variable | code |
| --- | --- |
| `item`, `format`, `blob` | `clipboard_items.deleted_at`; `data_path` of the image format; the row of `sync_blobs` |
| `file` | `images/{id}.png`, `sync-images/{id}-…` and `sync-images/{blob id}-original.png`; `old` is more than an hour |
| `remote` | the blob file on the remote: absent, whole, or cut short |
| `worker`, `cleaner`, `sync` | program counters and locals of the ingest, of the cleanup 90 s after the launch, and of the sync cycle; `cleaner.left`: what this sweep could not remove or not read |
| `revived` | history: items that were deleted and came back by an import |

A file call and the statement that belongs to it are two steps. An item may have several blobs (`ItemOf`): `prepare_item_sync_blobs` makes one of the
original and one of a smaller version (`blob_service.rs:92-127`), and each counts for `Limit`, the `LIMIT 200` of both lists. Statements of an ingest may fail after its file was written
(`IngestFails`). Removals may fail: `remove_file` errors are tolerated (`blob_cleanup_service.rs:212-218`) and the cleanup clears the path all the same
(`108`, `121`), the sweep goes on to the next file, and a directory that cannot be read is skipped (`173`).
`HourPasses` makes every file old; it cannot happen
inside an ingest, a sync cycle, or between the reading of the live ids and the end of the sweep, all of which take seconds:
this is the assumption on which the grace period of the code rests.

The run `blob_files` of `MCBlobFiles` (one captured and one received image with one blob each, one package, one fault: a restart, a failing ingest, a removal that fails or a
directory that cannot be read; 4.5 million states) shows `TypeOK` and

* `CapturedFileKept`: the image of a live row that was copied here is never removed;
* `OnlyDeletedBlocksExport`: a blob whose file is gone fails every export; that happens only with deleted items (until the next
  cleanup), with items that came back after their file was removed, and with swept downloads;
* `DeadFilesReclaimed`: whatever a crash, a failed ingest or an earlier failed removal left, a cleanup leaves no file that was old when it began and whose item was
  not live from then on, but for what this very sweep could not remove or not read;
* `MissingBlobsFetched`: an import fetches what is missing, as long as there are no more blobs than `Limit`. Beyond it
  `load_missing_local_blobs` limits before it filters: with 200 downloaded older blobs the new ones are never fetched.

One item of each kind suffices because no step relates two items but the limit, which is 2; one fault lets a
second cleanup meet what the first one left. `MCBlobFilesTwo.cfg`, by hand, checks the same five properties for one captured image with two blobs
(6.3 million states). `swept_download` checks `DownloadedFileKept` in the instance of `blob_files`
and finds the violation below.

`BlobFilesProofs` proves all five for every number of items and of blobs of an item, any limit and any number of packages and faults:

* `TypeCorrect`: `TypeOK`;
* `CapturedFilesKept`: the invariant `Kept` says that every path in a row, a list or the worker names the item it belongs to (`Paired`), that the
  ids of the worker are fresh and what the cleanup lists was deleted once (`Ordered`), and that the file of a live row that was never deleted is
  there and, once the cleanup has read the live ids, is either among them or new (`Present`);
* `DeadFilesGo`: `DeadFilesReclaimed`. `Dead` says that no file that was old when the cleanup began, and whose item was not
  live from then on, is spared by the list of live ids or written again, and that those of a directory are gone, or noted in `cleaner.left`, when the sweep has walked it. A
  file is written again only by an ingest, which finds none of that id (`Written`), or by a download, which takes it off the list;
* `OnlyDeletedBlock`: `OnlyDeletedBlocksExport`. `Sourced` says that every blob row belongs to an item that has a row, and `VariantKept` that
  the compressed file that a live blob names is there and not swept;
* `MissingAreFetched`: `MissingBlobsFetched`. `Fetched` follows a blob that was due: it is here, its item is gone, or it is still on the list.

`VariantKept` and `Present` use that no hour passes during an ingest or a sweep, and nothing else about time.

### Exchange

`has[d]` is the database of d reduced to how many changes of each device it has, `synced` its own marked ones,
`imported` the key `imported_snapshots`, `manifest` and `snapshots` the remote files, `cycle` where each running
`sync_with_remote` or `export_to_remote_sync_folder` is. `Layout` … `EndManifest` are `ensure_remote_layout` with a first manifest;
`List`, `Import`, `WriteNames`, `EndImport` the import; `StartSnapshot` … `Mark` the export; the second `WriteNames` and
`Prune` the end. The automatic cycle and one that the user starts may run at once on a device, and
the list of imported names is read in one step and written in another. A write begins with a torn file and ends with a
whole one; `Fail` is a failed call or the end of the process. With `HidesErrors` a failed list is an
empty one, a failed delete is none, and a file that cannot be asked for does not exist: FTP.

The run `exchange` (two devices, one of them with a user; one change, one command, one failure, at most five snapshots, one kept per device)
starts from an empty folder or from one that both have used, and shows

* `SyncedIsShared`: what a device has marked as synced is on every device that has imported all whole snapshots, until as
  many newer snapshots as a device keeps are cut short or under way;
* `OnlyTornFilesBlock`: after any other failure every device ends up with every change. A file cut short does
  stop the exchange: nothing in the cycle rewrites it (see below).

Fairness is that of `Begin(d)` and `Step(c)`: the automatic thread begins a cycle again and again, and every storage call
returns, as the time-outs of the providers see to. Nothing is assumed of users, of failures, or of which failure comes. `Begin`
does not fall into a running write: cycles are minutes apart, a write has a time-out of seconds. Five snapshots are what one change, one
command and one failed attempt need; at the bound an export is given up.

`ExchangeProofs` proves `SharedIsThere`, `Spec => []SyncedIsShared`, for every number of devices and cycles, any number of failures and whether the
storage hides errors or not. The exception was found by the attempt to prove it without one, and is a behaviour of the code (see below). `ShareInv` has these parts:

* `Sorted`: snapshots are numbered in the order in which they were begun, and a later one of a device holds no fewer changes of its own;
* `Made`: no snapshot holds changes that its device has not made;
* `Recorded`: a device has everything that is in the snapshots whose names it recorded, although two cycles write the list and the later one wins;
* `CyclesInv`: the same of the names each running cycle still has to write; the snapshot under way is in the database of its device; and whatever
  a cycle is about to prune by a list that may be old has a newer whole snapshot above it, or as many cut ones as are kept;
* `Held`: what was marked as synced is in a whole snapshot, or the exception holds.

`Held` is not inductive without the others: one cycle prunes while another marks. `OnlyTornFilesBlock` is only model-checked.

### Settings, Desktop and StartUp

| variable | code |
| --- | --- |
| `stored`, `cache` | the settings table (the monitoring, whether to launch at login, how the window starts then, a shortcut); `SETTINGS_CACHE` |
| `runKey`, `shortcut`, `tray` | the Run key of Windows, the registered global shortcut, the label of the tray |
| `checking`, `taken` | a shortcut that `check_shortcut` holds for the moment; those of other programs |
| `call` | the calls of `update_settings` under way: one of the window, one of the tray menu |
| `excused` | history: the copies that a failure or two calls at once left behind, until somebody writes them again |
| `program`, `uninstaller`, `entry`, `setup` | what is installed, and the step of the setup program |
| `file`, `download`, `launched` | the update in the temporary directory, the downloads under way, and what was started |
| `leaving` | a detached command is about to delete the uninstaller, some 2 s after the setup program ended |
| `revived`, `undeleted`, `crossed` | history, of the last removal: the program was started meanwhile; the Run key could not be deleted. Two downloads ran at once |
| `columns`, `device`, `owner` | columns added since the first schema; `device_id` in `sync_state`; the `device_id` of older rows |
| `samples`, `palette`, `marked` | statements of `insert_seed_item` done; `theme_name` with `accent_color`; the marks `theme_default_migrated_v1` to `v4` |
| `opening` | how far `database_service::initialize` has come |
| `expected`, `cut` | history: the palette the user or an undisturbed start chose; what a start was cut off in the middle of |

`update_settings` is `Compare`, `Register` (`Refused`, `Restore`), `SetStartup`, one `SetValue` per key in the
order of `save_settings` (`launch_at_startup` and `start_minimized` are two writes), `Store`, and `RefreshTray`; each may fail where the code returns an error, and the process may end
(`Exit`) between any two. `Launch` is `reconcile_startup_setting`, `Started` and `StartFails` the
registration of the shortcut. In `Desktop` the steps of install, update and uninstall are one action each, in the order
of `installer.rs`; the setup program ends the running program first, and the user may start it again meanwhile. `RemoveRunKey` may fail to delete the key; the code
ignores that error (`installer.rs:287`) and removes the program all the same, which `undeleted` remembers until the next removal. `DeleteSelf` is the
detached command that deletes the uninstaller after the setup program ended (`installer.rs:438-447`); as an assumption on time, no other setup writes a new one before it did.
In `StartUp` every statement of `initialize` that writes is a step, in the order of the code, and `CutOff` may follow each of them: the process ends or the
statement fails, and either way the next start begins anew. `RemoveDatabase` is the removal of the user's data by the uninstaller, after
which a start finds no database.

The run `desktop` of `StartUp` (two shortcuts, two requests, one check, two registrations of other programs, one failure, one exit, three setups, two downloads;
`Bounds` lets a behaviour use either those of the settings, or one request beside the setups, or the downloads and one setup; in a fourth kind
the database is missing or of an older version, with one older row, two samples and one palette that the user picks; 5.6 million states) shows

* `InStep`: while no call is under way, cache, Run key, shortcut and tray agree with the table, but for what is excused;
* `NothingDangles`: wherever a setup ends, Windows does not start a program that is gone and lists no uninstaller that is
  gone, unless the program was started during its last removal or that removal could not delete the Run key;
* `VerifiedIsLaunched`: a partial file is launched only if two downloads shared its path;
* `StartResumes`: however often and wherever starts are cut off, the one that succeeds leaves all columns, one identity of the device in
  `sync_state` and in every older row, all samples or none, and the palette the user chose or the one that succeeds an untouched default,
  except for a sample row or a palette between whose own statements, and samples between which, a start was cut off.

Two requests are two calls at once, or a failed one and its repair; three setups are install, uninstall and another. The number of cut-offs has
no bound. A database of an older version lacks all columns, the last or none; the states in between are those of a start that was cut off.

`DesktopProofs` proves all four for all constants, and without the restriction of `Bounds` to one
kind of behaviour (the proofs use nothing of `left` and `spent`). `DiskInv` says which files are there at each step of the setup
(`SetupInv`) and that a Run key without its program has one of the two reasons, `UpdateInv` that a download that is ready has the whole file unless two crossed. 
`CopiesInStep` proves `InStep` with `SettingsInv`: beside the types (`SettingsTyped`), that two calls at once excuse every copy until
somebody writes it again (`Lonely`), and for a call that is alone, how each copy relates to the cached settings and to the draft
that is about to replace them at every step of `update_settings` (`Copied`: what was saved so far, the cache, the Run key, the
shortcut, the tray). These theorems are about `DesktopSpec`;
`StartUpIsDesktop` carries them over to `StartUpSpec` (`NothingLeftDanglingByStart`, `CopiesInStepByStart`), since every
step of it is one of `Desktop` or changes nothing that `Desktop` speaks of. `StartsResume` proves `StartResumes` with `StartInv`: for each group of statements, what the earlier ones of this start and
those of the starts that were cut off have left (`ColumnsInv`, `RowsInv`, `SamplesInv`, `PaletteInv`). The last says that the migrations which are not yet
marked still turn the palette into the expected one, between the two updates of a migration too.

## Findings

Two runs expect a violation. `swept_download`: `remove_orphan_blob_dir_files` reads the item id off the name of a file, but a downloaded file
is named by its blob id; an image that came from another device therefore loses its file at the first cleanup more than an hour
after the download. The comment at `blob_cleanup_service.rs:149-151` says otherwise. `backoff_default`: with the default interval failures never add up, although
the comment at `sync_scheduler_service.rs:11-13` says that they double the wait.

Four configurations that are not run with the others, but can be run by hand, each find what a comment or document of the
repository excludes, or what a reader of the code would expect: `MCSyncQueueLateStamp.cfg`, `MCSyncQueueEventLimit.cfg` (`sync_package_service.rs:526`),
`MCReplicationExpired.cfg` (`docs/optimization-plan.md:331`, "deleted records do not reappear on other devices") and
`MCReplicationPasted.cfg` (an import takes back a row that was pasted after the version it brings).

`docs/optimization-plan.md:416` also lists a test "an old remote snapshot must not overwrite a local
tombstone". The merge compares revisions before anything else: a snapshot that was exported before a
deletion, but whose revision is higher (two toggles of the pin against one deletion),
brings the item back. `NoReappearance` states what the code does promise, in terms of revisions.

What else the models had to say of the code, as an exception of a property or in a comment:

* A torn file on the remote stays. A torn snapshot fails every import, the writer's own included, until a manual export is followed by
  pruning; a torn `manifest.json` fails every export after its snapshot was written and before it is marked, so that each retry
  leaves another snapshot; a torn blob `exists` and is never written again (`Exchange`, `BlobFiles`).
* Pruning counts files, and does not know which of them are whole (`prune_device_snapshots`, `remote_sync_service.rs:1057-1099`). When the newest three
  snapshots of a device (`REMOTE_SNAPSHOTS_KEPT_PER_DEVICE`) are torn or under way, the last whole one is pruned, and what it
  held is marked as synced but is on no other device that has not imported it yet (`Cut` in `SyncedIsShared`).
* A list that failed over FTP looks like an empty remote and leads to an export.
* A paste of an image uses the path of its format only; a received image has none and cannot be pasted (`Payload`; `docs/manual-test-checklist.md:42`).
* An item that was merged into a row with the same content does not get its blob metadata (`sync_merge_service.rs:404`), because they name the sender's id.
* An older package may set the `remote_path` of a swept download to NULL; the export then tries to upload a file that is gone and
  fails until a later package restores it (`OnlyDeletedBlocksExport`).
* A merge of two deletions by hash makes a pinned row live again and leaves it out of the index (`ImportDuplicate`).
* The stamps of pastes are strings of another format and smaller than all others of the day, so that an older version of the same revision wins (`ImportNeverRollsBack`, `Converged`).
* An ingest whose statement fails leaves a live row without payload or out of the index, and reports an error (`StatementFails`).
* The cleanup clears the path of a deleted image even if its file could not be removed; the sweep of a later launch tries again (`DeadFilesReclaimed`). An item that an
  import makes live again after that has no payload (`PayloadMissingOnlyWhenCut`).
* A retention or a clear that another writer overtakes is an error: the copy is stored, but reported as failed (`FinishRetention`).
* Two calls of `update_settings` at once may leave cache and table apart until the next save. If the Run key cannot be written,
  the new shortcut stays registered while the old one is stored. A failed save leaves a mixed table. A stored shortcut that
  another program holds ends the start of the program (`lib.rs:87`).
* The setup program writes the Run key with `--minimized` whatever the setting says; the next start repairs it.
* A program that is started while it is being removed writes the Run key again; a Run key that cannot be deleted stays, because the removal ignores that error.
* A download that fails leaves its partial file under the final name.
* An end of the process between the two updates of `migrate_default_accent` leaves a mix of an old and a new palette that the next start takes
  for the user's choice and marks as migrated; one within `insert_seed_item` leaves a sample without its format or its entry in the index (`StartResumes`).
* The sample rows are inserted whenever the table of items is empty, also into a history that was cleared and purged (`SkipSamples`).
* `StartReturns` and the English text of `is_transient_clipboard_error`: see ClipboardListener.

## Proved and model-checked

| module | proved for all constants | hypotheses beyond the module's ASSUME | only model-checked |
| --- | --- | --- | --- |
| `SyncQueue` | `TypeOK`, `NoChangeLost`, `PackageCoversQueue`, `AbandonedNeedsFullExport`, `StaleExportKeepsAbandoned`, `SyncedBlobIsUploaded`, `DeletionEventsShipped`, `ImplementsLedger` | `[]EventsFit` for `DeletionEventsShipped` | |
| `Replication` | `TypeOK`, `ImportKeepsPins`, `ImportNeverRollsBack`, `NoReappearance`, `NewestCovers`, `Converged` | `DistinctContent` for `ImportNeverRollsBack`, `NewestCovers` and `Converged`, `Expires = FALSE` for the last two | `ExchangeEnds` |
| `AutoSyncScheduler` | `NoLostWakeup`, `NoNewCycle`, `BackoffWhileDue` | | `StopEnds` |
| `ClipboardListener` | `TypeOK`, `NoCopyMissed`, `OwnWriteHidden` | | `StopReturns`, `StartReturns` |
| `History` | `TypeOK`, `PayloadMissingOnlyWhenCut`, `WordsFindRow`, `DuplicatesExplained`, `RetentionIsExact` | | |
| `BlobFiles` | `TypeOK`, `CapturedFileKept`, `OnlyDeletedBlocksExport`, `DeadFilesReclaimed`, `MissingBlobsFetched` | | |
| `Exchange` | `SyncedIsShared` | | `OnlyTornFilesBlock` |
| `Desktop`, `StartUp` | `InStep`, `NothingDangles`, `VerifiedIsLaunched`, `StartResumes` | | |

What is left to TLC is liveness (`ExchangeEnds`, `StopEnds`, `StopReturns`, `StartReturns`, `OnlyTornFilesBlock`): it rests on fairness, hence on
ENABLED, which is out of the prover's reach. So is what a recursive definition computes for every input; no module declares one.
The bounds of the runs are constants like the others: every theorem holds for all their values.

## Not modelled

* Front-end stores (`src/stores`): responses and events that are applied out of order, optimistic changes and their rollback. They are planned;
  nothing is claimed of them yet.
* Of the start: creating tables and indexes (IF NOT EXISTS), hiding the placeholder rows of an old version, `PRAGMA optimize`.
* Encoding and encryption of packages and blobs, the credential store, content detection and hashing: conversions without state. The models use of them
  that equal contents have equal hashes and that a file that was cut short does not decode.
* Ranking and paging of the search, previews, statistics: queries without effect.
* The Win32 calls that read and write clipboard formats, the windows, and the front-end components.

## Plan

1. Done: `SyncQueue`, `Replication`, `AutoSyncScheduler`, `ClipboardListener`, `History`, `BlobFiles`, `Exchange`, `Settings`, `Desktop`, `StartUp`.
2. Done: a theorem for every invariant and action property of the passing runs.
   To add: that `Exchange` and `Replication` implement an exchange in which a device takes over what another has made
   (for `Replication` under the hypotheses of `Convergence`);
   `NoRollback` and `NewestCovers` for items of equal content, as far as `merge_duplicate_by_hash` keeps them.
3. To model: the front-end stores; provider changes and the cap of imported names in `Exchange`.
