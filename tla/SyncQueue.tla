------------------------------ MODULE SyncQueue ------------------------------
(***************************************************************************)
(* The sync queue of one device: the rows of clipboard_items, sync_events  *)
(* and sync_blobs with their sync_status / synced_at / abandoned_at        *)
(* columns, the threads that change them, and the exports that empty the   *)
(* queue.                                                                  *)
(*                                                                         *)
(* Writers (the clipboard listener, the commands) stamp a row with a clock *)
(* sample taken before the write commits.  An export samples exported_at,  *)
(* reads a package in one transaction, uploads it, and only then marks as  *)
(* synced every pending row whose own stamp is not later than exported_at. *)
(* The auto-sync thread and a manual command may export at the same time;  *)
(* nothing serialises them.                                                *)
(*                                                                         *)
(* A package is abstracted to the revision of every item it holds, the     *)
(* remote to the newest revision of every item any written package held.   *)
(* Imports from other devices are not part of this module.                 *)
(*                                                                         *)
(* An operator Mut... is a plausible bug of the operator it precedes; no   *)
(* specification uses it, PROJECT.json names the property it would break.  *)
(***************************************************************************)
EXTENDS Integers, FiniteSets

CONSTANTS
    Items,          \* row ids of clipboard_items
    Blobs,          \* row ids of sync_blobs
    BlobOwner,      \* BlobOwner[b]: the image item blob b belongs to
    Exporters,      \* threads that may run export_remote_snapshot
    AutoExporters,  \* the ones that run it from the auto-sync cycle
    Lag,            \* how late a writer may commit the stamp it sampled
                    \* (connect, busy timeout; julianday() ties below 1 ms)
    Rounding,       \* how much datetime('now') truncates a paste's stamp
    Window,         \* SYNC_EXPORT_WINDOW_DAYS, in clock ticks
    EventLimit,     \* LIMIT of load_export_events
    MaxTime,        \* bound on the clock
    MaxRev          \* bound on the revisions of one item

ASSUME ConstantsAssumption ==
    /\ BlobOwner \in [Blobs -> Items]
    /\ AutoExporters \subseteq Exporters
    /\ Lag \in Nat
    /\ Rounding \in Nat
    /\ Window \in Nat
    /\ EventLimit \in Nat
    /\ MaxTime \in Nat
    /\ MaxRev \in Nat

VARIABLES
    item,           \* clipboard_items
    event,          \* sync_events: the event of each item revision
    blob,           \* sync_blobs
    owed,           \* writes a handler still has to make after its row update
    fullExport,     \* remote_sync_full_export_required
    lastAbandoned,  \* remote_sync_last_queue_abandoned_at (0: never)
    autoSync,       \* remote_sync_auto_enabled
    exporter,       \* program counter and locals of each export
    now,            \* the clock: it ticks whenever a stamp is sampled
    carried,        \* newest revision of each item in any written snapshot
    shipped,        \* events in any written snapshot
    late,           \* history: items that got a stale stamp since their last change
    stale           \* history: exports whose package predates an abandonment

rows == <<item, event, blob>>
queueVars == <<fullExport, lastAbandoned, autoSync>>
remote == <<carried, shipped>>
vars == <<rows, owed, queueVars, exporter, now, remote, late, stale>>

Revs == 1..MaxRev
Queued == {"pending", "abandoned"}          \* statuses that still wait for a sync
RowStatus == Queued \cup {"synced"}

ItemRow == [status : RowStatus \cup {"absent", "purged"},
            rev : Nat, updated : Nat, deleted : Nat]      \* deleted = 0: live
EventRow == [created : Nat, abandoned : Nat, synced : BOOLEAN]  \* created = 0: no row
\* remote: uploaded_at of the blob's remote_path, 0 while it has none.
BlobRow == [status : RowStatus \cup {"absent"}, remote : Nat, deleted : Nat]
OwedWrite == [item : Items, rev : Nat, at : Nat, kind : {"event", "blobs"}]

\* The package an export read, with its export checkpoint.
Package == [at : Nat, items : [Items -> Nat], events : SUBSET (Items \X Revs),
            full : BOOLEAN, last : Nat]
ExportState == [pc : {"idle", "cycle", "uploading", "sampled", "read", "written"},
                since : Nat, todo : SUBSET Blobs, pkg : Package]
TypeOK ==
    /\ item \in [Items -> ItemRow]
    /\ event \in [Items -> [Revs -> EventRow]]
    /\ blob \in [Blobs -> BlobRow]
    /\ owed \subseteq OwedWrite
    /\ fullExport \in BOOLEAN
    /\ lastAbandoned \in Nat
    /\ autoSync \in BOOLEAN
    /\ exporter \in [Exporters -> ExportState]
    /\ now \in Nat
    /\ carried \in [Items -> Nat]
    /\ shipped \subseteq Items \X Revs
    /\ late \subseteq Items
    /\ stale \subseteq Exporters

NoItem == [status |-> "absent", rev |-> 0, updated |-> 0, deleted |-> 0]
NoEvent == [created |-> 0, abandoned |-> 0, synced |-> FALSE]
NoBlob == [status |-> "absent", remote |-> 0, deleted |-> 0]
NoPackage == [at |-> 0, items |-> [i \in Items |-> 0], events |-> {},
              full |-> FALSE, last |-> 0]
Idle == [pc |-> "idle", since |-> 0, todo |-> {}, pkg |-> NoPackage]

Init ==
    /\ item = [i \in Items |-> NoItem]
    /\ event = [i \in Items |-> [r \in Revs |-> NoEvent]]
    /\ blob = [b \in Blobs |-> NoBlob]
    /\ owed = {}
    /\ fullExport = FALSE
    /\ lastAbandoned = 0
    /\ autoSync = FALSE
    /\ exporter = [x \in Exporters |-> Idle]
    /\ now = 1
    /\ carried = [i \in Items |-> 0]
    /\ shipped = {}
    /\ late = {}
    /\ stale = {}

-----------------------------------------------------------------------------
(* Rows and the clock *)

Present(i) == item[i].status \in RowStatus
Live(i) == Present(i) /\ item[i].deleted = 0

EventPending(i, r) ==
    event[i][r].created > 0 /\ ~event[i][r].synced /\ event[i][r].abandoned = 0
EventAbandoned(i, r) ==
    event[i][r].created > 0 /\ ~event[i][r].synced /\ event[i][r].abandoned > 0

\* Stamps a handler may commit now when it sampled the clock up to d ticks ago.
MutStamps(d) == {t \in (0 - now)..now : t >= now - d - 1}
Stamps(d) == {t \in 1..now : t >= now - d}

Ticks == now < MaxTime /\ now' = now + 1

\* History: a change with a fresh stamp clears the item's lateness, any row
\* write with a stale stamp sets it.
Changed(S, t) == late' = (late \ S) \cup (IF t < now THEN S ELSE {})
Touched(S, t) == late' = late \cup (IF t < now THEN S ELSE {})

-----------------------------------------------------------------------------
(* Local changes *)

\* ingest_clipboard_snapshot / ingest_image_snapshot of new content.  The row
\* commits by itself; the event and the image blobs follow in later statements.
Ingest(i) ==
    /\ item[i].status = "absent"
    /\ Ticks
    /\ \E t \in Stamps(Lag) :
        /\ item' = [item EXCEPT ![i] = [status |-> "pending", rev |-> 1,
                                        updated |-> t, deleted |-> 0]]
        /\ owed' = owed \cup {[item |-> i, rev |-> 1, at |-> t, kind |-> k] :
                              k \in {"event", "blobs"}}
        /\ Changed({i}, t)
    /\ UNCHANGED <<event, blob, queueVars, exporter, remote, stale>>

MutTogglePin(i) ==
    /\ Live(i) /\ item[i].rev < MaxRev
    /\ Ticks
    /\ \E t \in Stamps(Lag) :
        /\ item' = [item EXCEPT ![i].rev = @ + 1, ![i].updated = t]
        /\ owed' = owed \cup {[item |-> i, rev |-> item[i].rev + 1, at |-> t,
                               kind |-> "event"]}
        /\ Changed({i}, t)
    /\ UNCHANGED <<event, blob, queueVars, exporter, remote, stale>>

\* toggle_pin_clipboard_item: the row update, then the event, without a
\* transaction around the two.
TogglePin(i) ==
    /\ Live(i) /\ item[i].rev < MaxRev
    /\ Ticks
    /\ \E t \in Stamps(Lag) :
        /\ item' = [item EXCEPT ![i].status = "pending", ![i].rev = @ + 1,
                                ![i].updated = t]
        /\ owed' = owed \cup {[item |-> i, rev |-> item[i].rev + 1, at |-> t,
                               kind |-> "event"]}
        /\ Changed({i}, t)
    /\ UNCHANGED <<event, blob, queueVars, exporter, remote, stale>>

\* The second statement of Ingest or TogglePin: insert the sync event.
LogEvent(o) ==
    /\ o \in owed /\ o.kind = "event" /\ Present(o.item)
    /\ event' = [event EXCEPT ![o.item][o.rev] =
                    [created |-> o.at, abandoned |-> 0, synced |-> FALSE]]
    /\ owed' = owed \ {o}
    /\ UNCHANGED <<item, blob, queueVars, exporter, now, remote, late, stale>>

\* The last statement of an image ingest, after its event: insert_image_sync_blobs.
AddBlobs(o) ==
    /\ o \in owed /\ o.kind = "blobs" /\ Present(o.item)
    /\ [o EXCEPT !.kind = "event"] \notin owed
    /\ blob' = [b \in Blobs |->
                   IF BlobOwner[b] = o.item /\ blob[b].status = "absent"
                   THEN [NoBlob EXCEPT !.status = "pending"] ELSE blob[b]]
    /\ owed' = owed \ {o}
    /\ UNCHANGED <<item, event, queueVars, exporter, now, remote, late, stale>>

\* delete_clipboard_item, clear_clipboard_history and the retention policy:
\* one transaction writes the tombstones, their events and their blobs.
TombstoneWrites(S, t) ==
    /\ item' = [i \in Items |->
                   IF i \in S
                   THEN [status |-> "pending", rev |-> item[i].rev + 1,
                         updated |-> t, deleted |-> t]
                   ELSE item[i]]
    /\ event' = [i \in Items |-> [r \in Revs |->
                   IF i \in S /\ r = item[i].rev + 1
                   THEN [created |-> t, abandoned |-> 0, synced |-> FALSE]
                   ELSE event[i][r]]]
    /\ blob' = [b \in Blobs |->
                   IF BlobOwner[b] \in S /\ blob[b].status # "absent"
                      /\ blob[b].deleted = 0
                   THEN [blob[b] EXCEPT !.status = "pending", !.deleted = t]
                   ELSE blob[b]]
    /\ Changed(S, t)

Delete(S) ==
    /\ S # {} /\ \A i \in S : Live(i) /\ item[i].rev < MaxRev
    /\ Ticks
    /\ \E t \in Stamps(Lag) : TombstoneWrites(S, t)
    /\ UNCHANGED <<owed, queueVars, exporter, remote, stale>>

\* Copying content that is already in the history moves only its stamps.
Recapture(i) ==
    /\ Live(i)
    /\ Ticks
    /\ \E t \in Stamps(Lag) :
        item' = [item EXCEPT ![i].updated = t] /\ Touched({i}, t)
    /\ UNCHANGED <<event, blob, owed, queueVars, exporter, remote, stale>>

\* increment_used_count of a paste: datetime('now') has whole seconds, and the
\* row is updated even if it was deleted after the paste read it.
PasteTouch(i) ==
    /\ Present(i)
    /\ Ticks
    /\ \E t \in Stamps(Rounding) :
        item' = [item EXCEPT ![i].updated = t] /\ Touched({i}, t)
    /\ UNCHANGED <<event, blob, owed, queueVars, exporter, remote, stale>>

-----------------------------------------------------------------------------
(* The queue commands *)

\* abandon_sync_queue_at, one immediate transaction.  Two abandonments do not
\* overlap, so their stamps (which have nanoseconds) grow.
AbandonWrites(t) ==
    /\ item' = [i \in Items |->
                   IF item[i].status = "pending"
                   THEN [item[i] EXCEPT !.status = "abandoned"] ELSE item[i]]
    /\ blob' = [b \in Blobs |->
                   IF blob[b].status = "pending"
                   THEN [blob[b] EXCEPT !.status = "abandoned"] ELSE blob[b]]
    /\ event' = [i \in Items |-> [r \in Revs |->
                   IF EventPending(i, r)
                   THEN [event[i][r] EXCEPT !.abandoned = t] ELSE event[i][r]]]
    /\ lastAbandoned' = t

Abandon ==
    /\ Ticks
    /\ \E t \in Stamps(Lag) : t > lastAbandoned /\ AbandonWrites(t)
    /\ autoSync' = FALSE
    /\ fullExport' = TRUE
    /\ stale' = stale \cup {x \in Exporters : exporter[x].pc \in {"read", "written"}}
    /\ UNCHANGED <<owed, exporter, remote, late>>

\* update_auto_sync_config and clear_auto_sync_password.
SetAutoSync(on) ==
    /\ autoSync' = on
    /\ UNCHANGED <<rows, owed, fullExport, lastAbandoned, exporter,
                   now, remote, late, stale>>

\* pending_change_count > 0, or a full export is required.
MustExport ==
    \/ \E i \in Items : item[i].status = "pending"
    \/ \E i \in Items, r \in Revs : EventPending(i, r)
    \/ \E b \in Blobs : blob[b].status = "pending"
    \/ fullExport

-----------------------------------------------------------------------------
(* export_remote_snapshot, step by step *)

\* run_auto_sync_cycle reads the switch once, then imports; the switch may be
\* turned off before the cycle gets to its export.
StartCycle(x) ==
    /\ x \in AutoExporters /\ exporter[x].pc = "idle" /\ autoSync
    /\ exporter' = [exporter EXCEPT ![x].pc = "cycle"]
    /\ UNCHANGED <<rows, owed, queueVars, now, remote, late, stale>>

\* load_uploadable_blobs lists the image blobs to upload, after the cycle has
\* decided to export (should_export of sync_with_remote, where a remote without
\* snapshots counts) or at a manual export.
BeginExport(x) ==
    /\ \/ /\ exporter[x].pc = "cycle"
          /\ MustExport \/ \A i \in Items : carried[i] = 0
       \/ /\ exporter[x].pc = "idle"
          /\ x \notin AutoExporters
    /\ exporter' = [exporter EXCEPT ![x] = [Idle EXCEPT
            !.pc = "uploading", !.since = now,
            !.todo = {b \in Blobs :
                        /\ blob[b].status # "absent" /\ blob[b].deleted = 0
                        /\ blob[b].remote = 0 \/ blob[b].status = "pending"}]]
    /\ UNCHANGED <<rows, owed, queueVars, now, remote, late, stale>>

\* One blob is written and mark_blob_uploaded updates its row, whatever
\* happened to the row since it was listed.
UploadBlob(x, b) ==
    /\ exporter[x].pc = "uploading" /\ b \in exporter[x].todo
    /\ exporter' = [exporter EXCEPT ![x].todo = @ \ {b}]
    /\ blob' = IF blob[b].status = "absent" THEN blob
               ELSE [blob EXCEPT ![b].status = "synced",
                                 ![b].remote = exporter[x].since]
    /\ UNCHANGED <<item, event, owed, queueVars, now, remote, late, stale>>

\* build_sync_package_bytes samples exported_at before its transaction.
SampleExport(x) ==
    /\ exporter[x].pc = "uploading" /\ exporter[x].todo = {}
    /\ Ticks
    /\ exporter' = [exporter EXCEPT ![x].pc = "sampled", ![x].pkg.at = now]
    /\ UNCHANGED <<rows, owed, queueVars, remote, late, stale>>

\* load_export_items: live rows always, queued tombstones always, synced
\* tombstones inside the export window; never a row stamped after exported_at.
MutExportable(i, at) ==
    /\ Present(i)
    /\ item[i].updated <= at
    /\ item[i].deleted = 0 \/ item[i].deleted >= now - Window

Exportable(i, at) ==
    /\ Present(i)
    /\ item[i].updated <= at
    /\ \/ item[i].deleted = 0
       \/ item[i].status \in Queued
       \/ item[i].deleted >= now - Window

\* load_export_events before its LIMIT.
ExportableEvents(at) ==
    {e \in Items \X Revs :
        LET row == event[e[1]][e[2]] IN
        /\ row.created > 0 /\ row.abandoned = 0 /\ row.created <= at
        /\ (~row.synced \/ row.created >= now - Window)}

\* The LIMIT keeps the oldest rows.
OldestEvents(S, E) ==
    /\ E \subseteq S
    /\ Cardinality(E) <= EventLimit
    /\ E # S => Cardinality(E) = EventLimit
    /\ \A e \in E, f \in S \ E : event[e[1]][e[2]].created <= event[f[1]][f[2]].created

PackageOf(at, E) ==
    [at |-> at, items |-> [i \in Items |-> IF Exportable(i, at) THEN item[i].rev ELSE 0],
     events |-> E, full |-> fullExport, last |-> lastAbandoned]

\* The read transaction of build_sync_package_bytes.
ReadPackage(x) ==
    LET at == exporter[x].pkg.at IN
    /\ exporter[x].pc = "sampled"
    /\ \E E \in SUBSET ExportableEvents(at) :
        /\ OldestEvents(ExportableEvents(at), E)
        /\ exporter' = [exporter EXCEPT ![x].pc = "read", ![x].pkg = PackageOf(at, E)]
    /\ stale' = stale \ {x}
    /\ UNCHANGED <<rows, owed, queueVars, now, remote, late>>

\* provider.write of the snapshot.
WriteSnapshot(x) ==
    /\ exporter[x].pc = "read"
    /\ exporter' = [exporter EXCEPT ![x].pc = "written"]
    /\ carried' = [i \in Items |-> IF exporter[x].pkg.items[i] > carried[i]
                                   THEN exporter[x].pkg.items[i] ELSE carried[i]]
    /\ shipped' = shipped \cup exporter[x].pkg.events
    /\ UNCHANGED <<rows, owed, queueVars, now, late, stale>>

\* mark_sync_exported: the statuses an export at time "at" turns into synced.
\* baseline: the export answers the abandonment that is current when it marks.
MutItemMarked(i, at, baseline) ==
    item[i].status = "pending" \/ (baseline /\ item[i].status = "abandoned")

ItemMarked(i, at, baseline) ==
    /\ item[i].status = "pending" \/ (baseline /\ item[i].status = "abandoned")
    /\ item[i].updated <= at

MutEventMarked(i, r, at, baseline) ==
    EventPending(i, r) \/ (baseline /\ EventAbandoned(i, r))

EventMarked(i, r, at, baseline) ==
    \/ EventPending(i, r) /\ event[i][r].created <= at
    \/ baseline /\ EventAbandoned(i, r) /\ event[i][r].abandoned <= at

MutBlobMarked(b, at, baseline) ==
    blob[b].status = "pending" \/ (baseline /\ blob[b].status = "abandoned")

BlobMarked(b, at, baseline) ==
    \/ blob[b].status = "pending" /\ blob[b].deleted \in 1..at
    \/ /\ baseline /\ blob[b].status = "abandoned"
       /\ \/ blob[b].deleted \in 1..at
          \/ blob[b].deleted = 0 /\ blob[b].remote \in 1..at

\* The export's checkpoint against the current one.
MutBaselineApplies(pkg) == pkg.full /\ fullExport

BaselineApplies(pkg) ==
    pkg.full /\ fullExport /\ pkg.last = lastAbandoned

\* abandoned_change_count > 0.
SomeAbandoned ==
    \/ \E i \in Items : item[i].status = "abandoned"
    \/ \E i \in Items, r \in Revs : EventAbandoned(i, r)
    \/ \E b \in Blobs : blob[b].status = "abandoned"

\* The flag after the marks: only the export that answers the abandonment may
\* clear it, and only when nothing is abandoned any more.
MutStillRequired(baseline) == IF baseline THEN FALSE ELSE fullExport
StillRequired(baseline) == IF baseline THEN SomeAbandoned' ELSE fullExport

MarkExported(x) ==
    LET pkg == exporter[x].pkg
        baseline == BaselineApplies(pkg)
    IN  /\ exporter[x].pc = "written"
        /\ item' = [i \in Items |->
                       IF ItemMarked(i, pkg.at, baseline)
                       THEN [item[i] EXCEPT !.status = "synced"] ELSE item[i]]
        /\ event' = [i \in Items |-> [r \in Revs |->
                       IF EventMarked(i, r, pkg.at, baseline)
                       THEN [event[i][r] EXCEPT !.synced = TRUE] ELSE event[i][r]]]
        /\ blob' = [b \in Blobs |->
                       IF BlobMarked(b, pkg.at, baseline)
                       THEN [blob[b] EXCEPT !.status = "synced"] ELSE blob[b]]
        /\ fullExport' = StillRequired(baseline)
        /\ exporter' = [exporter EXCEPT ![x] = Idle]
        /\ stale' = stale \ {x}
        /\ UNCHANGED <<owed, lastAbandoned, autoSync, now, remote, late>>

\* Any provider call or database call of an export may fail; the export
\* returns its error and leaves everything else as it is.
FailExport(x) ==
    /\ exporter[x].pc # "idle"
    /\ exporter' = [exporter EXCEPT ![x] = Idle]
    /\ stale' = stale \ {x}
    /\ UNCHANGED <<rows, owed, queueVars, now, remote, late>>

-----------------------------------------------------------------------------
(* Everything else *)

\* cleanup_sync_data_at: expired synced tombstones with nothing left to sync
\* are removed with their events and blobs, and old synced events with them.
Purgeable(i) ==
    /\ item[i].status = "synced" /\ item[i].deleted > 0
    /\ item[i].deleted < now - Window
    /\ \A r \in Revs : event[i][r].created > 0 => event[i][r].synced
    /\ \A b \in Blobs : BlobOwner[b] = i => blob[b].status \in {"absent", "synced"}

Cleanup ==
    /\ item' = [i \in Items |->
                   IF Purgeable(i) THEN [item[i] EXCEPT !.status = "purged"]
                   ELSE item[i]]
    /\ event' = [i \in Items |-> [r \in Revs |->
                   IF \/ Purgeable(i)
                      \/ event[i][r].synced /\ event[i][r].created < now - Window
                   THEN NoEvent ELSE event[i][r]]]
    /\ blob' = [b \in Blobs |-> IF Purgeable(BlobOwner[b]) THEN NoBlob ELSE blob[b]]
    /\ UNCHANGED <<owed, queueVars, exporter, now, remote, late, stale>>

\* The process ends between any two steps; only the database survives.
Crash ==
    /\ exporter' = [x \in Exporters |-> Idle]
    /\ owed' = {}
    /\ stale' = {}
    /\ UNCHANGED <<rows, queueVars, now, remote, late>>

Tick == Ticks /\ UNCHANGED <<rows, owed, queueVars, exporter, remote, late, stale>>

Next ==
    \/ \E i \in Items :
        Ingest(i) \/ TogglePin(i) \/ Recapture(i) \/ PasteTouch(i)
    \/ \E S \in SUBSET Items : Delete(S)
    \/ \E o \in owed : LogEvent(o) \/ AddBlobs(o)
    \/ Abandon
    \/ \E on \in BOOLEAN : SetAutoSync(on)
    \/ \E x \in Exporters :
        \/ StartCycle(x) \/ BeginExport(x) \/ SampleExport(x) \/ ReadPackage(x)
        \/ WriteSnapshot(x) \/ MarkExported(x) \/ FailExport(x)
        \/ \E b \in Blobs : UploadBlob(x, b)
    \/ Cleanup
    \/ Crash
    \/ Tick

Spec == Init /\ [][Next]_vars

-----------------------------------------------------------------------------
(* Properties *)

\* A change counts as acknowledged once its row is synced, or its tombstone is
\* purged from the database.
Acknowledged(i) == item[i].status \in {"synced", "purged"}

\* A change leaves the queue only when a snapshot that holds it has been
\* written to the remote (mark_sync_exported never outruns the package that was
\* read before), unless its row got a stamp older than the commit since.
NoChangeLost ==
    \A i \in Items \ late : Acknowledged(i) => carried[i] >= item[i].rev

\* While an export is between its read and its marks, the package holds the
\* newest revision of every queued row whose stamp the marks accept.
PackageCoversQueue ==
    \A x \in Exporters, i \in Items \ late :
        /\ exporter[x].pc \in {"read", "written"}
        /\ item[i].status \in Queued
        /\ item[i].updated <= exporter[x].pkg.at
        => exporter[x].pkg.items[i] >= item[i].rev

\* NoChangeLost without the exception: what the export checkpoint is for.
EveryAckedChangeIsCarried ==
    \A i \in Items : Acknowledged(i) => carried[i] >= item[i].rev

\* As long as a row is abandoned the device still owes a full export, through
\* re-edits, failed exports, crashes and concurrent exports.
AbandonedNeedsFullExport == SomeAbandoned => fullExport

\* An image blob that is live and counts as synced has been uploaded, although
\* uploads, abandonment and the marking of three tables interleave.
SyncedBlobIsUploaded ==
    \A b \in Blobs : blob[b].status = "synced" /\ blob[b].deleted = 0
                     => blob[b].remote > 0

\* A package read before an abandonment never marks as synced what was
\* abandoned, even if an earlier abandonment already required a full export
\* when it was read (the checkpoint comparison of mark_sync_exported).
StaleExportKeepsAbandoned ==
    [][\A x \in stale :
          exporter[x].pc = "written" /\ exporter'[x].pc = "idle" =>
             /\ \A i \in Items : item[i].status = "abandoned"
                                 => item'[i].status = "abandoned"
             /\ \A i \in Items, r \in Revs : EventAbandoned(i, r)
                                             => ~event'[i][r].synced
             /\ \A b \in Blobs : blob[b].status = "abandoned"
                                 => blob'[b].status = "abandoned"
      ]_vars

\* Active pending events always ship: the event of a deletion, which is written
\* in the transaction of the tombstone, is marked as synced only when some
\* written snapshot holds it, unless it was abandoned or its row got a stamp
\* older than the commit (load_export_events, mark_sync_exported).
DeletionEventsShipped ==
    \A i \in Items \ late : LET e == event[i][item[i].rev] IN
        item[i].status \in RowStatus /\ item[i].deleted > 0
        /\ e.synced /\ e.abandoned = 0 => <<i, item[i].rev>> \in shipped

\* The abstract promise: statuses, stamps and checkpoints implement a ledger in
\* which a change is acknowledged only when the remote holds it.
Ledger == INSTANCE ChangeLedger WITH
            latest <- [i \in Items |-> item[i].rev],
            acked <- [i \in Items |-> Acknowledged(i) /\ i \notin late],
            safe <- carried

ImplementsLedger == Ledger!Spec

=============================================================================
