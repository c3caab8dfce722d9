------------------------------ MODULE BlobFiles ------------------------------
(***************************************************************************)
(* The image files of one device and the rows that point at them.  Four    *)
(* actors touch them without a common lock: the clipboard worker (an image *)
(* is stored before its row exists), the user (deletions), the cleanup     *)
(* that runs once per launch, and the sync cycle, which merges packages,   *)
(* downloads missing blobs and uploads pending ones.  A file call and the  *)
(* statement that belongs to it are two steps; the program may end between *)
(* them, and a storage call may fail or be cut short.                      *)
(*                                                                         *)
(* An item has one image format (the thumbnail goes with it) and up to two *)
(* sync blobs, the original and a smaller version of it.  Revisions, pins  *)
(* and stamps are in Replication, the abandoned state and the export       *)
(* window in SyncQueue.                                                    *)
(***************************************************************************)
EXTENDS Naturals, FiniteSets

CONSTANTS
    Captured,     \* items whose image is copied on this device
    Received,     \* items that come from another device
    Blobs,        \* ids of sync blobs
    ItemOf,       \* ItemOf[b]: the item of blob b
    Originals,    \* blobs of type original; the others are compressed or preview
    Limit,        \* LIMIT 200 of the two lists of blobs
    MaxImports,   \* bound on the merged packages
    MaxFaults,   \* bound on the restarts, failing ingests and files that cannot be removed
    NoItem,
    NoPath

Items == Captured \cup Received

ASSUME BlobFilesAssumption ==
    /\ Captured \cap Received = {}
    /\ IsFiniteSet(Blobs)
    /\ ItemOf \in [Blobs -> Items]
    /\ Originals \subseteq Blobs
    /\ NoItem \notin Items \cup Blobs
    /\ NoPath \notin ({"image"} \X Items) \cup ({"variant", "download"} \X Blobs)
    /\ Limit \in Nat \ {0} /\ MaxImports \in Nat /\ MaxFaults \in Nat

BlobsOf(i) == {b \in Blobs : ItemOf[b] = i}

\* images/{item id}.png, sync-images/{item id}-original.png or {item id}-preview.jpg (or
\* -compressed.jpg), and the file of a download: sync-images/{blob id}-original.png.
Paths == ({"image"} \X Items) \cup ({"variant", "download"} \X Blobs)
Image(i) == <<"image", i>>
Variant(b) == <<"variant", b>>
Download(b) == <<"download", b>>
Owner(p) == IF p[1] = "image" THEN p[2] ELSE ItemOf[p[2]]

Blob == [row : BOOLEAN, path : Paths \cup {NoPath}, remote : BOOLEAN,
         status : {"pending", "synced"}, deleted : BOOLEAN]
NoBlob == [row |-> FALSE, path |-> NoPath, remote |-> FALSE,
           status |-> "pending", deleted |-> FALSE]

VARIABLES
    item,       \* clipboard_items: "none", "live" or "deleted"
    format,     \* data_path of the image format: "none", "path" or "cleared"
    blob,       \* sync_blobs
    file,       \* files on disk; "old": written more than an hour ago
    remote,     \* blob files on the remote storage; "torn": a write was cut short
    worker,     \* the ingest under way
    cleaner,    \* the cleanup of this launch
    sync,       \* the sync cycle under way
    used,       \* item ids already given to an image
    revived,    \* history: items that were deleted and came back
    imports, faults

rows == <<item, format, blob>>
vars == <<rows, file, remote, worker, cleaner, sync, used, revived, imports, faults>>

Worker == [pc : {"idle", "row", "format", "blobs", "insert"},
           id : Items \cup {NoItem}, todo : SUBSET (Blobs \X Paths)]
Listed == (Items \cup Blobs) \X Paths
Cleaner == [pc : {"waiting", "formats", "formatGone", "blobs", "blobGone", "live", "sweep",
                  "done"},
            todo : SUBSET Listed, cur : Items \cup Blobs \cup {NoItem}, live : SUBSET Items,
            stale : SUBSET Paths, left : SUBSET Paths]
Sync == [pc : {"idle", "merged", "fetch", "wrote", "fetched", "send", "sending", "sent"},
         todo : SUBSET (Blobs \X (Paths \cup {NoPath})), cur : Blobs \cup {NoItem},
         due : SUBSET Blobs]

TypeOK ==
    /\ item \in [Items -> {"none", "live", "deleted"}]
    /\ format \in [Items -> {"none", "path", "cleared"}]
    /\ blob \in [Blobs -> Blob]
    /\ file \in [Paths -> {"none", "new", "old"}]
    /\ remote \in [Blobs -> {"none", "torn", "whole"}]
    /\ worker \in Worker
    /\ cleaner \in Cleaner
    /\ sync \in Sync
    /\ used \subseteq Captured
    /\ revived \subseteq Items
    /\ imports \in 0..MaxImports /\ faults \in 0..MaxFaults

WorkerIdle == [pc |-> "idle", id |-> NoItem, todo |-> {}]
CleanerWaits == [pc |-> "waiting", todo |-> {}, cur |-> NoItem, live |-> {}, stale |-> {},
                 left |-> {}]
SyncIdle == [pc |-> "idle", todo |-> {}, cur |-> NoItem, due |-> {}]

\* Some of the received items, and their blobs, are here from earlier cycles.
Init ==
    /\ \E here \in SUBSET Received :
          /\ item = [i \in Items |-> IF i \in here THEN "live" ELSE "none"]
          /\ blob = [b \in Blobs |-> IF ItemOf[b] \notin here THEN NoBlob
                                    ELSE [row |-> TRUE, path |-> Download(b), remote |-> TRUE,
                                          status |-> "synced", deleted |-> FALSE]]
          /\ file = [p \in Paths |-> IF p[1] = "download" /\ Owner(p) \in here
                                     THEN "new" ELSE "none"]
          /\ remote = [b \in Blobs |-> IF ItemOf[b] \in here THEN "whole" ELSE "none"]
    /\ format = [i \in Items |-> "none"]
    /\ worker = WorkerIdle
    /\ cleaner = CleanerWaits
    /\ sync = SyncIdle
    /\ used = {} /\ revived = {}
    /\ imports = 0 /\ faults = 0

Live == {i \in Items : item[i] = "live"}

\* Something of the bounded kinds goes wrong in this step, or nothing does.
Fault(wrong) == faults' = (IF wrong THEN faults + 1 ELSE faults) /\ faults' <= MaxFaults
Missing(p) == IF p = NoPath THEN TRUE ELSE file[p] = "none"

\* What the user is shown (load_image_path): the file of the format, or else that of
\* a sync blob, the original before the others.
Here(i) == {b \in BlobsOf(i) : ~blob[b].deleted /\ ~Missing(blob[b].path)}
Shown(i) == IF format[i] = "path" /\ ~Missing(Image(i)) THEN Image(i)
            ELSE IF Here(i) = {} THEN NoPath
            ELSE blob[CHOOSE b \in Here(i) :
                         Here(i) \cap Originals # {} => b \in Originals].path

-----------------------------------------------------------------------------
(* The clipboard worker: ingest_image_snapshot *)

WorkerStep == UNCHANGED <<remote, cleaner, sync, revived, imports>>

\* store_image, before there is a row.
StoreImage(i) ==
    /\ WorkerStep /\ Fault(FALSE)
    /\ worker.pc = "idle" /\ i \notin used
    /\ file' = [file EXCEPT ![Image(i)] = "new"]
    /\ worker' = [worker EXCEPT !.pc = "row", !.id = i]
    /\ used' = used \cup {i}
    /\ UNCHANGED rows

InsertRow ==
    /\ WorkerStep /\ Fault(FALSE)
    /\ worker.pc = "row"
    /\ item' = [item EXCEPT ![worker.id] = "live"]
    /\ worker' = [worker EXCEPT !.pc = "format"]
    /\ UNCHANGED <<format, blob, file, used>>

InsertFormat ==
    /\ WorkerStep /\ Fault(FALSE)
    /\ worker.pc = "format"
    /\ format' = [format EXCEPT ![worker.id] = "path"]
    /\ worker' = [worker EXCEPT !.pc = "blobs"]
    /\ UNCHANGED <<item, blob, file, used>>

InsertNext(todo) ==
    worker' = IF todo = {} THEN WorkerIdle ELSE [worker EXCEPT !.pc = "insert", !.todo = todo]

\* prepare_image_sync_blobs: some blobs of the item (none if only metadata are synced,
\* or after an error, which is only logged), each with the stored image or a variant of
\* it.  A variant may be left without a blob: an error came after it, or it is too large
\* and cannot be removed.
PrepareBlobs ==
    /\ WorkerStep
    /\ worker.pc = "blobs"
    /\ \E made, variants \in SUBSET BlobsOf(worker.id) :
          /\ made \subseteq variants \cup Originals
          /\ InsertNext({<<b, IF b \in variants THEN Variant(b) ELSE Image(worker.id)>> : b \in made})
          /\ file' = [p \in Paths |-> IF p \in {Variant(b) : b \in variants}
                                     THEN "new" ELSE file[p]]
          /\ Fault(~(variants \subseteq made))
    /\ UNCHANGED <<rows, used>>

\* insert_image_sync_blobs, one statement a blob.
InsertBlob ==
    /\ WorkerStep /\ Fault(FALSE)
    /\ worker.pc = "insert"
    /\ \E e \in worker.todo :
          /\ blob' = [blob EXCEPT ![e[1]] = [NoBlob EXCEPT !.row = TRUE, !.path = e[2]]]
          /\ InsertNext(worker.todo \ {e})
    /\ UNCHANGED <<item, format, file, used>>

\* A statement of the ingest fails: the worker waits for the next copy.
IngestFails ==
    /\ WorkerStep /\ Fault(TRUE)
    /\ worker.pc # "idle"
    /\ worker' = WorkerIdle
    /\ UNCHANGED <<rows, file, used>>

-----------------------------------------------------------------------------
(* The user, the clock and the other devices *)

\* delete_clipboard_item, clear and retention: mark_item_blobs_deleted is in the
\* same transaction.
Delete(i) ==
    /\ item[i] = "live"
    /\ item' = [item EXCEPT ![i] = "deleted"]
    /\ blob' = [b \in Blobs |-> IF b \in BlobsOf(i) /\ blob[b].row /\ ~blob[b].deleted
                               THEN [blob[b] EXCEPT !.deleted = TRUE, !.status = "pending"]
                               ELSE blob[b]]
    /\ UNCHANGED <<format, file, remote, worker, cleaner, sync, used, revived, imports, faults>>

\* file_is_old_enough: an hour passes.  Neither an ingest nor a sync cycle nor the
\* sweep (from the reading of the live ids on) lasts that long.
HourPasses ==
    /\ worker.pc = "idle" /\ sync.pc = "idle" /\ cleaner.pc \notin {"live", "sweep"}
    /\ \E p \in Paths : file[p] = "new"
    /\ file' = [p \in Paths |-> IF file[p] = "new" THEN "old" ELSE file[p]]
    /\ UNCHANGED <<rows, remote, worker, cleaner, sync, used, revived, imports, faults>>

\* The device an item comes from writes its blob file, or dies while it does.
PeerUpload(b) ==
    /\ remote[b] = "none"
    /\ \E r \in {"torn", "whole"} : remote' = [remote EXCEPT ![b] = r]
    /\ UNCHANGED <<rows, file, worker, cleaner, sync, used, revived, imports, faults>>

-----------------------------------------------------------------------------
(* blob_cleanup_service, 90 s after the launch *)

CleanerStep == UNCHANGED <<item, remote, worker, sync, used, revived, imports>>

StartCleanup ==
    /\ CleanerStep /\ Fault(FALSE)
    /\ cleaner.pc = "waiting"
    /\ cleaner' = [cleaner EXCEPT !.pc = "formats",
                      !.todo = {<<i, Image(i)>> : i \in {j \in Items : item[j] = "deleted"
                                                                  /\ format[j] = "path"}},
                      !.stale = {p \in Paths : file[p] = "old" /\ Owner(p) \notin Live}]
    /\ UNCHANGED <<format, blob, file>>

\* remove_file_tracked, in the loop over the formats or over the blobs.  That a file
\* cannot be removed is passed over: its path is cleared all the same.  (A statement
\* that fails ends the cleanup of this launch; it then moves no further.)
RemoveListedFile ==
    /\ CleanerStep
    /\ cleaner.pc \in {"formats", "blobs"}
    /\ \E e \in cleaner.todo :
          /\ file' \in {file, [file EXCEPT ![e[2]] = "none"]}
          /\ Fault(file'[e[2]] # "none")
          /\ cleaner' = [cleaner EXCEPT !.cur = e[1],
                            !.pc = IF cleaner.pc = "formats" THEN "formatGone" ELSE "blobGone"]
    /\ UNCHANGED <<format, blob>>

Handled(pc) ==
    cleaner' = [cleaner EXCEPT !.pc = pc, !.cur = NoItem,
                               !.todo = {e \in cleaner.todo : e[1] # cleaner.cur}]

ClearFormatPath ==
    /\ CleanerStep /\ Fault(FALSE)
    /\ cleaner.pc = "formatGone"
    /\ format' = [format EXCEPT ![cleaner.cur] = "cleared"]
    /\ Handled("formats")
    /\ UNCHANGED <<blob, file>>

\* collect_deleted_sync_blob_paths
ListBlobs ==
    /\ CleanerStep /\ Fault(FALSE)
    /\ cleaner.pc = "formats" /\ cleaner.todo = {}
    /\ cleaner' = [cleaner EXCEPT !.pc = "blobs",
                      !.todo = {<<b, blob[b].path>> : b \in {c \in Blobs : item[ItemOf[c]] = "deleted"
                                                       /\ blob[c].path # NoPath}}]
    /\ UNCHANGED <<format, blob, file>>

\* By id: whatever path the row has by now.
ClearBlobPath ==
    /\ CleanerStep /\ Fault(FALSE)
    /\ cleaner.pc = "blobGone"
    /\ blob' = [blob EXCEPT ![cleaner.cur].path = NoPath]
    /\ Handled("blobs")
    /\ UNCHANGED <<format, file>>

MutListLive ==
    /\ CleanerStep /\ Fault(FALSE)
    /\ cleaner.pc = "blobs" /\ cleaner.todo = {}
    /\ cleaner' = [cleaner EXCEPT !.pc = "live", !.live = {i \in Items : item[i] # "none"}]
    /\ UNCHANGED <<format, blob, file>>

ListLive ==
    /\ CleanerStep /\ Fault(FALSE)
    /\ cleaner.pc = "blobs" /\ cleaner.todo = {}
    /\ cleaner' = [cleaner EXCEPT !.pc = "live", !.live = Live]
    /\ UNCHANGED <<format, blob, file>>

MutOwnerByName(p) == IF p[1] = "image" THEN p[2] ELSE NoItem

\* The item id that the sweep reads off a file name; a download has a blob id there.
OwnerByName(p) == IF p[1] = "download" THEN NoItem ELSE Owner(p)

\* remove_orphan_blob_dir_files, the files of one kind at a time.
MutSwept(kinds) == {p \in Paths : p[1] \in kinds /\ OwnerByName(p) \notin cleaner.live}

Swept(kinds) == {p \in Paths : /\ p[1] \in kinds
                               /\ OwnerByName(p) \notin cleaner.live
                               /\ file[p] = "old"}
\* What cannot be removed stays, all of it if the directory cannot be read.
Sweep(kinds, from, to) ==
    /\ CleanerStep
    /\ cleaner.pc = from
    /\ \E stays \in SUBSET Swept(kinds) :
          /\ file' = [p \in Paths |-> IF p \in Swept(kinds) \ stays THEN "none" ELSE file[p]]
          /\ cleaner' = [cleaner EXCEPT !.pc = to, !.left = @ \cup stays]
          /\ Fault(stays # {})
    /\ UNCHANGED <<format, blob>>
SweepImages == Sweep({"image"}, "live", "sweep")
SweepSyncImages == Sweep({"variant", "download"}, "sweep", "done")

-----------------------------------------------------------------------------
(* The sync cycle: import, then export *)

SyncStep == UNCHANGED <<format, worker, used, faults>>

\* upsert_sync_blob_metadata: what the package says of the blob's remote path, its
\* status and its deletion.
Upserted(b, r, s, d) ==
    IF ~b.row THEN [row |-> TRUE, path |-> NoPath, remote |-> r, status |-> s, deleted |-> d]
    ELSE [b EXCEPT !.remote = r,
                   !.status = IF b.status = "pending" \/ b.path # NoPath THEN b.status ELSE s,
                   !.deleted = (b.status = "pending" /\ b.deleted) \/ d]

\* The package tells of some blobs of i (uploaded, or still to be uploaded there); the
\* others it does not know (or their item was merged into another row, whose id the
\* metadata do not have).
BlobsOfPackage(i, d) ==
    \E up, owed \in SUBSET BlobsOf(i) :
        blob' = [b \in Blobs |-> IF b \in up THEN Upserted(blob[b], TRUE, "synced", d)
                                ELSE IF b \in owed THEN Upserted(blob[b], FALSE, "pending", d)
                                ELSE blob[b]]

\* A package is merged in one transaction: a new item, a tombstone, a newer
\* version of a deleted item, or no news of the item.
Import ==
    /\ SyncStep
    /\ sync.pc = "idle" /\ imports < MaxImports
    /\ imports' = imports + 1
    /\ sync' = [sync EXCEPT !.pc = "merged"]
    /\ \E i \in Items :
          \/ /\ item[i] = "none" /\ i \in Received
             /\ item' = [item EXCEPT ![i] = "live"]
             /\ BlobsOfPackage(i, FALSE)
             /\ UNCHANGED revived
          \/ /\ item[i] = "live"
             /\ item' = [item EXCEPT ![i] = "deleted"]
             /\ BlobsOfPackage(i, TRUE)
             /\ UNCHANGED revived
          \/ /\ item[i] = "deleted"
             /\ item' = [item EXCEPT ![i] = "live"]
             /\ BlobsOfPackage(i, FALSE)
             /\ revived' = revived \cup {i}
          \/ /\ item[i] # "none"
             /\ BlobsOfPackage(i, item[i] = "deleted")
             /\ UNCHANGED <<item, revived>>
    \* A file is stale only as long as its item is not live (and nobody writes it).
    /\ cleaner' = [cleaner EXCEPT !.stale = {p \in @ : item'[Owner(p)] # "live"}]
    /\ UNCHANGED <<file, remote>>

\* ORDER BY created_at LIMIT: some Limit of them, for any order of creation.
Batches(S) == {T \in SUBSET S : \/ T = S /\ Cardinality(S) <= Limit
                                \/ Cardinality(T) = Limit}

WithRemote == {b \in Blobs : blob[b].row /\ ~blob[b].deleted /\ blob[b].remote}

\* load_missing_local_blobs: the limit first, then the filter.
MutListMissing ==
    /\ SyncStep
    /\ sync.pc = "merged"
    /\ \E T \in Batches({b \in WithRemote : blob[b].path = NoPath}) :
          sync' = [sync EXCEPT
                      !.pc = "fetch",
                      !.todo = {<<b, NoPath>> : b \in T},
                      !.due = {b \in WithRemote : Missing(blob[b].path) /\ remote[b] = "whole"}]
    /\ UNCHANGED <<item, blob, file, remote, cleaner, revived, imports>>

ListMissing ==
    /\ SyncStep
    /\ sync.pc = "merged"
    /\ \E T \in Batches(WithRemote) :
          sync' = [sync EXCEPT
                      !.pc = "fetch",
                      !.todo = {<<b, blob[b].path>> : b \in {c \in T : Missing(blob[c].path)}},
                      !.due = {b \in WithRemote : Missing(blob[b].path) /\ remote[b] = "whole"}]
    /\ UNCHANGED <<item, blob, file, remote, cleaner, revived, imports>>

Done(pc, b) == sync' = [sync EXCEPT !.pc = pc, !.cur = NoItem,
                                    !.todo = {e \in sync.todo : e[1] # b}]

\* download_missing_image_blobs: a blob that is not there is skipped; a torn one
\* fails the import.
Fetch ==
    /\ SyncStep
    /\ sync.pc = "fetch"
    /\ \E e \in sync.todo :
          \/ remote[e[1]] = "none" /\ Done("fetch", e[1]) /\ UNCHANGED <<file, cleaner>>
          \/ remote[e[1]] = "torn" /\ sync' = SyncIdle /\ UNCHANGED <<file, cleaner>>
          \/ /\ remote[e[1]] = "whole"
             /\ file' = [file EXCEPT ![Download(e[1])] = "new"]
             /\ cleaner' = [cleaner EXCEPT !.stale = @ \ {Download(e[1])}]
             /\ sync' = [sync EXCEPT !.pc = "wrote", !.cur = e[1]]
    /\ UNCHANGED <<item, blob, remote, revived, imports>>

MutRecordFetched ==
    /\ SyncStep
    /\ sync.pc = "wrote"
    /\ blob' = [blob EXCEPT ![sync.cur].path = Download(sync.cur),
                            ![sync.cur].status = "downloaded"]
    /\ Done("fetch", sync.cur)
    /\ UNCHANGED <<item, file, remote, cleaner, revived, imports>>

\* write_downloaded_blob, after fs::write.
RecordFetched ==
    /\ SyncStep
    /\ sync.pc = "wrote"
    /\ blob' = [blob EXCEPT ![sync.cur].path = Download(sync.cur),
                            ![sync.cur].status = "synced"]
    /\ Done("fetch", sync.cur)
    /\ UNCHANGED <<item, file, remote, cleaner, revived, imports>>

EndImport ==
    /\ SyncStep
    /\ sync.pc = "fetch" /\ sync.todo = {}
    /\ sync' = [sync EXCEPT !.pc = "fetched"]
    /\ UNCHANGED <<item, blob, file, remote, cleaner, revived, imports>>

Uploadable == {b \in Blobs : /\ blob[b].row /\ ~blob[b].deleted
                             /\ blob[b].path # NoPath
                             /\ ~blob[b].remote \/ blob[b].status = "pending"}

\* load_uploadable_blobs, of an export that follows an import or stands alone.
ListUploadable ==
    /\ SyncStep
    /\ sync.pc \in {"idle", "fetched"}
    /\ \E T \in Batches(Uploadable) :
          /\ T # {}
          /\ sync' = [SyncIdle EXCEPT !.pc = "send", !.todo = {<<b, blob[b].path>> : b \in T}]
    /\ UNCHANGED <<item, blob, file, remote, cleaner, revived, imports>>

\* build_remote_blob_envelope fails, and with it the export, if the file is gone;
\* what is on the remote storage already, torn or whole, is not written again.
Send ==
    /\ SyncStep
    /\ sync.pc = "send"
    /\ \E e \in sync.todo :
          \/ file[e[2]] = "none" /\ sync' = SyncIdle /\ UNCHANGED remote
          \/ /\ file[e[2]] # "none" /\ remote[e[1]] = "none"
             /\ remote' = [remote EXCEPT ![e[1]] = "torn"]
             /\ sync' = [sync EXCEPT !.pc = "sending", !.cur = e[1]]
          \/ /\ file[e[2]] # "none" /\ remote[e[1]] # "none"
             /\ sync' = [sync EXCEPT !.pc = "sent", !.cur = e[1]]
             /\ UNCHANGED remote
    /\ UNCHANGED <<item, blob, file, cleaner, revived, imports>>

EndWrite ==
    /\ SyncStep
    /\ sync.pc = "sending"
    /\ remote' = [remote EXCEPT ![sync.cur] = "whole"]
    /\ sync' = [sync EXCEPT !.pc = "sent"]
    /\ UNCHANGED <<item, blob, file, cleaner, revived, imports>>

MarkUploaded ==
    /\ SyncStep
    /\ sync.pc = "sent"
    /\ blob' = [blob EXCEPT ![sync.cur].remote = TRUE, ![sync.cur].status = "synced"]
    /\ Done("send", sync.cur)
    /\ UNCHANGED <<item, file, remote, cleaner, revived, imports>>

\* The package is written; mark_sync_exported settles the deleted blobs.
EndExport ==
    /\ SyncStep
    /\ sync.pc \in {"send", "fetched"} /\ sync.todo = {}
    /\ sync.pc = "fetched" => Uploadable = {}
    /\ blob' = [b \in Blobs |-> IF blob[b].deleted THEN [blob[b] EXCEPT !.status = "synced"]
                                ELSE blob[b]]
    /\ sync' = SyncIdle
    /\ UNCHANGED <<item, file, remote, cleaner, revived, imports>>

\* Any storage call of the cycle may fail; a write that fails has left a torn file.
Fail ==
    /\ SyncStep
    /\ sync.pc \in {"fetch", "send", "sending", "fetched"}
    /\ sync' = SyncIdle
    /\ UNCHANGED <<item, blob, file, remote, cleaner, revived, imports>>

-----------------------------------------------------------------------------

\* The program ends at any point and is started again.
Restart ==
    /\ Fault(TRUE)
    /\ worker' = WorkerIdle /\ cleaner' = CleanerWaits /\ sync' = SyncIdle
    /\ UNCHANGED <<rows, file, remote, used, revived, imports>>

Clean == \/ StartCleanup \/ RemoveListedFile \/ ClearFormatPath \/ ListBlobs \/ ClearBlobPath
         \/ ListLive \/ SweepImages \/ SweepSyncImages
SyncNext == \/ Import \/ ListMissing \/ Fetch \/ RecordFetched \/ EndImport
            \/ ListUploadable \/ Send \/ EndWrite \/ MarkUploaded \/ EndExport \/ Fail

Next ==
    \/ \E i \in Captured : StoreImage(i)
    \/ InsertRow \/ InsertFormat \/ PrepareBlobs \/ InsertBlob \/ IngestFails
    \/ \E i \in Items : Delete(i)
    \/ HourPasses
    \/ \E b \in Blobs : ItemOf[b] \in Received /\ PeerUpload(b)
    \/ Clean \/ SyncNext \/ Restart

Spec == Init /\ [][Next]_vars

-----------------------------------------------------------------------------
(* Properties *)

\* An image that was copied here and never deleted keeps the file its row names, and
\* is shown from it, although the sweep reads the live ids before it walks the directories and the
\* worker writes the file before the row (blob_cleanup_service.rs:161, 201).
CapturedFileKept ==
    \A i \in Captured : item[i] = "live" /\ format[i] = "path" /\ i \notin revived
                        => Shown(i) = Image(i)

\* A blob to upload whose file is gone fails every export.  That can only be the
\* blob of a deleted item, whose path the next cleanup clears, of one that came
\* back after its file was removed, or a swept download of which an older package
\* says that it was never uploaded (remote_sync_service.rs:534).
OnlyDeletedBlocksExport ==
    \A b \in Uploadable : Missing(blob[b].path) =>
        item[ItemOf[b]] = "deleted" \/ ItemOf[b] \in revived \/ blob[b].path = Download(b)

\* After a cleanup no file is left that was an hour old when it began and whose
\* item was not live from then on, unless its sweep could not remove that file or not
\* read its directory.  So nothing leaks a file for good: neither a crash nor an error
\* in an ingest, nor a removal that failed before while the path was cleared all the
\* same (blob_cleanup_service.rs:104, 212): every later sweep tries again.
DeadFilesReclaimed ==
    cleaner.pc = "done" => \A p \in cleaner.stale : file[p] = "none" \/ p \in cleaner.left

\* An import that ends has fetched every blob that was missing here and whole on
\* the storage, if there are no more blobs than the limit of the list
\* (sync_blob_service.rs:120); unless the item is deleted or the cleanup is about
\* to drop the path of its former file (blob_cleanup_service.rs:111).
MissingBlobsFetched ==
    sync.pc = "fetched" /\ Cardinality(Blobs) <= Limit =>
        \A b \in sync.due : \/ ~Missing(blob[b].path)
                            \/ item[ItemOf[b]] = "deleted" \/ blob[b].deleted
                            \/ ItemOf[b] \in revived

\* What the comment at blob_cleanup_service.rs:149-151 promises: the sweep removes
\* only files that no live row references.
DownloadedFileKept ==
    \A b \in Blobs : /\ ItemOf[b] \in Live \ revived
                     /\ blob[b].path = Download(b) /\ ~blob[b].deleted
                     => file[Download(b)] # "none"
=============================================================================
