--------------------------- MODULE BlobFilesProofs ----------------------------
(***************************************************************************)
(* The image files, for all items, any number of blobs, packages and       *)
(* faults and every limit of the lists: the file of an image that was      *)
(* copied here stays (CapturedFileKept), so that only the blobs of deleted *)
(* items and downloads can block an export (OnlyDeletedBlocksExport); dead *)
(* files go unless the sweep cannot remove them                            *)
(* (DeadFilesReclaimed); what an import had to fetch is fetched            *)
(* (MissingBlobsFetched).                                                  *)
(*                                                                         *)
(* The invariant Kept is what the actors rely on without a lock: the       *)
(* cleanup has only listed items that were deleted, a path names the item  *)
(* it belongs to, and a file without a row is younger than an hour.  The   *)
(* further ones rest on it: Sourced and Written (who writes which file),   *)
(* Dead, VariantKept and Fetched.                                          *)
(***************************************************************************)
EXTENDS BlobFiles, FiniteSetTheorems, TLAPS

(* Types *)

\* An actor in the middle of something knows the item.
Named ==
    /\ worker.pc # "idle" => worker.id \in Captured
    /\ sync.pc = "wrote" => sync.cur \in Blobs

Typed == TypeOK /\ Named

LEMMA PathType ==
    /\ \A i \in Items : Image(i) \in Paths /\ Image(i) # NoPath
    /\ \A b \in Blobs : /\ Variant(b) \in Paths /\ Variant(b) # NoPath
                        /\ Download(b) \in Paths /\ Download(b) # NoPath
                        /\ ItemOf[b] \in Items
BY BlobFilesAssumption DEF Image, Variant, Download, Paths

\* A step that may go wrong stays within the bound.
LEMMA FaultType == ASSUME TypeOK, NEW wrong \in BOOLEAN, Fault(wrong) PROVE faults' \in 0..MaxFaults
<1>1. faults' = faults + 1 \/ faults' = faults
  BY DEF Fault
<1>2. faults' <= MaxFaults /\ faults \in Nat
  BY BlobFilesAssumption DEF Fault, TypeOK
<1> QED BY <1>1, <1>2, BlobFilesAssumption

LEMMA TypeStart == Init => Typed
<1> SUFFICES ASSUME Init PROVE TypeOK /\ Named
  BY DEF Typed
<1> USE DEF Named
<1>1. PICK here \in SUBSET Received :
        /\ item = [i \in Items |-> IF i \in here THEN "live" ELSE "none"]
        /\ blob = [b \in Blobs |-> IF ItemOf[b] \notin here THEN NoBlob
                                  ELSE [row |-> TRUE, path |-> Download(b), remote |-> TRUE,
                                        status |-> "synced", deleted |-> FALSE]]
        /\ file = [p \in Paths |-> IF p[1] = "download" /\ Owner(p) \in here
                                   THEN "new" ELSE "none"]
        /\ remote = [b \in Blobs |-> IF ItemOf[b] \in here THEN "whole" ELSE "none"]
  BY DEF Init
<1>2. NoBlob \in Blob
  BY DEF NoBlob, Blob
<1>3. \A b \in Blobs : [row |-> TRUE, path |-> Download(b), remote |-> TRUE,
                       status |-> "synced", deleted |-> FALSE] \in Blob
  BY PathType DEF Blob
<1>4. blob \in [Blobs -> Blob]
  BY <1>1, <1>2, <1>3
<1>5. worker \in Worker /\ cleaner \in Cleaner /\ sync \in Sync
  BY DEF Init, WorkerIdle, Worker, CleanerWaits, Cleaner, SyncIdle, Sync
<1> QED BY <1>1, <1>4, <1>5, BlobFilesAssumption DEF Init, TypeOK, WorkerIdle, SyncIdle

\* What the blobs of an item are to be: entries of blobs with paths.
LEMMA InsertNextType ==
    ASSUME TypeOK, Named, worker.pc # "idle", NEW todo \in SUBSET (Blobs \X Paths), InsertNext(todo)
    PROVE  /\ worker' \in Worker
           /\ worker'.pc # "idle" => worker'.id \in Captured
           /\ \/ worker'.pc = "idle"
              \/ worker'.pc = "insert" /\ worker'.id = worker.id /\ worker'.todo = todo
<1>1. worker \in Worker /\ worker.id \in Captured
  BY DEF TypeOK, Named
<1>2. WorkerIdle \in Worker /\ WorkerIdle.pc = "idle"
  BY DEF WorkerIdle, Worker
<1>3. CASE todo = {}
  BY <1>2, <1>3 DEF InsertNext
<1>4. CASE todo # {}
  <2>1. worker' = [worker EXCEPT !.pc = "insert", !.todo = todo]
    BY <1>4 DEF InsertNext
  <2> QED BY <1>1, <2>1 DEF Worker
<1> QED BY <1>3, <1>4

\* What the next blobs are, and which files they have.
Variants(S) == {Variant(b) : b \in S}
Todo(made, variants) ==
    {<<b, IF b \in variants THEN Variant(b) ELSE Image(worker.id)>> : b \in made}

LEMMA TodoType ==
    ASSUME worker.id \in Items, NEW made \in SUBSET Blobs, NEW variants \in SUBSET Blobs
    PROVE  Todo(made, variants) \in SUBSET (Blobs \X Paths)
BY PathType DEF Todo

LEMMA Preparing ==
    ASSUME PrepareBlobs
    PROVE  \E made, variants \in SUBSET BlobsOf(worker.id) :
              /\ InsertNext(Todo(made, variants))
              /\ file' = [p \in Paths |-> IF p \in Variants(variants) THEN "new" ELSE file[p]]
              /\ Fault(~(variants \subseteq made))
BY DEF PrepareBlobs, Todo, Variants

\* The clipboard worker.
LEMMA TypeWorker ==
    ASSUME TypeOK, Named,
           \/ \E i \in Captured : StoreImage(i)
           \/ InsertRow \/ InsertFormat \/ PrepareBlobs \/ InsertBlob \/ IngestFails
    PROVE  TypeOK' /\ Named'
<1> USE DEF WorkerStep, rows
<1>0. sync.pc = "wrote" => sync.cur \in Blobs
  BY DEF Named
<1>a. ASSUME Fault(FALSE) \/ Fault(TRUE) PROVE faults' \in 0..MaxFaults
  BY <1>a, FaultType
<1>1. ASSUME NEW i \in Captured, StoreImage(i) PROVE TypeOK' /\ Named'
  <2>1. worker' \in Worker /\ worker'.id \in Captured
    BY <1>1 DEF StoreImage, TypeOK, Worker, Items
  <2> QED BY <1>0, <1>a, <1>1, <2>1 DEF StoreImage, TypeOK, Named
<1>2. CASE InsertRow
  <2>1. worker' \in Worker /\ worker'.id \in Captured
    BY <1>2 DEF InsertRow, TypeOK, Worker, Named
  <2> QED BY <1>0, <1>a, <1>2, <2>1 DEF InsertRow, TypeOK, Named
<1>3. CASE InsertFormat
  <2>1. worker' \in Worker /\ worker'.id \in Captured
    BY <1>3 DEF InsertFormat, TypeOK, Worker, Named
  <2> QED BY <1>0, <1>a, <1>3, <2>1 DEF InsertFormat, TypeOK, Named
<1>4. CASE PrepareBlobs
  <2>1. worker.pc = "blobs" /\ worker.id \in Items
    BY <1>4 DEF PrepareBlobs, Named, Items
  <2>2. PICK made \in SUBSET BlobsOf(worker.id), variants \in SUBSET BlobsOf(worker.id) :
              /\ InsertNext(Todo(made, variants))
              /\ file' = [p \in Paths |-> IF p \in Variants(variants) THEN "new" ELSE file[p]]
              /\ Fault(~(variants \subseteq made))
    BY <1>4, Preparing
  <2>3. worker' \in Worker /\ (worker'.pc # "idle" => worker'.id \in Captured)
    BY <2>1, <2>2, TodoType, InsertNextType DEF BlobsOf
  <2>4. file' \in [Paths -> {"none", "new", "old"}]
    BY <2>2 DEF TypeOK
  <2>5. faults' \in 0..MaxFaults
    BY <2>2, FaultType
  <2> QED BY <1>0, <1>4, <2>3, <2>4, <2>5 DEF PrepareBlobs, TypeOK, Named
<1>5. CASE InsertBlob
  <2>1. PICK e \in worker.todo :
          /\ blob' = [blob EXCEPT ![e[1]] = [NoBlob EXCEPT !.row = TRUE, !.path = e[2]]]
          /\ InsertNext(worker.todo \ {e})
    BY <1>5 DEF InsertBlob
  <2>2. worker.todo \in SUBSET (Blobs \X Paths) /\ worker.pc # "idle"
    BY <1>5 DEF InsertBlob, TypeOK, Worker
  <2>3. worker' \in Worker /\ (worker'.pc # "idle" => worker'.id \in Captured)
    BY <2>1, <2>2, InsertNextType
  <2>4. e[2] \in Paths
    BY <2>2
  <2>5. [NoBlob EXCEPT !.row = TRUE, !.path = e[2]] \in Blob
    BY <2>4 DEF NoBlob, Blob
  <2>6. blob' \in [Blobs -> Blob]
    BY <2>1, <2>5 DEF TypeOK
  <2> QED BY <1>0, <1>a, <1>5, <2>3, <2>6 DEF InsertBlob, TypeOK, Named
<1>6. CASE IngestFails
  <2>1. worker' \in Worker /\ worker'.pc = "idle"
    BY <1>6 DEF IngestFails, WorkerIdle, Worker
  <2> QED BY <1>0, <1>a, <1>6, <2>1 DEF IngestFails, TypeOK, Named
<1> QED BY <1>1, <1>2, <1>3, <1>4, <1>5, <1>6

\* The user, the clock, the other devices and a restart.
LEMMA TypeOthers ==
    ASSUME TypeOK, Named,
           \/ \E i \in Items : Delete(i)
           \/ HourPasses
           \/ \E b \in Blobs : PeerUpload(b)
           \/ Restart
    PROVE  TypeOK' /\ Named'
<1> USE DEF Named, rows
<1>1. ASSUME NEW i \in Items, Delete(i) PROVE TypeOK' /\ Named'
  <2>1. \A b \in Blobs : blob[b] \in Blob /\ [blob[b] EXCEPT !.deleted = TRUE, !.status = "pending"] \in Blob
    BY DEF TypeOK, Blob
  <2>2. blob' \in [Blobs -> Blob]
    BY <1>1, <2>1 DEF Delete
  <2> QED BY <1>1, <2>2 DEF Delete, TypeOK
<1>2. CASE HourPasses
  BY <1>2 DEF HourPasses, TypeOK
<1>3. ASSUME NEW b \in Blobs, PeerUpload(b) PROVE TypeOK' /\ Named'
  BY <1>3 DEF PeerUpload, TypeOK
<1>4. CASE Restart
  <2>1. worker' \in Worker /\ cleaner' \in Cleaner /\ sync' \in Sync /\ Named'
    BY <1>4 DEF Restart, WorkerIdle, Worker, CleanerWaits, Cleaner, SyncIdle, Sync
  <2>2. faults' \in 0..MaxFaults
    BY <1>4, FaultType DEF Restart
  <2> QED BY <1>4, <2>1, <2>2 DEF Restart, TypeOK
<1> QED BY <1>1, <1>2, <1>3, <1>4

\* The cleanup.
LEMMA TypeClean == TypeOK /\ Named /\ Clean => TypeOK' /\ Named'
<1> SUFFICES ASSUME TypeOK, Named, Clean PROVE TypeOK' /\ Named'
  OBVIOUS
<1> USE DEF CleanerStep, Named
<1>1. ASSUME cleaner' \in Cleaner, format' \in [Items -> {"none", "path", "cleared"}],
             blob' \in [Blobs -> Blob], file' \in [Paths -> {"none", "new", "old"}],
             Fault(FALSE) \/ Fault(TRUE), CleanerStep
      PROVE  TypeOK' /\ Named'
  BY <1>1, FaultType DEF TypeOK
<1>2. cleaner \in Cleaner /\ format \in [Items -> {"none", "path", "cleared"}]
      /\ blob \in [Blobs -> Blob] /\ file \in [Paths -> {"none", "new", "old"}]
  BY DEF TypeOK
<1>3. CASE StartCleanup
  <2>1. {<<i, Image(i)>> : i \in {j \in Items : item[j] = "deleted" /\ format[j] = "path"}}
          \in SUBSET Listed
    BY PathType DEF Listed
  <2>2. cleaner' \in Cleaner
    BY <1>2, <1>3, <2>1 DEF StartCleanup, Cleaner
  <2> QED BY <1>1, <1>2, <1>3, <2>2 DEF StartCleanup
<1>4. CASE RemoveListedFile
  <2>1. PICK e \in cleaner.todo :
          /\ file' \in {file, [file EXCEPT ![e[2]] = "none"]}
          /\ Fault(file'[e[2]] # "none")
          /\ cleaner' = [cleaner EXCEPT !.cur = e[1],
                            !.pc = IF cleaner.pc = "formats" THEN "formatGone" ELSE "blobGone"]
    BY <1>4 DEF RemoveListedFile
  <2>2. e \in Listed /\ e[1] \in Items \cup Blobs
    BY <1>2, <2>1 DEF Cleaner, Listed
  <2>3. cleaner' \in Cleaner
    BY <1>2, <2>1, <2>2 DEF Cleaner
  <2>4. file' \in [Paths -> {"none", "new", "old"}]
    BY <1>2, <2>1
  <2>5. Fault(FALSE) \/ Fault(TRUE)
    BY <2>1
  <2> QED BY <1>1, <1>2, <1>4, <2>3, <2>4, <2>5 DEF RemoveListedFile
<1>5. ASSUME NEW pc \in {"formats", "blobs"}, Handled(pc) PROVE cleaner' \in Cleaner
  <2>1. {e \in cleaner.todo : e[1] # cleaner.cur} \in SUBSET Listed
    BY <1>2 DEF Cleaner
  <2> QED BY <1>2, <1>5, <2>1 DEF Handled, Cleaner
<1>6. CASE ClearFormatPath
  BY <1>1, <1>2, <1>5, <1>6 DEF ClearFormatPath
<1>7. CASE ListBlobs
  <2>1. \A b \in Blobs : blob[b].path # NoPath => blob[b].path \in Paths
    BY <1>2 DEF Blob
  <2>2. {<<b, blob[b].path>> : b \in {c \in Blobs : item[ItemOf[c]] = "deleted"
                                           /\ blob[c].path # NoPath}}
          \in SUBSET Listed
    BY <2>1 DEF Listed
  <2>3. cleaner' \in Cleaner
    BY <1>2, <1>7, <2>2 DEF ListBlobs, Cleaner
  <2> QED BY <1>1, <1>2, <1>7, <2>3 DEF ListBlobs
<1>8. CASE ClearBlobPath
  <2>1. \A b \in Blobs : [blob[b] EXCEPT !.path = NoPath] \in Blob
    BY <1>2 DEF Blob
  <2>2. blob' \in [Blobs -> Blob]
    BY <1>2, <1>8, <2>1 DEF ClearBlobPath
  <2> QED BY <1>1, <1>2, <1>5, <1>8, <2>2 DEF ClearBlobPath
<1>9. CASE ListLive
  <2>1. cleaner' \in Cleaner
    BY <1>2, <1>9 DEF ListLive, Cleaner, Live
  <2> QED BY <1>1, <1>2, <1>9, <2>1 DEF ListLive
<1>10. ASSUME NEW kinds, NEW from, NEW to \in {"sweep", "done"}, Sweep(kinds, from, to)
       PROVE  TypeOK' /\ Named'
  <2>1. PICK stays \in SUBSET Swept(kinds) :
          /\ file' = [p \in Paths |-> IF p \in Swept(kinds) \ stays THEN "none" ELSE file[p]]
          /\ cleaner' = [cleaner EXCEPT !.pc = to, !.left = @ \cup stays]
          /\ Fault(stays # {})
    BY <1>10 DEF Sweep
  <2>2. cleaner' \in Cleaner
    BY <1>2, <2>1 DEF Swept, Cleaner
  <2>3. file' \in [Paths -> {"none", "new", "old"}]
    BY <1>2, <2>1
  <2>4. Fault(FALSE) \/ Fault(TRUE)
    BY <2>1
  <2> QED BY <1>1, <1>2, <1>10, <2>2, <2>3, <2>4 DEF Sweep
<1> QED BY <1>3, <1>4, <1>6, <1>7, <1>8, <1>9, <1>10 DEF Clean, SweepImages, SweepSyncImages

\* The sync cycle.
LEMMA UpsertedType ==
    ASSUME NEW b \in Blob, NEW r \in BOOLEAN, NEW st \in {"pending", "synced"}, NEW d \in BOOLEAN
    PROVE  Upserted(b, r, st, d) \in Blob /\ Upserted(b, r, st, d).path \in {b.path, NoPath}
<1>1. CASE b.row
  <2>1. /\ (IF b.status = "pending" \/ b.path # NoPath THEN b.status ELSE st) \in {"pending", "synced"}
        /\ ((b.status = "pending" /\ b.deleted) \/ d) \in BOOLEAN
    BY DEF Blob
  <2> DEFINE x == IF b.status = "pending" \/ b.path # NoPath THEN b.status ELSE st
             y == (b.status = "pending" /\ b.deleted) \/ d
  <2>2. Upserted(b, r, st, d) = [b EXCEPT !.remote = r, !.status = x, !.deleted = y]
    BY <1>1 DEF Upserted
  <2>3. x \in {"pending", "synced"} /\ y \in BOOLEAN
    BY <2>1
  <2> HIDE DEF x, y
  <2>4. [b EXCEPT !.remote = r, !.status = x, !.deleted = y] \in Blob
    BY <2>3, Zenon DEF Blob
  <2>5. [b EXCEPT !.remote = r, !.status = x, !.deleted = y].path = b.path
    BY DEF Blob
  <2> QED BY <2>2, <2>4, <2>5
<1>2. CASE ~b.row
  <2>1. Upserted(b, r, st, d) = [row |-> TRUE, path |-> NoPath, remote |-> r, status |-> st, deleted |-> d]
    BY <1>2 DEF Upserted
  <2>2. [row |-> TRUE, path |-> NoPath, remote |-> r, status |-> st, deleted |-> d] \in Blob
    BY Zenon DEF Blob
  <2>3. [row |-> TRUE, path |-> NoPath, remote |-> r, status |-> st, deleted |-> d].path = NoPath
    OBVIOUS
  <2> QED BY <2>1, <2>2, <2>3
<1> QED BY <1>1, <1>2

LEMMA PackageType ==
    ASSUME TypeOK, NEW i \in Items, NEW d \in BOOLEAN, BlobsOfPackage(i, d)
    PROVE  /\ blob' \in [Blobs -> Blob]
           /\ \A b \in Blobs : blob'[b].path \in {blob[b].path, NoPath}
<1>1. blob \in [Blobs -> Blob]
  BY DEF TypeOK
<1>2. \A b \in Blobs : /\ Upserted(blob[b], TRUE, "synced", d) \in Blob
                       /\ Upserted(blob[b], TRUE, "synced", d).path \in {blob[b].path, NoPath}
                       /\ Upserted(blob[b], FALSE, "pending", d) \in Blob
                       /\ Upserted(blob[b], FALSE, "pending", d).path \in {blob[b].path, NoPath}
  BY <1>1, UpsertedType
<1>3. PICK up \in SUBSET BlobsOf(i), owed \in SUBSET BlobsOf(i) :
        blob' = [b \in Blobs |-> IF b \in up THEN Upserted(blob[b], TRUE, "synced", d)
                                ELSE IF b \in owed THEN Upserted(blob[b], FALSE, "pending", d)
                                ELSE blob[b]]
  BY DEF BlobsOfPackage
<1> QED BY <1>1, <1>2, <1>3

\* What a merge does to the rows.
LEMMA ImportEffect ==
    ASSUME TypeOK, Import
    PROVE  /\ item' \in [Items -> {"none", "live", "deleted"}]
           /\ blob' \in [Blobs -> Blob]
           /\ revived \subseteq revived' /\ revived' \subseteq Items
           /\ \A b \in Blobs : blob'[b].path \in {blob[b].path, NoPath}
           /\ \A j \in Items : /\ item'[j] # item[j] =>
                                    \/ item[j] = "none" /\ j \in Received
                                    \/ item[j] = "live" /\ item'[j] = "deleted"
                                    \/ item[j] = "deleted" /\ item'[j] = "live" /\ j \in revived'
                               /\ j \in revived' \ revived => item[j] = "deleted"
<1> USE DEF TypeOK
<1>1. PICK i \in Items :
        \/ /\ item[i] = "none" /\ i \in Received
           /\ item' = [item EXCEPT ![i] = "live"]
           /\ BlobsOfPackage(i, FALSE)
           /\ UNCHANGED revived
        \/ /\ item[i] = "live"
           /\ item' = [item EXCEPT ![i] = "deleted"]
           /\ BlobsOfPackage(i, TRUE)
           /\ UNCHANGED revived
        \/ /\ item[i] = "deleted"
           /\ item' = [item EXCEPT ![i] = "live"]
           /\ BlobsOfPackage(i, FALSE)
           /\ revived' = revived \cup {i}
        \/ /\ item[i] # "none"
           /\ BlobsOfPackage(i, item[i] = "deleted")
           /\ UNCHANGED <<item, revived>>
  BY DEF Import
<1>2. PICK d \in BOOLEAN : BlobsOfPackage(i, d)
  BY <1>1
<1>3. blob' \in [Blobs -> Blob] /\ \A b \in Blobs : blob'[b].path \in {blob[b].path, NoPath}
  BY <1>2, PackageType
<1> QED BY <1>1, <1>3

LEMMA TypeSync == TypeOK /\ Named /\ SyncNext => TypeOK' /\ Named'
<1> SUFFICES ASSUME TypeOK, Named, SyncNext PROVE TypeOK' /\ Named'
  OBVIOUS
<1> USE DEF SyncStep
<1>0. /\ sync \in Sync /\ cleaner \in Cleaner /\ blob \in [Blobs -> Blob]
      /\ remote \in [Blobs -> {"none", "torn", "whole"}]
      /\ SyncIdle \in Sync /\ SyncIdle.pc = "idle"
  BY DEF TypeOK, SyncIdle, Sync
<1>1. ASSUME NEW x \in Sync, sync' = x, x.pc # "wrote", UNCHANGED <<item, file, cleaner, revived, imports>>,
             blob' \in [Blobs -> Blob], remote' \in [Blobs -> {"none", "torn", "whole"}], SyncStep
      PROVE  TypeOK' /\ Named'
  BY <1>1 DEF TypeOK, Named
<1>2. CASE Import
  <2>1. sync' \in Sync /\ sync'.pc = "merged"
    BY <1>0, <1>2 DEF Import, Sync
  <2>2. cleaner' \in Cleaner
    BY <1>0, <1>2 DEF Import, Cleaner
  <2>3. imports' \in 0..MaxImports
    BY <1>2, BlobFilesAssumption DEF Import, TypeOK
  <2> QED BY <1>2, <2>1, <2>2, <2>3, ImportEffect DEF Import, TypeOK, Named
<1>3. CASE ListMissing
  <2>1. PICK T \in Batches(WithRemote) :
          sync' = [sync EXCEPT
                      !.pc = "fetch",
                      !.todo = {<<b, blob[b].path>> : b \in {c \in T : Missing(blob[c].path)}},
                      !.due = {b \in WithRemote : Missing(blob[b].path) /\ remote[b] = "whole"}]
    BY <1>3 DEF ListMissing
  <2> DEFINE todo == {<<b, blob[b].path>> : b \in {c \in T : Missing(blob[c].path)}}
             due == {b \in WithRemote : Missing(blob[b].path) /\ remote[b] = "whole"}
  <2>2. todo \in SUBSET (Blobs \X (Paths \cup {NoPath})) /\ due \in SUBSET Blobs
    BY <1>0, <2>1 DEF Batches, WithRemote, Blob
  <2>3. sync' = [sync EXCEPT !.pc = "fetch", !.todo = todo, !.due = due]
    BY <2>1
  <2> HIDE DEF todo, due
  <2>4. sync' \in Sync /\ sync'.pc = "fetch"
    BY <1>0, <2>2, <2>3 DEF Sync
  <2> QED BY <1>0, <1>1, <1>3, <2>4 DEF ListMissing
<1>4. ASSUME NEW pc \in {"fetch", "send"}, NEW b, Done(pc, b) PROVE sync' \in Sync /\ sync'.pc = pc
  <2>1. {e \in sync.todo : e[1] # b} \in SUBSET (Blobs \X (Paths \cup {NoPath}))
    BY <1>0 DEF Sync
  <2> QED BY <1>0, <1>4, <2>1 DEF Done, Sync
<1>5. CASE Fetch
  <2>1. PICK e \in sync.todo :
          \/ Done("fetch", e[1]) /\ UNCHANGED <<file, cleaner>>
          \/ sync' = SyncIdle /\ UNCHANGED <<file, cleaner>>
          \/ /\ file' = [file EXCEPT ![Download(e[1])] = "new"]
             /\ cleaner' = [cleaner EXCEPT !.stale = @ \ {Download(e[1])}]
             /\ sync' = [sync EXCEPT !.pc = "wrote", !.cur = e[1]]
    BY <1>5 DEF Fetch
  <2>2. e[1] \in Blobs
    BY <1>0 DEF Sync
  <2>3. CASE sync' = [sync EXCEPT !.pc = "wrote", !.cur = e[1]] /\ ~UNCHANGED <<file, cleaner>>
    <3>1. sync' \in Sync /\ sync'.cur \in Blobs
      BY <1>0, <2>2, <2>3 DEF Sync
    <3>2. cleaner' = cleaner \/ cleaner' = [cleaner EXCEPT !.stale = @ \ {Download(e[1])}]
      BY <2>1
    <3>3. cleaner' \in Cleaner
      BY <1>0, <3>2 DEF Cleaner
    <3>4. file' \in [Paths -> {"none", "new", "old"}]
      BY <2>1 DEF TypeOK
    <3> QED BY <1>5, <3>1, <3>3, <3>4 DEF Fetch, TypeOK, Named
  <2>4. CASE UNCHANGED <<file, cleaner>>
    <3>1. sync' \in Sync /\ (sync'.pc = "wrote" => sync'.cur \in Blobs)
      <4>1. CASE sync' = [sync EXCEPT !.pc = "wrote", !.cur = e[1]]
        BY <1>0, <2>2, <4>1 DEF Sync
      <4> QED BY <1>0, <1>4, <2>1, <4>1
    <3> QED BY <1>5, <2>4, <3>1 DEF Fetch, TypeOK, Named
  <2>5. (Done("fetch", e[1]) /\ UNCHANGED <<file, cleaner>>) \/ (sync' = SyncIdle /\ UNCHANGED <<file, cleaner>>)
        \/ sync' = [sync EXCEPT !.pc = "wrote", !.cur = e[1]]
    BY <2>1
  <2> QED BY <2>3, <2>4, <2>5
<1>6. CASE RecordFetched
  <2>1. Download(sync.cur) \in Paths
    BY <1>6, PathType DEF RecordFetched, Named
  <2>2. \A b \in Blobs : [blob[b] EXCEPT !.path = Download(sync.cur), !.status = "synced"] \in Blob
    BY <1>0, <2>1 DEF Blob
  <2>3. blob' \in [Blobs -> Blob]
    BY <1>0, <1>6, <2>2 DEF RecordFetched
  <2> QED BY <1>0, <1>1, <1>4, <1>6, <2>3 DEF RecordFetched
<1>7. CASE EndImport
  <2>1. sync' \in Sync /\ sync'.pc = "fetched"
    BY <1>0, <1>7 DEF EndImport, Sync
  <2> QED BY <1>0, <1>1, <1>7, <2>1 DEF EndImport
<1>8. CASE ListUploadable
  <2>1. PICK T \in Batches(Uploadable) :
          sync' = [SyncIdle EXCEPT !.pc = "send", !.todo = {<<b, blob[b].path>> : b \in T}]
    BY <1>8 DEF ListUploadable
  <2>2. {<<b, blob[b].path>> : b \in T} \in SUBSET (Blobs \X (Paths \cup {NoPath}))
    BY <1>0, <2>1 DEF Batches, Uploadable, Blob
  <2>3. sync' \in Sync /\ sync'.pc = "send"
    BY <1>0, <2>1, <2>2 DEF Sync
  <2> QED BY <1>0, <1>1, <1>8, <2>3 DEF ListUploadable
<1>9. CASE Send
  <2>1. PICK e \in sync.todo :
          \/ sync' = SyncIdle /\ UNCHANGED remote
          \/ /\ remote' = [remote EXCEPT ![e[1]] = "torn"]
             /\ sync' = [sync EXCEPT !.pc = "sending", !.cur = e[1]]
          \/ sync' = [sync EXCEPT !.pc = "sent", !.cur = e[1]] /\ UNCHANGED remote
    BY <1>9 DEF Send
  <2>2. e[1] \in Blobs
    BY <1>0 DEF Sync
  <2>3. sync' \in Sync /\ sync'.pc # "wrote"
    BY <1>0, <2>1, <2>2 DEF Sync
  <2>4. remote' \in [Blobs -> {"none", "torn", "whole"}]
    BY <1>0, <2>1
  <2> QED BY <1>0, <1>1, <1>9, <2>3, <2>4 DEF Send
<1>10. CASE EndWrite
  <2>1. sync' \in Sync /\ sync'.pc = "sent"
    BY <1>0, <1>10 DEF EndWrite, Sync
  <2> QED BY <1>0, <1>1, <1>10, <2>1 DEF EndWrite
<1>11. CASE MarkUploaded
  <2>1. \A b \in Blobs : [blob[b] EXCEPT !.remote = TRUE, !.status = "synced"] \in Blob
    BY <1>0 DEF Blob
  <2>2. blob' \in [Blobs -> Blob]
    BY <1>0, <1>11, <2>1 DEF MarkUploaded
  <2> QED BY <1>0, <1>1, <1>4, <1>11, <2>2 DEF MarkUploaded
<1>12. CASE EndExport
  <2>1. \A b \in Blobs : [blob[b] EXCEPT !.status = "synced"] \in Blob
    BY <1>0 DEF Blob
  <2>2. blob' \in [Blobs -> Blob]
    BY <1>0, <1>12, <2>1 DEF EndExport
  <2> QED BY <1>0, <1>1, <1>12, <2>2 DEF EndExport
<1>13. CASE Fail
  BY <1>0, <1>1, <1>13 DEF Fail
<1> QED
  BY <1>2, <1>3, <1>5, <1>6, <1>7, <1>8, <1>9, <1>10, <1>11, <1>12, <1>13 DEF SyncNext

LEMMA TypeStep == Typed /\ [Next]_vars => Typed'
<1>1. ASSUME Typed, UNCHANGED vars PROVE Typed'
  BY <1>1 DEF vars, rows, Typed, TypeOK, Named
<1> QED BY <1>1, TypeWorker, TypeOthers, TypeClean, TypeSync DEF Next, Typed

\* Every variable keeps its type.
THEOREM TypeCorrect == Spec => []TypeOK
<1>1. Typed => TypeOK
  BY DEF Typed
<1> QED BY <1>1, TypeStart, TypeStep, PTL DEF Spec

-----------------------------------------------------------------------------
(* The file of a copied image *)

\* What a path says: its kind, and the item it belongs to.
LEMMA Parts ==
    /\ \A i \in Items : Image(i)[1] = "image" /\ Image(i)[2] = i /\ Owner(Image(i)) = i
    /\ \A b \in Blobs : /\ Variant(b)[1] = "variant" /\ Variant(b)[2] = b
                        /\ Owner(Variant(b)) = ItemOf[b]
                        /\ Download(b)[1] = "download" /\ Download(b)[2] = b
                        /\ Owner(Download(b)) = ItemOf[b]
    /\ \A p \in Paths : /\ Owner(p) \in Items /\ p # NoPath
                        /\ p[1] \in {"image", "variant", "download"}
                        /\ p[1] = "image" => p = Image(Owner(p))
                        /\ p[1] = "variant" => p[2] \in Blobs /\ p = Variant(p[2])
                        /\ p[1] = "download" => p[2] \in Blobs /\ p = Download(p[2])
BY BlobFilesAssumption DEF Image, Variant, Download, Paths, Owner

\* A path of a blob is one of the blob's own or the image of its item.
Owned(p, b) == p \in {NoPath, Image(ItemOf[b]), Variant(b), Download(b)}
Paired ==
    /\ \A b \in Blobs : Owned(blob[b].path, b)
    /\ worker.pc = "insert" =>
          \A e \in worker.todo : ItemOf[e[1]] = worker.id /\ e[2] \in {Image(worker.id), Variant(e[1])}

LEMMA OwnerOfPath == ASSUME NEW b \in Blobs, NEW p \in Paths, Owned(p, b) PROVE Owner(p) = ItemOf[b]
BY PathType, Parts DEF Owned

\* Nobody is live a second time without being in revived.
Former(i) == item[i] = "deleted" \/ i \in revived
Ordered ==
    /\ \A i \in Captured : item[i] # "none" => i \in used
    /\ worker.pc # "idle" => worker.id \in used
    /\ worker.pc = "row" => item[worker.id] = "none" /\ file[Image(worker.id)] = "new"
    /\ \A i \in revived : item[i] # "none"
    /\ \A e \in cleaner.todo : Former(Owner(e[2]))

\* The sweep, between reading the live ids and removing the images, takes no file
\* of an item that is live by then.
Spared(i) == i \in cleaner.live \/ file[Image(i)] = "new"
Present ==
    \A i \in Captured : item[i] = "live" /\ i \notin revived =>
        /\ file[Image(i)] # "none"
        /\ cleaner.pc = "live" => Spared(i)

Kept == Paired /\ Ordered /\ Present

LEMMA KeptStart == Init => Kept
<1> SUFFICES ASSUME Init PROVE Kept
  OBVIOUS
<1> USE DEF Init, WorkerIdle, CleanerWaits
<1>1. PICK here \in SUBSET Received :
        /\ item = [i \in Items |-> IF i \in here THEN "live" ELSE "none"]
        /\ blob = [b \in Blobs |-> IF ItemOf[b] \notin here THEN NoBlob
                                  ELSE [row |-> TRUE, path |-> Download(b), remote |-> TRUE,
                                        status |-> "synced", deleted |-> FALSE]]
  OBVIOUS
<1>2. Paired
  BY <1>1 DEF Paired, Owned, NoBlob
<1>3. \A i \in Captured : item[i] = "none"
  BY <1>1, BlobFilesAssumption DEF Items
<1>4. Ordered /\ Present
  BY <1>3 DEF Ordered, Present
<1> QED BY <1>2, <1>4 DEF Kept

\* What is copied here does not come from elsewhere.
LEMMA Apart == Captured \subseteq Items /\ Received \subseteq Items /\ \A i \in Captured : i \notin Received
BY BlobFilesAssumption DEF Items

LEMMA KeptWorker ==
    ASSUME Typed, Kept,
           \/ \E i \in Captured : StoreImage(i)
           \/ InsertRow \/ InsertFormat \/ PrepareBlobs \/ InsertBlob \/ IngestFails
    PROVE  Kept'
<1> USE Apart DEF Typed, TypeOK, Named, Kept, WorkerStep, rows
<1>1. ASSUME NEW i \in Captured, StoreImage(i) PROVE Kept'
  <2>1. /\ worker'.pc = "row" /\ worker'.id = i /\ i \in Items /\ used' = used \cup {i}
        /\ UNCHANGED <<item, format, blob, cleaner, revived>>
    BY <1>1 DEF StoreImage, Worker
  <2>2. item[i] = "none"
    BY <1>1 DEF StoreImage, Ordered
  <2>3. file'[Image(i)] = "new" /\ \A j \in Items : j # i => file'[Image(j)] = file[Image(j)]
    <3>1. \A j \in Items : j # i => Image(j) # Image(i)
      BY DEF Image
    <3> QED BY <1>1, <2>1, <3>1, PathType DEF StoreImage
  <2>4. Paired'
    BY <2>1 DEF Paired, Owned
  <2>5. Ordered'
    BY <2>1, <2>2, <2>3 DEF Ordered, Former
  <2>6. Present'
    BY <2>1, <2>2, <2>3 DEF Present, Spared
  <2> QED BY <2>4, <2>5, <2>6
<1>2. CASE InsertRow
  <2>1. /\ worker.pc = "row" /\ worker'.pc = "format" /\ worker'.id = worker.id
        /\ worker.id \in Captured
        /\ UNCHANGED <<format, blob, cleaner, revived, file, used>>
        /\ item' = [item EXCEPT ![worker.id] = "live"]
    BY <1>2 DEF InsertRow, Worker
  <2>2. Paired'
    BY <2>1 DEF Paired, Owned
  <2>3. Ordered'
    BY <2>1 DEF Ordered, Former
  <2>4. Present'
    BY <2>1 DEF Present, Spared, Ordered
  <2> QED BY <2>2, <2>3, <2>4
<1>3. CASE InsertFormat
  <2>1. /\ worker'.pc = "blobs" /\ worker.pc # "idle" /\ worker'.id = worker.id
        /\ UNCHANGED <<item, blob, cleaner, revived, file, used>>
    BY <1>3 DEF InsertFormat, Worker
  <2> QED BY <2>1 DEF Paired, Owned, Ordered, Former, Present, Spared
<1>4. CASE PrepareBlobs
  <2>1. /\ worker.pc = "blobs" /\ worker.id \in Items
        /\ UNCHANGED <<item, format, blob, cleaner, revived, used>>
    BY <1>4 DEF PrepareBlobs
  <2>2. PICK made \in SUBSET BlobsOf(worker.id), variants \in SUBSET BlobsOf(worker.id) :
              /\ InsertNext(Todo(made, variants))
              /\ file' = [p \in Paths |-> IF p \in Variants(variants) THEN "new" ELSE file[p]]
    BY <1>4, Preparing
  <2>3. /\ worker'.pc # "idle" => worker'.pc = "insert" /\ worker'.id = worker.id
        /\ worker'.pc = "insert" => worker'.todo = Todo(made, variants)
    BY <2>1, <2>2, TodoType, InsertNextType DEF BlobsOf
  <2>4. \A e \in Todo(made, variants) : ItemOf[e[1]] = worker.id /\ e[2] \in {Image(worker.id), Variant(e[1])}
    BY DEF Todo, BlobsOf
  <2>5. \A j \in Items : file'[Image(j)] = file[Image(j)]
    <3>1. \A j \in Items : Image(j) \notin Variants(variants)
      BY Parts DEF Variants, BlobsOf
    <3> QED BY <2>2, <3>1, PathType
  <2>6. Paired'
    BY <2>1, <2>3, <2>4 DEF Paired, Owned
  <2>7. Ordered' /\ Present'
    BY <2>1, <2>3, <2>5 DEF Ordered, Former, Present, Spared
  <2> QED BY <2>6, <2>7
<1>5. CASE InsertBlob
  <2>1. PICK e \in worker.todo :
          /\ blob' = [blob EXCEPT ![e[1]] = [NoBlob EXCEPT !.row = TRUE, !.path = e[2]]]
          /\ InsertNext(worker.todo \ {e})
    BY <1>5 DEF InsertBlob
  <2>2. /\ worker.pc = "insert" /\ worker.todo \in SUBSET (Blobs \X Paths)
        /\ UNCHANGED <<item, format, cleaner, revived, file, used>>
    BY <1>5 DEF InsertBlob, Worker
  <2>3. /\ worker'.pc # "idle" => worker'.pc = "insert" /\ worker'.id = worker.id
        /\ worker'.pc = "insert" => worker'.todo \subseteq worker.todo
    BY <2>1, <2>2, InsertNextType
  <2>4. blob'[e[1]].path = e[2] /\ \A b \in Blobs : b # e[1] => blob'[b] = blob[b]
    BY <2>1, <2>2 DEF NoBlob
  <2>5. Owned(e[2], e[1])
    BY <2>1, <2>2 DEF Paired, Owned
  <2>6. Paired'
    BY <2>2, <2>3, <2>4, <2>5 DEF Paired, Owned
  <2>7. Ordered' /\ Present'
    BY <2>2, <2>3 DEF Ordered, Former, Present, Spared
  <2> QED BY <2>6, <2>7
<1>6. CASE IngestFails
  <2>1. worker'.pc = "idle" /\ UNCHANGED <<item, format, blob, cleaner, revived, file, used>>
    BY <1>6 DEF IngestFails, WorkerIdle
  <2> QED BY <2>1 DEF Paired, Owned, Ordered, Former, Present, Spared
<1> QED BY <1>1, <1>2, <1>3, <1>4, <1>5, <1>6

\* A step that neither writes paths nor touches files or the worker, and changes
\* an item only as a deletion or an import may.
LEMMA KeptRows ==
    ASSUME Typed, Typed', Kept,
           UNCHANGED <<file, worker, used>>, cleaner'.todo = cleaner.todo,
           cleaner'.pc = cleaner.pc, cleaner'.live = cleaner.live, revived \subseteq revived',
           \A b \in Blobs : blob'[b].path \in {blob[b].path, NoPath},
           \A j \in Items : /\ item'[j] # item[j] =>
                                 \/ item[j] = "none" /\ j \in Received
                                 \/ item[j] = "live" /\ item'[j] = "deleted"
                                 \/ item[j] = "deleted" /\ item'[j] = "live" /\ j \in revived'
                            /\ j \in revived' \ revived => item[j] = "deleted"
    PROVE  Kept'
<1> USE Apart
<1>1. Paired'
  BY DEF Kept, Paired, Owned
<1>2. Ordered'
  <2>1. \A e \in cleaner.todo : Owner(e[2]) \in Items
    BY Parts DEF Typed, TypeOK, Cleaner, Listed
  <2>2. \A i \in Items : item[i] # "none" => item'[i] # "none"
    OBVIOUS
  <2>3. \A i \in Captured : item'[i] # "none" => item[i] # "none"
    OBVIOUS
  <2>4. \A i \in Items : i \in revived' => item'[i] # "none"
    BY <2>2 DEF Kept, Ordered
  <2>5. \A i \in Items : Former(i) => Former(i)'
    BY DEF Former
  <2>6. revived' \subseteq Items
    BY DEF Typed, TypeOK
  <2> QED BY <2>1, <2>2, <2>3, <2>4, <2>5, <2>6 DEF Kept, Ordered, Typed, Named
<1>3. Present'
  BY DEF Kept, Present, Spared
<1> QED BY <1>1, <1>2, <1>3 DEF Kept

LEMMA KeptClean == Typed /\ Typed' /\ Kept /\ Clean => Kept'
<1> SUFFICES ASSUME Typed, Typed', Kept, Clean PROVE Kept'
  OBVIOUS
<1> USE Apart DEF CleanerStep
<1>1. cleaner \in Cleaner /\ UNCHANGED <<item, worker, used, revived>>
      /\ file \in [Paths -> {"none", "new", "old"}] /\ blob \in [Blobs -> Blob]
  BY DEF Clean, StartCleanup, RemoveListedFile, ClearFormatPath, ListBlobs, ClearBlobPath,
         ListLive, SweepImages, SweepSyncImages, Sweep, Typed, TypeOK
<1>2. \A e \in cleaner.todo : e[2] \in Paths /\ Owner(e[2]) \in Items
  BY <1>1, Parts DEF Cleaner, Listed
\* While it lists and removes the files of deleted items.
<1>3. ASSUME cleaner'.pc # "live",
             \A e \in cleaner'.todo : Former(Owner(e[2])),
             \A b \in Blobs : blob'[b].path \in {blob[b].path, NoPath},
             \A i \in Items : file'[Image(i)] = file[Image(i)] \/ Former(i)
                              \/ (file[Image(i)] # "new" /\ item[i] # "live")
      PROVE  Kept'
  <2>1. Paired'
    BY <1>1, <1>3 DEF Kept, Paired, Owned
  <2>2. Ordered'
    BY <1>1, <1>3 DEF Kept, Ordered, Former, Typed, Named
  <2>3. Present'
    BY <1>1, <1>3 DEF Kept, Present, Former
  <2> QED BY <2>1, <2>2, <2>3 DEF Kept
<1>4. CASE StartCleanup
  <2>1. cleaner'.pc = "formats" /\ UNCHANGED <<blob, file>>
    BY <1>1, <1>4 DEF StartCleanup, Cleaner
  <2>2. cleaner'.todo = {<<i, Image(i)>> : i \in {j \in Items : item[j] = "deleted" /\ format[j] = "path"}}
    BY <1>1, <1>4 DEF StartCleanup, Cleaner
  <2>3. \A e \in cleaner'.todo : Former(Owner(e[2]))
    BY <2>2, Parts DEF Former
  <2> QED BY <1>3, <2>1, <2>3
<1>5. CASE RemoveListedFile
  <2>1. PICK e \in cleaner.todo :
          /\ file' \in {file, [file EXCEPT ![e[2]] = "none"]}
          /\ cleaner' = [cleaner EXCEPT !.cur = e[1],
                            !.pc = IF cleaner.pc = "formats" THEN "formatGone" ELSE "blobGone"]
    BY <1>5 DEF RemoveListedFile
  <2>2. cleaner'.pc # "live" /\ cleaner'.todo = cleaner.todo /\ UNCHANGED blob
    BY <1>1, <1>5, <2>1 DEF Cleaner, RemoveListedFile
  <2>3. ASSUME NEW i \in Items PROVE file'[Image(i)] = file[Image(i)] \/ Former(i)
    <3>1. Image(i) = e[2] => Former(i)
      BY <2>1, Parts DEF Kept, Ordered
    <3> QED BY <1>1, <2>1, <3>1, PathType
  <2> QED BY <1>3, <2>2, <2>3 DEF Kept, Paired, Ordered
<1>6. ASSUME NEW pc \in {"formats", "blobs"}, Handled(pc), UNCHANGED file,
             \A b \in Blobs : blob'[b].path \in {blob[b].path, NoPath}
      PROVE  Kept'
  <2>1. cleaner'.pc = pc /\ cleaner'.todo \subseteq cleaner.todo
    BY <1>1, <1>6 DEF Handled, Cleaner
  <2> QED BY <1>3, <1>6, <2>1 DEF Kept, Paired, Ordered
<1>7. CASE ClearFormatPath
  BY <1>6, <1>7 DEF ClearFormatPath
<1>8. CASE ListBlobs
  <2>1. cleaner'.pc = "blobs" /\ UNCHANGED <<blob, file>>
    BY <1>1, <1>8 DEF ListBlobs, Cleaner
  <2>2. cleaner'.todo = {<<b, blob[b].path>> : b \in {c \in Blobs : item[ItemOf[c]] = "deleted"
                                                       /\ blob[c].path # NoPath}}
    BY <1>1, <1>8 DEF ListBlobs, Cleaner
  <2>3. \A e \in cleaner'.todo : Former(Owner(e[2]))
    <3> SUFFICES ASSUME NEW b \in Blobs, item[ItemOf[b]] = "deleted", blob[b].path # NoPath
                 PROVE  Former(Owner(blob[b].path))
      BY <2>2
    <3>1. blob[b].path \in Paths
      BY <1>1 DEF Blob
    <3> QED BY <3>1, OwnerOfPath DEF Former, Kept, Paired
  <2> QED BY <1>3, <2>1, <2>3
<1>9. CASE ClearBlobPath
  <2>1. \A b \in Blobs : blob'[b].path \in {blob[b].path, NoPath}
    BY <1>1, <1>9 DEF ClearBlobPath, Blob
  <2> QED BY <1>6, <1>9, <2>1 DEF ClearBlobPath
<1>10. CASE ListLive
  <2>1. /\ cleaner'.live = Live /\ cleaner'.todo = cleaner.todo
        /\ UNCHANGED <<blob, file>>
    BY <1>1, <1>10 DEF ListLive, Cleaner
  <2>2. Paired' /\ Ordered'
    BY <1>1, <2>1 DEF Kept, Paired, Owned, Ordered, Former
  <2>3. Present'
    BY <1>1, <2>1 DEF Kept, Present, Spared, Live
  <2> QED BY <2>2, <2>3 DEF Kept
<1>11. CASE SweepImages
  <2>1. PICK stays \in SUBSET Swept({"image"}) :
          /\ file' = [p \in Paths |-> IF p \in Swept({"image"}) \ stays THEN "none" ELSE file[p]]
          /\ cleaner' = [cleaner EXCEPT !.pc = "sweep", !.left = @ \cup stays]
    BY <1>11 DEF SweepImages, Sweep
  <2>a. /\ cleaner.pc = "live" /\ cleaner'.pc = "sweep" /\ cleaner'.todo = cleaner.todo
        /\ UNCHANGED blob
    BY <1>1, <1>11, <2>1 DEF SweepImages, Sweep, Cleaner
  <2>2. ASSUME NEW i \in Items, file'[Image(i)] # file[Image(i)]
        PROVE  i \notin cleaner.live /\ file[Image(i)] = "old"
    <3>1. OwnerByName(Image(i)) = i
      BY Parts DEF OwnerByName
    <3> QED BY <2>1, <2>2, <3>1, PathType DEF Swept
  <2>3. Paired'
    BY <1>1, <2>a DEF Kept, Paired, Owned
  <2>4. Ordered'
    BY <1>1, <2>a, <2>2 DEF Kept, Ordered, Former, Typed, Named
  <2>5. Present'
    BY <1>1, <2>a, <2>2 DEF Kept, Present, Spared
  <2> QED BY <2>3, <2>4, <2>5 DEF Kept
<1>12. CASE SweepSyncImages
  <2>1. PICK stays \in SUBSET Swept({"variant", "download"}) :
          /\ file' = [p \in Paths |-> IF p \in Swept({"variant", "download"}) \ stays
                                     THEN "none" ELSE file[p]]
          /\ cleaner' = [cleaner EXCEPT !.pc = "done", !.left = @ \cup stays]
    BY <1>12 DEF SweepSyncImages, Sweep
  <2>a. cleaner'.pc = "done" /\ cleaner'.todo = cleaner.todo /\ UNCHANGED blob
    BY <1>1, <1>12, <2>1 DEF SweepSyncImages, Sweep, Cleaner
  <2>2. ASSUME NEW i \in Items PROVE file'[Image(i)] = file[Image(i)]
    <3>1. Image(i)[1] = "image"
      BY Parts
    <3> QED BY <2>1, <3>1, PathType DEF Swept
  <2> QED BY <1>3, <2>a, <2>2 DEF Kept, Paired, Ordered
<1> QED
  BY <1>4, <1>5, <1>7, <1>8, <1>9, <1>10, <1>11, <1>12 DEF Clean

LEMMA KeptSync == Typed /\ Typed' /\ Kept /\ SyncNext => Kept'
<1> SUFFICES ASSUME Typed, Typed', Kept, SyncNext PROVE Kept'
  OBVIOUS
<1> USE Apart DEF SyncStep
<1>0. blob \in [Blobs -> Blob]
  BY DEF Typed, TypeOK
\* Most steps change no item, no file and no path but those of a download.
<1>1. ASSUME UNCHANGED <<item, file, cleaner, revived>>,
             \A b \in Blobs : blob'[b].path \in {blob[b].path, Download(b)}, SyncStep
      PROVE  Kept'
  <2>1. Paired'
    BY <1>1 DEF Kept, Paired, Owned
  <2>2. Ordered' /\ Present'
    BY <1>1 DEF Kept, Ordered, Former, Present, Spared
  <2> QED BY <2>1, <2>2 DEF Kept
<1>2. CASE Import
  <2>1. cleaner'.todo = cleaner.todo /\ cleaner'.pc = cleaner.pc /\ cleaner'.live = cleaner.live
        /\ UNCHANGED <<file, worker, used>>
    BY <1>2 DEF Import, Typed, TypeOK, Cleaner
  <2> QED BY <1>2, <2>1, ImportEffect, KeptRows DEF Typed
<1>3. CASE ListMissing \/ EndImport \/ ListUploadable \/ Send \/ EndWrite \/ Fail
  BY <1>1, <1>3 DEF ListMissing, EndImport, ListUploadable, Send, EndWrite, Fail
<1>4. CASE Fetch
  <2>1. PICK e \in sync.todo :
          \/ UNCHANGED <<file, cleaner>>
          \/ /\ file' = [file EXCEPT ![Download(e[1])] = "new"]
             /\ cleaner' = [cleaner EXCEPT !.stale = @ \ {Download(e[1])}]
    BY <1>4 DEF Fetch
  <2>2. UNCHANGED <<item, blob, revived, worker, used>>
    BY <1>4 DEF Fetch
  <2>3. cleaner'.todo = cleaner.todo /\ cleaner'.pc = cleaner.pc /\ cleaner'.live = cleaner.live
    BY <2>1 DEF Typed, TypeOK, Cleaner
  <2>4. ASSUME NEW i \in Items PROVE file'[Image(i)] = file[Image(i)]
    <3>1. Image(i) # Download(e[1])
      BY DEF Image, Download
    <3> QED BY <2>1, <3>1, PathType DEF Typed, TypeOK
  <2>5. Paired'
    BY <2>2, <2>3 DEF Kept, Paired, Owned
  <2>6. Ordered' /\ Present'
    BY <2>2, <2>3, <2>4 DEF Kept, Ordered, Former, Present, Spared, Typed, Named
  <2> QED BY <2>5, <2>6 DEF Kept
<1>5. CASE RecordFetched
  <2>1. \A b \in Blobs : blob'[b].path \in {blob[b].path, Download(b)}
    BY <1>0, <1>5 DEF RecordFetched, Blob
  <2> QED BY <1>1, <1>5, <2>1 DEF RecordFetched
<1>6. CASE MarkUploaded
  <2>1. \A b \in Blobs : blob'[b].path = blob[b].path
    BY <1>0, <1>6 DEF MarkUploaded, Blob
  <2> QED BY <1>1, <1>6, <2>1 DEF MarkUploaded
<1>7. CASE EndExport
  <2>1. \A b \in Blobs : blob'[b].path = blob[b].path
    BY <1>0, <1>7 DEF EndExport, Blob
  <2> QED BY <1>1, <1>7, <2>1 DEF EndExport
<1> QED BY <1>2, <1>3, <1>4, <1>5, <1>6, <1>7 DEF SyncNext

LEMMA KeptStep == Typed /\ Typed' /\ Kept /\ [Next]_vars => Kept'
<1> SUFFICES ASSUME Typed, Typed', Kept, [Next]_vars PROVE Kept'
  OBVIOUS
<1> USE Apart DEF rows
<1>1. CASE UNCHANGED vars
  BY <1>1 DEF vars, Kept, Paired, Owned, Ordered, Former, Present, Spared
<1>2. ASSUME NEW i \in Items, Delete(i) PROVE Kept'
  <2>1. blob \in [Blobs -> Blob] /\ item \in [Items -> {"none", "live", "deleted"}]
    BY DEF Typed, TypeOK
  <2>2. \A b \in Blobs : blob'[b].path = blob[b].path
    <3>1. \A b \in Blobs : [blob[b] EXCEPT !.deleted = TRUE, !.status = "pending"].path = blob[b].path
      BY <2>1 DEF Blob
    <3> QED BY <1>2, <2>1, <3>1 DEF Delete
  <2>3. \A j \in Items : item'[j] # item[j] => item[j] = "live" /\ item'[j] = "deleted"
    BY <1>2, <2>1 DEF Delete
  <2> QED BY <1>2, <2>2, <2>3, KeptRows DEF Delete
<1>3. CASE HourPasses
  <2>1. worker.pc = "idle" /\ cleaner.pc # "live"
        /\ UNCHANGED <<item, blob, worker, cleaner, used, revived>>
    BY <1>3 DEF HourPasses
  <2>2. \A i \in Items : file'[Image(i)] = "none" => file[Image(i)] = "none"
    BY <1>3, PathType DEF HourPasses, Typed, TypeOK
  <2> QED BY <2>1, <2>2 DEF Kept, Paired, Owned, Ordered, Former, Present
<1>4. ASSUME NEW b \in Blobs, PeerUpload(b) PROVE Kept'
  BY <1>4 DEF PeerUpload, Kept, Paired, Owned, Ordered, Former, Present, Spared
<1>5. CASE Restart
  <2>1. /\ worker'.pc = "idle" /\ cleaner'.todo = {} /\ cleaner'.pc = "waiting"
        /\ UNCHANGED <<item, blob, file, used, revived>>
    BY <1>5 DEF Restart, WorkerIdle, CleanerWaits
  <2> QED BY <2>1 DEF Kept, Paired, Owned, Ordered, Former, Present
<1> QED BY <1>1, <1>2, <1>3, <1>4, <1>5, KeptWorker, KeptClean, KeptSync DEF Next

\* An image that was copied here and never deleted is shown from its own file,
\* whatever the cleanup, crashes and sync cycles do meanwhile: the one-hour age in
\* the sweep is what lets it read the live ids first (blob_cleanup_service.rs
\* remove_orphan_blob_dir_files, file_is_old_enough).
THEOREM CapturedFilesKept == Spec => []CapturedFileKept
<1>1. Typed /\ Kept => CapturedFileKept
  BY Apart, PathType DEF Kept, Present, CapturedFileKept, Shown, Missing
<1> QED BY <1>1, TypeStart, TypeStep, KeptStart, KeptStep, PTL DEF Spec

-----------------------------------------------------------------------------
(* What the three other properties rest on *)

\* A blob row and a file call belong to an item that has a row, files of the own
\* directories to an item that was copied here, and a cleared path to a former item.
Sourced ==
    /\ \A b \in Blobs : blob[b].row \/ blob[b].path # NoPath => item[ItemOf[b]] # "none"
    /\ \A b \in Blobs : blob[b].path \in {Image(ItemOf[b]), Variant(b)} => ItemOf[b] \in Captured
    /\ \A e \in sync.todo : item[ItemOf[e[1]]] # "none"
    /\ sync.pc = "wrote" => item[ItemOf[sync.cur]] # "none"
    /\ worker.pc \in {"format", "blobs", "insert"} => item[worker.id] # "none"
    /\ cleaner.pc \in {"blobs", "blobGone"} =>
          \A e \in cleaner.todo : e[1] \in Blobs /\ Former(ItemOf[e[1]])
    /\ cleaner.pc = "blobGone" => cleaner.cur \in Blobs /\ Former(ItemOf[cleaner.cur])

LEMMA SourcedStart == Init => Sourced
<1> SUFFICES ASSUME Init PROVE Sourced
  OBVIOUS
<1> USE DEF Init, WorkerIdle, CleanerWaits, SyncIdle
<1>1. PICK here \in SUBSET Received :
        /\ item = [i \in Items |-> IF i \in here THEN "live" ELSE "none"]
        /\ blob = [b \in Blobs |-> IF ItemOf[b] \notin here THEN NoBlob
                                  ELSE [row |-> TRUE, path |-> Download(b), remote |-> TRUE,
                                        status |-> "synced", deleted |-> FALSE]]
  OBVIOUS
<1>2. \A b \in Blobs : blob[b].path \in {NoPath, Download(b)}
  BY <1>1 DEF NoBlob
<1>3. \A b \in Blobs : /\ Download(b) # Image(ItemOf[b]) /\ Download(b) # Variant(b)
                       /\ NoPath # Image(ItemOf[b]) /\ NoPath # Variant(b)
  BY PathType, Parts
<1>4. \A b \in Blobs : blob[b].row \/ blob[b].path # NoPath => item[ItemOf[b]] # "none"
  BY <1>1, PathType DEF NoBlob
<1> QED BY <1>2, <1>3, <1>4 DEF Sourced

\* An item that once had a row keeps one, and a former item stays one.
LEMMA Monotone ==
    ASSUME Typed, Kept, [Next]_vars
    PROVE  \A i \in Items : /\ item[i] # "none" => item'[i] # "none"
                            /\ Former(i) => Former(i)'
                            /\ item'[i] = "live" => \/ item[i] = "live" \/ i \in revived'
                                                    \/ i \in Received
                                                    \/ worker.pc = "row" /\ i = worker.id
<1> USE DEF Typed, TypeOK, Named, rows
<1>1. ASSUME UNCHANGED <<item, revived>>
      PROVE  \A i \in Items : /\ item[i] # "none" => item'[i] # "none"
                              /\ Former(i) => Former(i)'
                              /\ item'[i] = "live" => item[i] = "live"
  BY <1>1 DEF Former
<1>2. CASE InsertRow
  BY <1>2 DEF InsertRow, WorkerStep, Kept, Ordered, Former
<1>3. ASSUME NEW i \in Items, Delete(i)
      PROVE  \A j \in Items : /\ item[j] # "none" => item'[j] # "none"
                              /\ Former(j) => Former(j)'
                              /\ item'[j] = "live" => item[j] = "live"
  BY <1>3 DEF Delete, Former
<1>4. CASE Import
  BY ImportEffect, <1>4 DEF Former
<1>5. ASSUME \/ \E i \in Captured : StoreImage(i)
             \/ InsertFormat \/ PrepareBlobs \/ InsertBlob \/ IngestFails
             \/ HourPasses \/ \E b \in Blobs : PeerUpload(b)
             \/ Clean \/ ListMissing \/ Fetch \/ RecordFetched \/ EndImport \/ ListUploadable
             \/ Send \/ EndWrite \/ MarkUploaded \/ EndExport \/ Fail \/ Restart \/ UNCHANGED vars
      PROVE  UNCHANGED <<item, revived>>
  BY <1>5 DEF StoreImage, InsertFormat, PrepareBlobs, InsertBlob, IngestFails, WorkerStep, HourPasses, PeerUpload,
     Clean, StartCleanup, RemoveListedFile, ClearFormatPath, ListBlobs, ClearBlobPath, ListLive,
     SweepImages, SweepSyncImages, Sweep, CleanerStep, ListMissing, Fetch, RecordFetched, EndImport,
     ListUploadable, Send, EndWrite, MarkUploaded, EndExport, Fail, SyncStep, Restart, vars
<1> QED BY <1>1, <1>2, <1>3, <1>4, <1>5 DEF Next, SyncNext

\* A merge leaves a blob row only to an item that has one.
LEMMA ImportRows ==
    ASSUME Typed, Import
    PROVE  \A b \in Blobs : blob'[b].row => blob[b].row \/ item'[ItemOf[b]] # "none"
<1> USE DEF Typed, TypeOK
<1>1. PICK i \in Items : item'[i] # "none" /\ \E d \in BOOLEAN : BlobsOfPackage(i, d)
  <2>1. PICK i \in Items :
        \/ /\ item' = [item EXCEPT ![i] = "live"]
           /\ BlobsOfPackage(i, FALSE)
        \/ /\ item' = [item EXCEPT ![i] = "deleted"]
           /\ BlobsOfPackage(i, TRUE)
        \/ /\ item[i] # "none" /\ item' = item
           /\ BlobsOfPackage(i, item[i] = "deleted")
    BY DEF Import
  <2> QED BY <2>1
<1>2. \A b \in Blobs \ BlobsOf(i) : blob'[b] = blob[b]
  BY <1>1 DEF BlobsOfPackage
<1> QED BY <1>1, <1>2 DEF BlobsOf

LEMMA SourcedStep == Typed /\ Typed' /\ Kept /\ Sourced /\ [Next]_vars => Sourced'
<1> SUFFICES ASSUME Typed, Typed', Kept, Sourced, [Next]_vars PROVE Sourced'
  OBVIOUS
<1> USE DEF rows
<1>0. /\ \A i \in Items : /\ item[i] # "none" => item'[i] # "none"
                          /\ Former(i) => Former(i)'
      /\ blob \in [Blobs -> Blob] /\ worker \in Worker /\ cleaner \in Cleaner /\ sync \in Sync
      /\ \A b \in Blobs : ItemOf[b] \in Items
      /\ \A e \in sync.todo : e[1] \in Blobs
      /\ worker.pc # "idle" => worker.id \in Captured /\ worker.id \in Items
      /\ sync.pc = "wrote" => sync.cur \in Blobs
  BY Monotone, Apart, PathType DEF Typed, TypeOK, Named, Sync
\* Each conjunct by what it depends on.
<1> DEFINE BlobsFit ==
             \A b \in Blobs : /\ blob'[b].row => blob[b].row \/ item'[ItemOf[b]] # "none"
                              /\ \/ blob'[b].path \in {blob[b].path, NoPath}
                                 \/ /\ item'[ItemOf[b]] # "none"
                                    /\ ItemOf[b] \in Captured \/ blob'[b].path = Download(b)
           SyncFits ==
             /\ \/ sync'.todo \subseteq sync.todo
                \/ \A e \in sync'.todo : e[1] \in Blobs /\ blob[e[1]].row
             /\ sync'.pc = "wrote" => \E e \in sync.todo : sync'.cur = e[1]
           WorkerFits ==
             \/ worker' = worker \/ worker'.pc \in {"idle", "row"}
             \/ worker.pc # "idle" /\ worker'.id = worker.id /\ item'[worker.id] # "none"
           CleanerFits ==
             /\ cleaner'.pc \in {"blobs", "blobGone"} =>
                   \/ cleaner.pc \in {"blobs", "blobGone"} /\ cleaner'.todo \subseteq cleaner.todo
                   \/ \A e \in cleaner'.todo : e[1] \in Blobs /\ Former(ItemOf[e[1]])
             /\ cleaner'.pc = "blobGone" =>
                   \/ cleaner.pc = "blobGone" /\ cleaner'.cur = cleaner.cur
                   \/ cleaner.pc = "blobs" /\ \E e \in cleaner.todo : cleaner'.cur = e[1]
<1>1. ASSUME BlobsFit, sync' = sync \/ SyncFits, WorkerFits, CleanerFits PROVE Sourced'
  <2>1. \A b \in Blobs : blob'[b].row \/ blob'[b].path # NoPath => item'[ItemOf[b]] # "none"
    BY <1>0, <1>1 DEF Sourced
  <2>2. \A b \in Blobs : /\ Download(b) # Image(ItemOf[b]) /\ Download(b) # Variant(b)
                         /\ NoPath # Image(ItemOf[b]) /\ NoPath # Variant(b)
    BY PathType, Parts
  <2>3. \A b \in Blobs : blob'[b].path \in {Image(ItemOf[b]), Variant(b)} => ItemOf[b] \in Captured
    BY <1>1, <2>2 DEF Sourced
  <2>4. \A e \in sync'.todo : item'[ItemOf[e[1]]] # "none"
    BY <1>0, <1>1 DEF Sourced
  <2>5. sync'.pc = "wrote" => item'[ItemOf[sync'.cur]] # "none"
    BY <1>0, <1>1 DEF Sourced
  <2>6. worker'.pc \in {"format", "blobs", "insert"} => item'[worker'.id] # "none"
    BY <1>0, <1>1 DEF Sourced
  <2>7. cleaner'.pc \in {"blobs", "blobGone"} =>
           \A e \in cleaner'.todo : e[1] \in Blobs /\ Former(ItemOf[e[1]])'
    <3>1. SUFFICES ASSUME cleaner'.pc \in {"blobs", "blobGone"}, NEW e \in cleaner'.todo
                   PROVE  e[1] \in Blobs /\ Former(ItemOf[e[1]])
      BY <1>0 DEF Former
    <3> QED BY <1>1, <3>1 DEF Sourced
  <2>8. cleaner'.pc = "blobGone" => cleaner'.cur \in Blobs /\ Former(ItemOf[cleaner.cur])'
    <3>1. SUFFICES ASSUME cleaner'.pc = "blobGone"
                   PROVE  cleaner'.cur \in Blobs /\ Former(ItemOf[cleaner'.cur])
      BY <1>0 DEF Former
    <3> QED BY <1>1, <3>1 DEF Sourced
  <2> QED BY <2>1, <2>3, <2>4, <2>5, <2>6, <2>7, <2>8 DEF Sourced
<1> DEFINE SyncStays == sync'.pc # "wrote" /\ sync'.todo \subseteq sync.todo
<1>2. ASSUME NEW i \in Captured, StoreImage(i) PROVE Sourced'
  <2>1. worker'.pc = "row"
    BY <1>0, <1>2 DEF StoreImage, Worker
  <2> QED BY <1>1, <1>2, <2>1 DEF StoreImage, WorkerStep
<1>3. CASE InsertRow \/ InsertFormat \/ PrepareBlobs
  <2>1. WorkerFits
    <3>1. CASE InsertRow
      BY <1>0, <3>1 DEF InsertRow, Worker, Typed, TypeOK
    <3>2. CASE InsertFormat
      BY <1>0, <3>2 DEF InsertFormat, Worker, Sourced
    <3>3. CASE PrepareBlobs
      <4>1. PICK made \in SUBSET BlobsOf(worker.id), variants \in SUBSET BlobsOf(worker.id) :
              InsertNext(Todo(made, variants))
        BY <3>3, Preparing
      <4>2. worker.pc = "blobs"
        BY <3>3 DEF PrepareBlobs
      <4>3. worker'.pc = "idle" \/ worker'.id = worker.id
        BY <1>0, <4>1, <4>2, TodoType, InsertNextType DEF BlobsOf, Typed
      <4> QED BY <1>0, <3>3, <4>2, <4>3 DEF PrepareBlobs, Sourced
    <3> QED BY <1>3, <3>1, <3>2, <3>3
  <2>2. UNCHANGED <<blob, sync, cleaner>>
    BY <1>3 DEF InsertRow, InsertFormat, PrepareBlobs, WorkerStep
  <2> QED BY <1>1, <2>1, <2>2
<1>4. CASE InsertBlob
  <2>1. PICK e \in worker.todo :
          /\ blob' = [blob EXCEPT ![e[1]] = [NoBlob EXCEPT !.row = TRUE, !.path = e[2]]]
          /\ InsertNext(worker.todo \ {e})
    BY <1>4 DEF InsertBlob
  <2>2. /\ worker.pc = "insert" /\ worker.todo \in SUBSET (Blobs \X Paths)
        /\ UNCHANGED <<item, sync, cleaner>>
    BY <1>0, <1>4 DEF InsertBlob, WorkerStep, Worker
  <2>3. worker'.pc = "idle" \/ worker'.id = worker.id
    BY <2>1, <2>2, InsertNextType DEF Typed
  <2>4. ItemOf[e[1]] = worker.id
    BY <2>2 DEF Kept, Paired
  <2>5. \A b \in Blobs : b # e[1] => blob'[b] = blob[b]
    BY <1>0, <2>1
  <2>6. worker.id \in Captured /\ item'[worker.id] # "none"
    BY <1>0, <2>2 DEF Sourced
  <2> QED BY <1>1, <2>2, <2>3, <2>4, <2>5, <2>6
<1>17. CASE IngestFails
  <2>1. worker'.pc = "idle" /\ UNCHANGED <<blob, sync, cleaner>>
    BY <1>17 DEF IngestFails, WorkerStep, WorkerIdle
  <2> QED BY <1>1, <2>1
<1>5. ASSUME NEW i \in Items, Delete(i) PROVE Sourced'
  <2>1. \A b \in Blobs : blob'[b].row = blob[b].row /\ blob'[b].path = blob[b].path
    BY <1>0, <1>5 DEF Delete, Blob
  <2> QED BY <1>1, <1>5, <2>1 DEF Delete
<1>6. CASE HourPasses \/ (\E b \in Blobs : PeerUpload(b)) \/ UNCHANGED vars
  BY <1>1, <1>6 DEF HourPasses, PeerUpload, vars
<1>7. CASE Restart
  <2>1. worker'.pc = "idle" /\ cleaner'.pc = "waiting" /\ SyncStays
    BY <1>7 DEF Restart, WorkerIdle, CleanerWaits, SyncIdle
  <2> QED BY <1>1, <1>7, <2>1 DEF Restart
<1>8. CASE Clean
  <2>1. BlobsFit
    <3>1. \A b \in Blobs : blob'[b] = blob[b] \/ blob'[b] = [blob[b] EXCEPT !.path = NoPath]
      BY <1>0, <1>8 DEF Clean, StartCleanup, RemoveListedFile, ClearFormatPath, ListBlobs,
         ClearBlobPath, ListLive, SweepImages, SweepSyncImages, Sweep
    <3>2. \A b \in Blobs : /\ [blob[b] EXCEPT !.path = NoPath].row = blob[b].row
                           /\ [blob[b] EXCEPT !.path = NoPath].path = NoPath
      BY <1>0 DEF Blob
    <3> QED BY <3>1, <3>2
  <2>2. CleanerFits
    <3>1. CASE RemoveListedFile
      <4>1. PICK e \in cleaner.todo :
              cleaner' = [cleaner EXCEPT !.cur = e[1],
                            !.pc = IF cleaner.pc = "formats" THEN "formatGone" ELSE "blobGone"]
        BY <3>1 DEF RemoveListedFile
      <4>2. /\ cleaner'.cur = e[1] /\ cleaner'.todo = cleaner.todo
            /\ cleaner'.pc = IF cleaner.pc = "formats" THEN "formatGone" ELSE "blobGone"
        BY <1>0, <4>1 DEF Cleaner
      <4> QED BY <3>1, <4>2 DEF RemoveListedFile
    <3>2. CASE ClearFormatPath \/ ClearBlobPath
      BY <1>0, <3>2 DEF ClearFormatPath, ClearBlobPath, Handled, Cleaner
    <3>3. CASE StartCleanup \/ ListLive \/ SweepImages \/ SweepSyncImages
      BY <1>0, <3>3 DEF StartCleanup, ListLive, SweepImages, SweepSyncImages, Sweep, Cleaner
    <3>4. CASE ListBlobs
      <4>1. /\ cleaner'.pc = "blobs"
            /\ cleaner'.todo = {<<b, blob[b].path>> : b \in {c \in Blobs : item[ItemOf[c]] = "deleted"
                                                       /\ blob[c].path # NoPath}}
        BY <1>0, <3>4 DEF ListBlobs, Cleaner
      <4> QED BY <4>1 DEF Former
    <3> QED BY <1>8, <3>1, <3>2, <3>3, <3>4 DEF Clean
  <2>3. UNCHANGED <<sync, worker>>
    BY <1>8 DEF Clean, StartCleanup, RemoveListedFile, ClearFormatPath, ListBlobs,
         ClearBlobPath, ListLive, SweepImages, SweepSyncImages, Sweep, CleanerStep
  <2> QED BY <1>1, <2>1, <2>2, <2>3
<1>9. CASE Import
  <2>1. SyncStays /\ UNCHANGED worker 
        /\ cleaner'.pc = cleaner.pc /\ cleaner'.cur = cleaner.cur /\ cleaner'.todo = cleaner.todo
    BY <1>0, <1>9 DEF Import, SyncStep, Sync, Cleaner
  <2>2. BlobsFit
    BY <1>9, ImportEffect, ImportRows DEF Typed
  <2> QED BY <1>1, <2>1, <2>2
<1>10. CASE ListMissing \/ ListUploadable
  <2>1. /\ \A e \in sync'.todo : e[1] \in Blobs /\ blob[e[1]].row
        /\ sync'.pc # "wrote"
    <3>1. CASE ListMissing
      <4>1. PICK T \in Batches(WithRemote) :
              sync' = [sync EXCEPT
                      !.pc = "fetch",
                      !.todo = {<<b, blob[b].path>> : b \in {c \in T : Missing(blob[c].path)}},
                      !.due = {b \in WithRemote : Missing(blob[b].path) /\ remote[b] = "whole"}]
        BY <3>1 DEF ListMissing
      <4>2. T \subseteq WithRemote
        BY DEF Batches
      <4>3. sync'.pc = "fetch"
            /\ sync'.todo = {<<b, blob[b].path>> : b \in {c \in T : Missing(blob[c].path)}}
        BY <1>0, <4>1 DEF Sync
      <4> QED BY <4>2, <4>3 DEF WithRemote
    <3>2. CASE ListUploadable
      <4>1. PICK T \in Batches(Uploadable) :
              sync' = [SyncIdle EXCEPT !.pc = "send", !.todo = {<<b, blob[b].path>> : b \in T}]
        BY <3>2 DEF ListUploadable
      <4>2. T \subseteq Uploadable
        BY DEF Batches
      <4>3. sync'.pc = "send" /\ sync'.todo = {<<b, blob[b].path>> : b \in T}
        BY <4>1 DEF SyncIdle
      <4> QED BY <4>2, <4>3 DEF Uploadable
    <3> QED BY <1>10, <3>1, <3>2
  <2>2. UNCHANGED <<blob, worker, cleaner>>
    BY <1>10 DEF ListMissing, ListUploadable, SyncStep
  <2> QED BY <1>1, <2>1, <2>2
<1>11. ASSUME NEW b, Done("fetch", b) \/ Done("send", b) PROVE SyncStays
  BY <1>0, <1>11 DEF Done, Sync
<1>12. CASE Fetch
  <2>1. PICK e \in sync.todo :
          \/ Done("fetch", e[1]) /\ UNCHANGED cleaner
          \/ sync' = SyncIdle /\ UNCHANGED cleaner
          \/ /\ sync' = [sync EXCEPT !.pc = "wrote", !.cur = e[1]]
             /\ cleaner' = [cleaner EXCEPT !.stale = @ \ {Download(e[1])}]
    BY <1>12 DEF Fetch
  <2>2. SyncFits
    <3>1. CASE sync' = [sync EXCEPT !.pc = "wrote", !.cur = e[1]]
      BY <1>0, <2>1, <3>1 DEF Sync
    <3> QED BY <1>11, <2>1, <3>1 DEF SyncIdle
  <2>3. cleaner'.pc = cleaner.pc /\ cleaner'.cur = cleaner.cur /\ cleaner'.todo = cleaner.todo
    BY <1>0, <2>1 DEF Cleaner
  <2> QED BY <1>1, <1>12, <2>2, <2>3 DEF Fetch, SyncStep
<1>13. CASE RecordFetched
  <2>1. \A b \in Blobs : \/ blob'[b] = blob[b]
                         \/ /\ blob'[b].row = blob[b].row /\ blob'[b].path = Download(b)
                            /\ item[ItemOf[b]] # "none"
    BY <1>0, <1>13 DEF RecordFetched, Blob, Sourced
  <2>2. SyncStays /\ UNCHANGED <<worker, cleaner>>
    BY <1>11, <1>13 DEF RecordFetched, SyncStep
  <2> QED BY <1>0, <1>1, <2>1, <2>2
<1>14. CASE Send
  <2>1. PICK e \in sync.todo :
          \/ sync' = SyncIdle \/ sync' = [sync EXCEPT !.pc = "sending", !.cur = e[1]]
          \/ sync' = [sync EXCEPT !.pc = "sent", !.cur = e[1]]
    BY <1>14 DEF Send
  <2>2. SyncStays
    <3>1. CASE sync' = SyncIdle
      BY <3>1 DEF SyncIdle
    <3>2. ASSUME NEW pc \in {"sending", "sent"}, sync' = [sync EXCEPT !.pc = pc, !.cur = e[1]]
          PROVE  SyncStays
      BY <1>0, <3>2 DEF Sync
    <3> QED BY <2>1, <3>1, <3>2
  <2> QED BY <1>1, <1>14, <2>2 DEF Send, SyncStep
<1>15. CASE EndImport \/ EndWrite \/ Fail
  <2>1. SyncStays /\ UNCHANGED <<blob, worker, cleaner>>
    BY <1>0, <1>15 DEF EndImport, EndWrite, Fail, SyncStep, Sync, SyncIdle
  <2> QED BY <1>1, <2>1
<1>16. CASE MarkUploaded \/ EndExport
  <2>1. \A b \in Blobs : blob'[b].row = blob[b].row /\ blob'[b].path = blob[b].path
    BY <1>0, <1>16 DEF MarkUploaded, EndExport, Blob
  <2>2. SyncStays /\ UNCHANGED <<worker, cleaner>>
    BY <1>11, <1>16 DEF MarkUploaded, EndExport, SyncStep, SyncIdle
  <2> QED BY <1>1, <2>1, <2>2
<1> QED
  BY <1>2, <1>3, <1>4, <1>5, <1>6, <1>7, <1>8, <1>9, <1>10, <1>12, <1>13, <1>14, <1>15, <1>16, <1>17
  DEF Next, SyncNext

-----------------------------------------------------------------------------
(* What the steps that are not the worker's do to files *)

\* A file goes with a former item, or in the sweep; ages when nobody is at work; is
\* written by a download.
FileFits(p) ==
    \/ file'[p] = file[p]
    \/ file'[p] = "none" /\ Former(Owner(p))
    \/ /\ file'[p] = "none" /\ file[p] = "old"
       /\ cleaner.pc \in {"live", "sweep"}
       /\ Owner(p) \notin cleaner.live \/ p[1] = "download"
    \/ /\ file'[p] = "old" /\ file[p] = "new"
       /\ worker.pc = "idle" /\ sync.pc = "idle" /\ cleaner.pc \notin {"live", "sweep"}
    \/ /\ file'[p] = "new" /\ p[1] = "download"
       /\ item[Owner(p)] # "none" /\ p \notin cleaner'.stale

\* A stale file was so before, or is found so when a cleanup begins.
StaleFits(p) ==
    p \in cleaner'.stale =>
        /\ \/ p \in cleaner.stale
           \/ file[p] = "old" /\ item[Owner(p)] # "live" /\ cleaner'.pc = "formats"
        /\ item'[Owner(p)] = "live" => item[Owner(p)] = "live"

\* The cleanup does not move, or is not yet at the sweep, or moves on in it.
CleanupFits ==
    \/ /\ cleaner'.pc = cleaner.pc /\ cleaner'.live = cleaner.live
       /\ cleaner'.stale \subseteq cleaner.stale /\ cleaner'.left = cleaner.left
    \/ cleaner'.pc \notin {"live", "sweep", "done"}
    \/ ListLive \/ SweepImages \/ SweepSyncImages

Fits ==
    /\ worker' = worker \/ worker'.pc = "idle"
    /\ used' = used
    /\ CleanupFits
    /\ \A p \in Paths : FileFits(p) /\ StaleFits(p)

LEMMA CleanEffect ==
    ASSUME Typed, Kept, Clean
    PROVE  Fits
<1> USE DEF CleanerStep
<1>1. /\ cleaner \in Cleaner /\ file \in [Paths -> {"none", "new", "old"}]
      /\ UNCHANGED <<item, worker, used>>
  BY DEF Clean, StartCleanup, RemoveListedFile, ClearFormatPath, ListBlobs, ClearBlobPath,
         ListLive, SweepImages, SweepSyncImages, Sweep, Typed, TypeOK
<1>2. ASSUME CleanupFits, cleaner'.stale \subseteq cleaner.stale, \A p \in Paths : FileFits(p)
      PROVE  Fits
  BY <1>1, <1>2 DEF Fits, StaleFits
<1>3. CASE StartCleanup
  <2>1. /\ cleaner'.pc = "formats" /\ UNCHANGED file
        /\ cleaner'.stale = {p \in Paths : file[p] = "old" /\ Owner(p) \notin Live}
    BY <1>1, <1>3 DEF StartCleanup, Cleaner
  <2>2. \A p \in Paths : FileFits(p) /\ StaleFits(p)
    BY <1>1, <2>1, Parts DEF FileFits, StaleFits, Live
  <2> QED BY <1>1, <2>1, <2>2 DEF Fits, CleanupFits
<1>4. CASE RemoveListedFile
  <2>1. PICK e \in cleaner.todo :
          /\ file' \in {file, [file EXCEPT ![e[2]] = "none"]}
          /\ cleaner' = [cleaner EXCEPT !.cur = e[1],
                            !.pc = IF cleaner.pc = "formats" THEN "formatGone" ELSE "blobGone"]
    BY <1>4 DEF RemoveListedFile
  <2>2. cleaner'.pc \notin {"live", "sweep", "done"} /\ cleaner'.stale = cleaner.stale
    BY <1>1, <2>1 DEF Cleaner
  <2>3. e[2] \in Paths /\ Former(Owner(e[2]))
    BY <1>1, <2>1 DEF Cleaner, Listed, Kept, Ordered
  <2>4. \A p \in Paths : FileFits(p)
    BY <1>1, <2>1, <2>3 DEF FileFits
  <2> QED BY <1>2, <2>2, <2>4 DEF CleanupFits
<1>5. CASE ClearFormatPath \/ ListBlobs \/ ClearBlobPath
  <2>1. /\ cleaner'.pc \in {"formats", "blobs"} /\ cleaner'.stale = cleaner.stale
        /\ UNCHANGED file
    BY <1>1, <1>5 DEF ClearFormatPath, ListBlobs, ClearBlobPath, Handled, Cleaner
  <2> QED BY <1>2, <2>1 DEF FileFits, CleanupFits
<1>6. CASE ListLive
  <2>1. cleaner'.stale = cleaner.stale /\ UNCHANGED file
    BY <1>1, <1>6 DEF ListLive, Cleaner
  <2> QED BY <1>2, <1>6, <2>1 DEF FileFits, CleanupFits
<1>7. CASE SweepImages \/ SweepSyncImages
  <2>1. PICK kinds, stays : file' = [p \in Paths |-> IF p \in Swept(kinds) \ stays THEN "none" ELSE file[p]]
    <3>1. CASE SweepImages
      <4>1. PICK stays : file' = [p \in Paths |-> IF p \in Swept({"image"}) \ stays
                                                 THEN "none" ELSE file[p]]
        BY <3>1 DEF SweepImages, Sweep
      <4> QED BY <4>1
    <3>2. CASE SweepSyncImages
      <4>1. PICK stays : file' = [p \in Paths |-> IF p \in Swept({"variant", "download"}) \ stays
                                                 THEN "none" ELSE file[p]]
        BY <3>2 DEF SweepSyncImages, Sweep
      <4> QED BY <4>1
    <3> QED BY <1>7, <3>1, <3>2
  <2>2. cleaner.pc \in {"live", "sweep"} /\ cleaner'.stale = cleaner.stale
    BY <1>1, <1>7 DEF SweepImages, SweepSyncImages, Sweep, Cleaner
  <2>3. ASSUME NEW p \in Paths, p \in Swept(kinds)
        PROVE  file[p] = "old" /\ (Owner(p) \notin cleaner.live \/ p[1] = "download")
    BY <2>3, Parts DEF Swept, OwnerByName
  <2>4. \A p \in Paths : FileFits(p)
    BY <2>1, <2>2, <2>3 DEF FileFits
  <2> QED BY <1>2, <1>7, <2>2, <2>4 DEF CleanupFits
<1> QED BY <1>3, <1>4, <1>5, <1>6, <1>7 DEF Clean

LEMMA Effect ==
    ASSUME Typed, Kept, Sourced,
           \/ \E i \in Items : Delete(i)
           \/ HourPasses
           \/ \E b \in Blobs : PeerUpload(b)
           \/ Clean \/ SyncNext \/ Restart \/ UNCHANGED vars
    PROVE  Fits
<1> USE DEF SyncStep, rows
<1>0. /\ cleaner \in Cleaner /\ file \in [Paths -> {"none", "new", "old"}]
      /\ item \in [Items -> {"none", "live", "deleted"}]
      /\ \A e \in sync.todo : e[1] \in Blobs
  BY DEF Typed, TypeOK, Sync
<1>1. ASSUME UNCHANGED <<file, used, cleaner>>, worker' = worker \/ worker'.pc = "idle",
             \A i \in Items : item'[i] = "live" => item[i] = "live"
      PROVE  Fits
  BY <1>1, Parts DEF Fits, CleanupFits, FileFits, StaleFits
<1>2. ASSUME NEW i \in Items, Delete(i) PROVE Fits
  BY <1>0, <1>1, <1>2 DEF Delete
<1>3. CASE HourPasses
  <2>1. /\ UNCHANGED <<item, worker, cleaner, used>>
        /\ worker.pc = "idle" /\ sync.pc = "idle" /\ cleaner.pc \notin {"live", "sweep"}
        /\ file' = [p \in Paths |-> IF file[p] = "new" THEN "old" ELSE file[p]]
    BY <1>3 DEF HourPasses
  <2>2. \A p \in Paths : FileFits(p)
    BY <2>1 DEF FileFits
  <2>3. \A p \in Paths : StaleFits(p)
    BY <2>1 DEF StaleFits
  <2> QED BY <2>1, <2>2, <2>3 DEF Fits, CleanupFits
<1>4. CASE (\E b \in Blobs : PeerUpload(b)) \/ UNCHANGED vars
  BY <1>1, <1>4 DEF PeerUpload, vars
<1>5. CASE Restart
  <2>1. /\ worker'.pc = "idle" /\ cleaner'.pc = "waiting" /\ cleaner'.stale = {}
        /\ UNCHANGED <<item, file, used>>
    BY <1>5 DEF Restart, WorkerIdle, CleanerWaits
  <2> QED BY <2>1 DEF Fits, CleanupFits, FileFits, StaleFits
<1>6. CASE Import
  <2>1. /\ UNCHANGED <<file, worker, used>>
        /\ cleaner'.pc = cleaner.pc /\ cleaner'.live = cleaner.live /\ cleaner'.left = cleaner.left
        /\ cleaner'.stale = {p \in cleaner.stale : item'[Owner(p)] # "live"}
    BY <1>0, <1>6 DEF Import, Cleaner
  <2> QED BY <2>1 DEF Fits, CleanupFits, FileFits, StaleFits
<1>7. CASE Fetch
  <2>1. PICK e \in sync.todo :
          \/ UNCHANGED <<file, cleaner>>
          \/ /\ file' = [file EXCEPT ![Download(e[1])] = "new"]
             /\ cleaner' = [cleaner EXCEPT !.stale = @ \ {Download(e[1])}]
    BY <1>7 DEF Fetch
  <2>2. UNCHANGED <<item, worker, used>>
    BY <1>7 DEF Fetch
  <2>3. CASE UNCHANGED <<file, cleaner>>
    BY <1>1, <2>2, <2>3
  <2>4. CASE /\ file' = [file EXCEPT ![Download(e[1])] = "new"]
             /\ cleaner' = [cleaner EXCEPT !.stale = @ \ {Download(e[1])}]
    <3>1. /\ cleaner'.pc = cleaner.pc /\ cleaner'.live = cleaner.live /\ cleaner'.left = cleaner.left
          /\ cleaner'.stale = cleaner.stale \ {Download(e[1])}
      BY <1>0, <2>4 DEF Cleaner
    <3>2. Download(e[1]) \in Paths /\ Download(e[1])[1] = "download"
          /\ item[Owner(Download(e[1]))] # "none"
      BY <1>0, PathType, Parts DEF Sourced
    <3>3. \A p \in Paths : FileFits(p)
      BY <1>0, <2>4, <3>1, <3>2 DEF FileFits
    <3>4. \A p \in Paths : StaleFits(p)
      BY <2>2, <3>1 DEF StaleFits
    <3> QED BY <2>2, <3>1, <3>3, <3>4 DEF Fits, CleanupFits
  <2> QED BY <2>1, <2>3, <2>4
<1>8. ASSUME \/ ListMissing \/ RecordFetched \/ EndImport \/ ListUploadable \/ Send \/ EndWrite
             \/ MarkUploaded \/ EndExport \/ Fail
      PROVE  Fits
  BY <1>1, <1>8 DEF ListMissing, RecordFetched, EndImport, ListUploadable, Send, EndWrite,
     MarkUploaded, EndExport, Fail
<1> QED BY <1>2, <1>3, <1>4, <1>5, <1>6, <1>7, <1>8, CleanEffect DEF SyncNext

-----------------------------------------------------------------------------
(* Which files an ingest finds, and which files are dead *)

\* Files and stale entries of a captured item come after its ingest began, which
\* finds none of them.
Written ==
    /\ \A p \in Paths :
          Owner(p) \in Captured /\ (file[p] # "none" \/ p \in cleaner.stale) => Owner(p) \in used
    /\ worker.pc = "row" =>
          \A p \in Paths : Owner(p) = worker.id =>
              /\ p \notin cleaner.stale
              /\ file[p] = IF p = Image(worker.id) THEN "new" ELSE "none"
    /\ worker.pc \in {"format", "blobs"} =>
          \A b \in BlobsOf(worker.id) : Variant(b) \notin cleaner.stale /\ file[Variant(b)] = "none"

LEMMA WrittenStart == Init => Written
<1> SUFFICES ASSUME Init PROVE Written
  OBVIOUS
<1> USE DEF Init, WorkerIdle, CleanerWaits
<1>1. PICK here \in SUBSET Received :
        file = [p \in Paths |-> IF p[1] = "download" /\ Owner(p) \in here THEN "new" ELSE "none"]
  OBVIOUS
<1>2. \A p \in Paths : file[p] # "none" => Owner(p) \notin Captured
  BY <1>1, Apart
<1> QED BY <1>2 DEF Written

\* What PrepareBlobs leaves: an end of the ingest, or blobs to insert; and variants.
LEMMA Prepared ==
    ASSUME Typed, PrepareBlobs
    PROVE  \E made, variants \in SUBSET BlobsOf(worker.id) :
              /\ worker.pc = "blobs" /\ worker.id \in Captured
              /\ worker'.pc # "idle" => /\ worker'.pc = "insert" /\ worker'.id = worker.id
                                        /\ worker'.todo = Todo(made, variants)
              /\ file' = [p \in Paths |-> IF p \in Variants(variants) THEN "new" ELSE file[p]]
              /\ UNCHANGED <<item, blob, cleaner, sync, used, revived>>
<1>1. worker \in Worker /\ worker.pc = "blobs" /\ worker.id \in Captured /\ worker.id \in Items
  BY Apart DEF PrepareBlobs, Typed, TypeOK, Named
<1>2. PICK made \in SUBSET BlobsOf(worker.id), variants \in SUBSET BlobsOf(worker.id) :
              /\ InsertNext(Todo(made, variants))
              /\ file' = [p \in Paths |-> IF p \in Variants(variants) THEN "new" ELSE file[p]]
  BY Preparing
<1>3. worker'.pc # "idle" => /\ worker'.pc = "insert" /\ worker'.id = worker.id
                             /\ worker'.todo = Todo(made, variants)
  BY <1>1, <1>2, TodoType, InsertNextType DEF BlobsOf, Typed
<1>4. UNCHANGED <<item, blob, cleaner, sync, used, revived>>
  BY DEF PrepareBlobs, WorkerStep, rows
<1> QED BY <1>1, <1>2, <1>3, <1>4

LEMMA WrittenStep == Typed /\ Kept /\ Sourced /\ Written /\ [Next]_vars => Written'
<1> SUFFICES ASSUME Typed, Kept, Sourced, Written, [Next]_vars PROVE Written'
  OBVIOUS
<1> USE DEF WorkerStep, rows
<1>0. /\ worker \in Worker /\ file \in [Paths -> {"none", "new", "old"}]
      /\ worker.pc # "idle" => worker.id \in Captured /\ worker.id \in Items /\ worker.id \in used
      /\ \A i \in Items : Former(i) => item[i] # "none"
      /\ \A i \in Captured : item[i] # "none" => i \in used
      /\ worker.pc = "row" => item[worker.id] = "none"
  BY Apart DEF Typed, TypeOK, Named, Kept, Ordered, Former
<1>1. ASSUME Fits PROVE Written'
  <2>1. \A p \in Paths : Owner(p) \in Captured /\ (file'[p] # "none" \/ p \in cleaner'.stale)
                         => Owner(p) \in used'
    BY <1>0, <1>1, Apart DEF Fits, FileFits, StaleFits, Written
  <2>2. ASSUME worker'.pc = "row", NEW p \in Paths, Owner(p) = worker'.id
        PROVE  /\ p \notin cleaner'.stale
               /\ file'[p] = IF p = Image(worker'.id) THEN "new" ELSE "none"
    <3>1. worker' = worker /\ ~Former(Owner(p)) /\ item[Owner(p)] = "none"
          /\ p \notin cleaner.stale /\ file[p] = IF p = Image(worker.id) THEN "new" ELSE "none"
      BY <1>0, <1>1, <2>2, Parts DEF Fits, Written
    <3>2. file'[p] = file[p]
      BY <1>1, <2>2, <3>1 DEF Fits, FileFits
    <3> QED BY <1>1, <3>1, <3>2 DEF Fits, StaleFits
  <2>3. ASSUME worker'.pc \in {"format", "blobs"}, NEW b \in BlobsOf(worker'.id)
        PROVE  Variant(b) \notin cleaner'.stale /\ file'[Variant(b)] = "none"
    <3>1. /\ worker' = worker /\ Variant(b) \in Paths /\ Variant(b)[1] # "download"
          /\ Variant(b) \notin cleaner.stale /\ file[Variant(b)] = "none"
      BY <1>0, <1>1, <2>3, Parts, PathType DEF Fits, Written, BlobsOf
    <3> QED BY <1>1, <3>1 DEF Fits, FileFits, StaleFits
  <2> QED BY <2>1, <2>2, <2>3 DEF Written
<1>2. ASSUME NEW i \in Captured, StoreImage(i) PROVE Written'
  <2>1. /\ worker'.pc = "row" /\ worker'.id = i /\ i \notin used /\ used' = used \cup {i}
        /\ file' = [file EXCEPT ![Image(i)] = "new"] /\ UNCHANGED cleaner
    BY <1>0, <1>2 DEF StoreImage, Worker
  <2>2. i \in Items /\ Image(i) \in Paths /\ Owner(Image(i)) = i
    BY Apart, PathType, Parts
  <2>3. \A p \in Paths : Owner(p) = i => p \notin cleaner.stale /\ file[p] = "none"
    BY <2>1 DEF Written
  <2> QED BY <1>0, <2>1, <2>2, <2>3 DEF Written
<1>3. CASE InsertRow
  <2>1. /\ worker.pc = "row" /\ worker'.pc = "format" /\ worker'.id = worker.id
        /\ UNCHANGED <<file, cleaner, used>>
    BY <1>0, <1>3 DEF InsertRow, Worker
  <2>2. \A b \in BlobsOf(worker.id) : /\ Variant(b) \in Paths /\ Owner(Variant(b)) = worker.id
                                      /\ Variant(b) # Image(worker.id)
    BY <1>0, <2>1, PathType, Parts DEF BlobsOf
  <2> QED BY <2>1, <2>2 DEF Written
<1>4. CASE InsertFormat
  <2>1. /\ worker.pc = "format" /\ worker'.pc = "blobs" /\ worker'.id = worker.id
        /\ UNCHANGED <<file, cleaner, used>>
    BY <1>0, <1>4 DEF InsertFormat, Worker
  <2> QED BY <2>1 DEF Written
<1>5. CASE PrepareBlobs
  <2>1. PICK made \in SUBSET BlobsOf(worker.id), variants \in SUBSET BlobsOf(worker.id) :
              /\ worker.pc = "blobs" /\ worker.id \in Captured
              /\ worker'.pc # "idle" => worker'.pc = "insert"
              /\ file' = [p \in Paths |-> IF p \in Variants(variants) THEN "new" ELSE file[p]]
              /\ UNCHANGED <<cleaner, used>>
    BY <1>5, Prepared
  <2>2. \A p \in Variants(variants) : Owner(p) = worker.id
    BY Parts DEF Variants, BlobsOf
  <2>3. \A p \in Paths : file'[p] # "none" => file[p] # "none" \/ Owner(p) = worker.id
    BY <2>1, <2>2
  <2> QED BY <1>0, <2>1, <2>3 DEF Written
<1>6. CASE InsertBlob
  <2>1. PICK e \in worker.todo : InsertNext(worker.todo \ {e})
    BY <1>6 DEF InsertBlob
  <2>2. /\ worker.pc = "insert" /\ worker.todo \in SUBSET (Blobs \X Paths)
        /\ UNCHANGED <<file, cleaner, used>>
    BY <1>0, <1>6 DEF InsertBlob, Worker
  <2>3. worker'.pc \in {"idle", "insert"}
    BY <2>1, <2>2, InsertNextType DEF Typed
  <2> QED BY <2>2, <2>3 DEF Written
<1>7. CASE IngestFails
  <2>1. worker'.pc = "idle" /\ UNCHANGED <<file, cleaner, used>>
    BY <1>7 DEF IngestFails, WorkerIdle
  <2> QED BY <2>1 DEF Written
<1> QED BY <1>1, <1>2, <1>3, <1>4, <1>5, <1>6, <1>7, Effect DEF Next

\* A stale file is of an item that is not live, is not written again, and goes with
\* the directory that the sweep has walked, unless it could not be removed.
Dead ==
    \A p \in cleaner.stale :
        /\ item[Owner(p)] # "live" /\ file[p] # "new"
        /\ cleaner.pc \in {"live", "sweep"} => Owner(p) \notin cleaner.live
        /\ cleaner.pc = "sweep" /\ p[1] = "image" => file[p] = "none" \/ p \in cleaner.left
        /\ cleaner.pc = "done" => file[p] = "none" \/ p \in cleaner.left

LEMMA DeadStart == Init => Dead
BY DEF Init, CleanerWaits, Dead

\* The sweep takes every stale file of the kinds it walks, but those it notes.
LEMMA SweepTakes ==
    ASSUME Typed, Dead, cleaner.pc \in {"live", "sweep"},
           NEW kinds, NEW from, NEW to, Sweep(kinds, from, to)
    PROVE  /\ cleaner.pc = from /\ cleaner'.pc = to /\ cleaner'.live = cleaner.live
           /\ cleaner'.stale = cleaner.stale /\ cleaner.left \subseteq cleaner'.left
           /\ \A p \in cleaner.stale : p[1] \in kinds => file'[p] = "none" \/ p \in cleaner'.left
<1>1. /\ cleaner \in Cleaner /\ cleaner.stale \subseteq Paths /\ cleaner.live \subseteq Items
      /\ file \in [Paths -> {"none", "new", "old"}]
  BY DEF Typed, TypeOK, Cleaner
<1>2. PICK stays \in SUBSET Swept(kinds) :
        /\ file' = [p \in Paths |-> IF p \in Swept(kinds) \ stays THEN "none" ELSE file[p]]
        /\ cleaner' = [cleaner EXCEPT !.pc = to, !.left = @ \cup stays]
  BY DEF Sweep
<1>3. /\ cleaner'.pc = to /\ cleaner'.live = cleaner.live /\ cleaner'.stale = cleaner.stale
      /\ cleaner'.left = cleaner.left \cup stays
  BY <1>1, <1>2 DEF Cleaner
<1>4. ASSUME NEW p \in cleaner.stale, p[1] \in kinds
      PROVE  file'[p] = "none" \/ p \in cleaner'.left
  <2>1. OwnerByName(p) \notin cleaner.live /\ file[p] # "new" /\ p \in Paths
    BY <1>1, <1>4, BlobFilesAssumption DEF Dead, OwnerByName
  <2>2. file[p] # "none" => p \in Swept(kinds)
    BY <1>1, <1>4, <2>1 DEF Swept
  <2> QED BY <1>2, <1>3, <2>1, <2>2
<1> QED BY <1>3, <1>4 DEF Sweep

LEMMA DeadStep == Typed /\ Kept /\ Sourced /\ Written /\ Dead /\ [Next]_vars => Dead'
<1> SUFFICES ASSUME Typed, Kept, Sourced, Written, Dead, [Next]_vars PROVE Dead'
  OBVIOUS
<1> USE DEF WorkerStep, rows
<1>0. /\ worker \in Worker /\ cleaner \in Cleaner /\ cleaner.stale \subseteq Paths
      /\ file \in [Paths -> {"none", "new", "old"}]
      /\ worker.pc # "idle" => worker.id \in Captured /\ worker.id \in Items
  BY Apart DEF Typed, TypeOK, Named, Cleaner
<1>1. ASSUME Fits, cleaner'.stale \subseteq Paths PROVE Dead'
  <2>1. ASSUME NEW p \in cleaner'.stale
        PROVE  item'[Owner(p)] # "live" /\ file'[p] # "new"
    BY <1>0, <1>1 DEF Fits, FileFits, StaleFits, Dead
  <2>2. ASSUME NEW p \in cleaner'.stale, file[p] = "none", file[p] # "new" PROVE file'[p] = "none"
    BY <1>0, <1>1, <2>2 DEF Fits, FileFits
  <2>3. CASE cleaner'.pc = cleaner.pc /\ cleaner'.live = cleaner.live
             /\ cleaner'.stale \subseteq cleaner.stale /\ cleaner'.left = cleaner.left
    BY <1>1, <2>1, <2>2, <2>3 DEF Dead
  <2>4. CASE cleaner'.pc \notin {"live", "sweep", "done"}
    BY <2>1, <2>4 DEF Dead
  <2>5. CASE ListLive
    <3>1. /\ cleaner'.pc = "live" /\ cleaner'.live = Live /\ cleaner'.stale = cleaner.stale
          /\ UNCHANGED item
      BY <1>0, <2>5 DEF ListLive, CleanerStep, Cleaner
    <3>2. \A p \in cleaner'.stale : Owner(p) \notin cleaner'.live
      BY <3>1 DEF Dead, Live
    <3> QED BY <2>1, <3>1, <3>2 DEF Dead
  <2>6. CASE SweepImages
    <3>1. /\ cleaner.pc = "live" /\ cleaner'.pc = "sweep" /\ cleaner'.live = cleaner.live
          /\ cleaner'.stale = cleaner.stale
          /\ \A p \in cleaner.stale : p[1] = "image" => file'[p] = "none" \/ p \in cleaner'.left
      <4>1. cleaner.pc = "live" /\ Sweep({"image"}, "live", "sweep")
        BY <2>6 DEF SweepImages, Sweep
      <4> QED BY <4>1, SweepTakes
    <3> QED BY <2>1, <3>1 DEF Dead
  <2>7. CASE SweepSyncImages
    <3>1. /\ cleaner.pc = "sweep" /\ cleaner'.pc = "done" /\ cleaner'.stale = cleaner.stale
          /\ cleaner.left \subseteq cleaner'.left
          /\ \A p \in cleaner.stale : p[1] \in {"variant", "download"} =>
                file'[p] = "none" \/ p \in cleaner'.left
      <4>1. cleaner.pc = "sweep" /\ Sweep({"variant", "download"}, "sweep", "done")
        BY <2>7 DEF SweepSyncImages, Sweep
      <4> QED BY <4>1, SweepTakes
    <3>2. \A p \in cleaner.stale : p[1] = "image" => file'[p] = "none" \/ p \in cleaner'.left
      BY <1>0, <2>2, <3>1 DEF Dead
    <3>3. \A p \in cleaner.stale : file'[p] = "none" \/ p \in cleaner'.left
      BY <1>0, <3>1, <3>2, Parts
    <3> QED BY <2>1, <3>1, <3>3 DEF Dead
  <2> QED BY <1>1, <2>3, <2>4, <2>5, <2>6, <2>7 DEF Fits, CleanupFits
<1>2. ASSUME NEW i \in Captured, StoreImage(i) PROVE Dead'
  <2>1. /\ i \notin used /\ UNCHANGED <<item, cleaner>>
        /\ file' = [file EXCEPT ![Image(i)] = "new"]
    BY <1>2 DEF StoreImage
  <2>2. Image(i) \notin cleaner.stale
    BY <1>0, <2>1, Apart, PathType, Parts DEF Written
  <2>3. \A p \in cleaner.stale : file'[p] = file[p]
    BY <1>0, <2>1, <2>2
  <2> QED BY <2>1, <2>3 DEF Dead
<1>3. CASE InsertRow
  <2>1. /\ worker.pc = "row" /\ UNCHANGED <<file, cleaner>>
        /\ item' = [item EXCEPT ![worker.id] = "live"]
    BY <1>3 DEF InsertRow
  <2>2. \A p \in cleaner.stale : Owner(p) # worker.id
    BY <1>0, <2>1 DEF Written
  <2>3. \A p \in cleaner.stale : item'[Owner(p)] = item[Owner(p)]
    BY <1>0, <2>1, <2>2, Parts DEF Typed, TypeOK
  <2> QED BY <2>1, <2>3 DEF Dead
<1>4. CASE PrepareBlobs
  <2>1. PICK made \in SUBSET BlobsOf(worker.id), variants \in SUBSET BlobsOf(worker.id) :
              /\ worker.pc = "blobs"
              /\ file' = [p \in Paths |-> IF p \in Variants(variants) THEN "new" ELSE file[p]]
              /\ UNCHANGED <<item, cleaner>>
    BY <1>4, Prepared
  <2>2. \A p \in Variants(variants) : p \notin cleaner.stale
    BY <2>1 DEF Variants, Written
  <2>3. \A p \in cleaner.stale : file'[p] = file[p]
    BY <1>0, <2>1, <2>2
  <2> QED BY <2>1, <2>3 DEF Dead
<1>5. CASE InsertFormat \/ InsertBlob \/ IngestFails
  BY <1>5 DEF InsertFormat, InsertBlob, IngestFails, Dead
<1>6. cleaner'.stale \subseteq Paths
  <2>1. Typed'
    BY TypeStep
  <2> QED BY <2>1 DEF Typed, TypeOK, Cleaner
<1> QED BY <1>1, <1>2, <1>3, <1>4, <1>5, <1>6, Effect DEF Next

\* After a cleanup no file is left that was an hour old when it began and whose
\* item was not live from then on, unless that sweep could not remove it or not read
\* its directory (blob_cleanup_service.rs remove_orphan_blob_dir_files): whoever wrote
\* it, and wherever an ingest, an earlier cleanup, a removal or a cycle was cut short.
THEOREM DeadFilesGo == Spec => []DeadFilesReclaimed
<1>1. Dead => DeadFilesReclaimed
  BY DEF Dead, DeadFilesReclaimed
<1> QED
  BY <1>1, TypeStart, TypeStep, KeptStart, KeptStep, SourcedStart, SourcedStep, WrittenStart,
     WrittenStep, DeadStart, DeadStep, PTL DEF Spec

-----------------------------------------------------------------------------
(* The files of the blobs *)

\* The variant that a live blob row names, or is about to name, is there, and the
\* sweep does not take it.
Names(b) == blob[b].path = Variant(b) \/ (worker.pc = "insert" /\ <<b, Variant(b)>> \in worker.todo)
VariantKept ==
    \A b \in Blobs : ItemOf[b] \in Captured /\ item[ItemOf[b]] = "live" /\ ItemOf[b] \notin revived =>
        /\ Names(b) => file[Variant(b)] # "none"
        /\ cleaner.pc \in {"live", "sweep"} => ItemOf[b] \in cleaner.live \/ file[Variant(b)] # "old"

LEMMA VariantStart == Init => VariantKept
<1> SUFFICES ASSUME Init PROVE VariantKept
  OBVIOUS
<1>1. \A i \in Captured : item[i] = "none"
  BY BlobFilesAssumption DEF Init, Items
<1> QED BY <1>1 DEF VariantKept

\* What a step that is not the worker's does to the path of a blob, to the items
\* and to the history of the revived ones.
LEMMA PathEffect ==
    ASSUME Typed,
           \/ \E i \in Items : Delete(i)
           \/ HourPasses
           \/ \E b \in Blobs : PeerUpload(b)
           \/ Clean \/ SyncNext \/ Restart \/ UNCHANGED vars
    PROVE  /\ \A b \in Blobs : blob'[b].path \in {blob[b].path, NoPath, Download(b)}
           /\ \A i \in Items : /\ item'[i] = "live" => item[i] = "live" \/ i \in revived' \/ i \in Received
                               /\ i \in revived => i \in revived'
<1> USE DEF Typed, TypeOK, SyncStep, CleanerStep, rows
<1>1. CASE Import
  BY <1>1, ImportEffect
<1>2. CASE ClearBlobPath
  BY <1>2 DEF ClearBlobPath, Blob
<1>3. CASE RecordFetched
  BY <1>3 DEF RecordFetched, Blob
<1>4. ASSUME NEW i \in Items, Delete(i)
      PROVE  /\ \A b \in Blobs : blob'[b].path = blob[b].path
             /\ \A j \in Items : item'[j] = "live" => item[j] = "live"
             /\ revived' = revived
  BY <1>4 DEF Delete, Blob
<1>5. CASE MarkUploaded \/ EndExport
  BY <1>5 DEF MarkUploaded, EndExport, Blob
<1>6. ASSUME \/ HourPasses \/ \E b \in Blobs : PeerUpload(b)
             \/ StartCleanup \/ RemoveListedFile \/ ClearFormatPath \/ ListBlobs
             \/ ListLive \/ SweepImages \/ SweepSyncImages
             \/ ListMissing \/ Fetch \/ EndImport \/ ListUploadable \/ Send \/ EndWrite \/ Fail
             \/ Restart \/ UNCHANGED vars
      PROVE  UNCHANGED <<item, blob, revived>>
  BY <1>6 DEF HourPasses, PeerUpload, StartCleanup, RemoveListedFile, ClearFormatPath, ListBlobs,
     ListLive, SweepImages, SweepSyncImages, Sweep, ListMissing, Fetch, EndImport,
     ListUploadable, Send, EndWrite, Fail, Restart, vars
<1> QED BY <1>1, <1>2, <1>3, <1>4, <1>5, <1>6 DEF Clean, SyncNext

LEMMA VariantStep ==
    Typed /\ Typed' /\ Kept /\ Sourced /\ Written /\ VariantKept /\ [Next]_vars => VariantKept'
<1> SUFFICES ASSUME Typed, Typed', Kept, Sourced, Written, VariantKept, [Next]_vars PROVE VariantKept'
  OBVIOUS
<1> USE DEF WorkerStep, rows
<1>0. /\ worker \in Worker /\ cleaner \in Cleaner
      /\ file \in [Paths -> {"none", "new", "old"}]
      /\ item \in [Items -> {"none", "live", "deleted"}]
      /\ worker.pc # "idle" => worker.id \in Captured /\ worker.id \in Items
      /\ \A b \in Blobs : /\ Variant(b) \in Paths /\ Variant(b) # NoPath
                          /\ Owner(Variant(b)) = ItemOf[b] /\ ItemOf[b] \in Items
                          /\ Variant(b)[1] = "variant"
                          /\ Variant(b) # Image(ItemOf[b]) /\ Variant(b) # Download(b)
      /\ \A b, c \in Blobs : b # c => Variant(b) # Variant(c)
      /\ Captured \subseteq Items
  BY PathType, Parts, Apart DEF Typed, TypeOK, Named
\* A step that keeps the variants, or writes them again, and gives no blob another one.
<1>a. ASSUME UNCHANGED <<item, cleaner, revived>>,
             \A b \in Blobs : file'[Variant(b)] \in {file[Variant(b)], "new"},
             \A b \in Blobs : Names(b)' => Names(b) \/ file'[Variant(b)] = "new"
      PROVE  VariantKept'
  BY <1>0, <1>a DEF VariantKept
<1>1. ASSUME \/ \E i \in Items : Delete(i)
             \/ HourPasses
             \/ \E b \in Blobs : PeerUpload(b)
             \/ Clean \/ SyncNext \/ Restart \/ UNCHANGED vars
      PROVE  VariantKept'
  <2>0. /\ \A b \in Blobs : blob'[b].path \in {blob[b].path, NoPath, Download(b)}
        /\ \A i \in Items : i \in revived => i \in revived'
        /\ \A i \in Items : item'[i] = "live" => item[i] = "live" \/ i \in revived' \/ i \in Received
    BY <1>1, PathEffect
  <2> SUFFICES ASSUME NEW b \in Blobs, ItemOf[b] \in Captured, item'[ItemOf[b]] = "live",
                      ItemOf[b] \notin revived'
               PROVE  /\ Names(b)' => file'[Variant(b)] # "none"
                      /\ cleaner'.pc \in {"live", "sweep"} =>
                            ItemOf[b] \in cleaner'.live \/ file'[Variant(b)] # "old"
    BY DEF VariantKept
  <2>1. Fits
    BY <1>1, Effect
  <2>2. /\ blob'[b].path \in {blob[b].path, NoPath, Download(b)}
        /\ item[ItemOf[b]] = "live" /\ ItemOf[b] \notin revived /\ ~Former(ItemOf[b])
    <3>1. ItemOf[b] \in Items
      BY <1>0
    <3>2. /\ item[ItemOf[b]] = "live" \/ ItemOf[b] \in revived' \/ ItemOf[b] \in Received
          /\ ItemOf[b] \in revived => ItemOf[b] \in revived'
      BY <2>0, <3>1
    <3> QED BY <2>0, <3>2, Apart DEF Former
  <2>3. /\ Names(b) => file[Variant(b)] # "none"
        /\ cleaner.pc \in {"live", "sweep"} => ItemOf[b] \in cleaner.live \/ file[Variant(b)] # "old"
    BY <2>2 DEF VariantKept
  <2>4. FileFits(Variant(b)) /\ Variant(b)[1] # "download" /\ Owner(Variant(b)) = ItemOf[b]
    BY <1>0, <2>1 DEF Fits
  <2>5. \/ file'[Variant(b)] = file[Variant(b)]
        \/ /\ file'[Variant(b)] = "none" /\ file[Variant(b)] = "old"
           /\ cleaner.pc \in {"live", "sweep"} /\ ItemOf[b] \notin cleaner.live
        \/ /\ file'[Variant(b)] = "old" /\ file[Variant(b)] = "new"
           /\ cleaner.pc \notin {"live", "sweep"}
    BY <2>2, <2>4 DEF FileFits
  <2>6. Names(b)' => Names(b)
    BY <1>0, <2>1, <2>2 DEF Fits, Names
  <2>7. file[Variant(b)] # "none" => file'[Variant(b)] # "none"
    BY <2>3, <2>5
  <2>8. cleaner'.pc \in {"live", "sweep"} => ItemOf[b] \in cleaner'.live \/ file'[Variant(b)] # "old"
    <3>1. CASE cleaner'.pc = cleaner.pc /\ cleaner'.live = cleaner.live
      BY <2>3, <2>5, <3>1
    <3>2. CASE ListLive
      BY <1>0, <2>2, <3>2 DEF ListLive, Live, Cleaner
    <3>3. CASE SweepImages \/ SweepSyncImages
      <4>1. cleaner.pc \in {"live", "sweep"} /\ cleaner'.live = cleaner.live
        BY <1>0, <3>3 DEF SweepImages, SweepSyncImages, Sweep, Cleaner
      <4> QED BY <2>3, <2>5, <4>1
    <3> QED BY <2>1, <3>1, <3>2, <3>3 DEF Fits, CleanupFits
  <2> QED BY <2>3, <2>6, <2>7, <2>8
<1>2. ASSUME NEW i \in Captured, StoreImage(i) PROVE VariantKept'
  <2>1. /\ worker'.pc = "row" /\ UNCHANGED <<item, blob, cleaner, revived>>
        /\ file' = [file EXCEPT ![Image(i)] = "new"]
    BY <1>0, <1>2 DEF StoreImage, Worker
  <2>2. \A b \in Blobs : file'[Variant(b)] = file[Variant(b)]
    <3>1. \A b \in Blobs : Variant(b) # Image(i)
      BY DEF Variant, Image
    <3> QED BY <1>0, <2>1, <3>1
  <2> QED BY <1>a, <2>1, <2>2 DEF Names
<1>3. CASE InsertRow
  <2>1. /\ worker.pc = "row" /\ worker'.pc = "format" /\ worker.id \in Items
        /\ UNCHANGED <<file, blob, cleaner, revived>>
        /\ item' = [item EXCEPT ![worker.id] = "live"]
    BY <1>0, <1>3 DEF InsertRow, Worker
  <2>2. \A b \in BlobsOf(worker.id) : blob[b].path = NoPath /\ file[Variant(b)] = "none"
    BY <1>0, <2>1 DEF Sourced, Written, Kept, Ordered, BlobsOf
  <2>3. \A b \in Blobs : Names(b)' => blob[b].path = Variant(b)
    BY <2>1 DEF Names
  <2> QED BY <1>0, <2>1, <2>2, <2>3 DEF VariantKept, BlobsOf, Names
<1>4. CASE InsertFormat
  <2>1. worker'.pc = "blobs" /\ UNCHANGED <<item, blob, file, cleaner, revived>>
    BY <1>0, <1>4 DEF InsertFormat, Worker
  <2> QED BY <1>a, <2>1 DEF Names
<1>5. CASE PrepareBlobs
  <2>1. PICK made \in SUBSET BlobsOf(worker.id), variants \in SUBSET BlobsOf(worker.id) :
              /\ worker.id \in Captured
              /\ worker'.pc = "insert" => worker'.todo = Todo(made, variants)
              /\ file' = [p \in Paths |-> IF p \in Variants(variants) THEN "new" ELSE file[p]]
              /\ UNCHANGED <<item, blob, cleaner, revived>>
    BY <1>5, Prepared
  <2>2. \A b \in Blobs : file'[Variant(b)] \in {file[Variant(b)], "new"}
    BY <1>0, <2>1
  <2>3. ASSUME NEW b \in Blobs, <<b, Variant(b)>> \in Todo(made, variants)
        PROVE  file'[Variant(b)] = "new"
    <3>1. \A i \in Items : Variant(b) # Image(i)
      BY DEF Variant, Image
    <3>2. b \in variants
      BY <1>0, <2>1, <2>3, <3>1 DEF Todo
    <3>3. Variant(b) \in Variants(variants)
      BY <3>2 DEF Variants
    <3> QED BY <1>0, <2>1, <3>3
  <2>4. \A b \in Blobs : Names(b)' => Names(b) \/ file'[Variant(b)] = "new"
    BY <2>1, <2>3 DEF Names
  <2> QED BY <1>a, <2>1, <2>2, <2>4
<1>6. CASE InsertBlob
  <2>1. PICK e \in worker.todo :
          /\ blob' = [blob EXCEPT ![e[1]] = [NoBlob EXCEPT !.row = TRUE, !.path = e[2]]]
          /\ InsertNext(worker.todo \ {e})
    BY <1>6 DEF InsertBlob
  <2>2. /\ worker.pc = "insert" /\ worker.todo \in SUBSET (Blobs \X Paths)
        /\ UNCHANGED <<item, file, cleaner, revived>>
    BY <1>0, <1>6 DEF InsertBlob, Worker
  <2>3. worker'.pc = "insert" => worker'.todo \subseteq worker.todo
    BY <2>1, <2>2, InsertNextType DEF Typed
  <2>4. blob'[e[1]].path = e[2] /\ \A b \in Blobs : b # e[1] => blob'[b] = blob[b]
    BY <2>1, <2>2 DEF NoBlob, Typed, TypeOK
  <2>5. ASSUME NEW b \in Blobs, Names(b)' PROVE Names(b)
    <3>1. CASE b = e[1] /\ blob'[b].path = Variant(b)
      <4>1. PICK x \in Blobs, p \in Paths : e = <<x, p>>
        BY <2>2
      <4>2. e = <<b, Variant(b)>>
        BY <2>4, <3>1, <4>1
      <4> QED BY <2>2, <4>2 DEF Names
    <3> QED BY <2>2, <2>3, <2>4, <2>5, <3>1 DEF Names
  <2> QED BY <1>a, <2>2, <2>5
<1>7. CASE IngestFails
  <2>1. worker'.pc = "idle" /\ UNCHANGED <<item, blob, file, cleaner, revived>>
    BY <1>7 DEF IngestFails, WorkerIdle
  <2> QED BY <1>a, <2>1 DEF Names
<1> QED BY <1>1, <1>2, <1>3, <1>4, <1>5, <1>6, <1>7 DEF Next

\* A blob to upload whose file is missing belongs to an item that is deleted or came
\* back, or is a download: the files of a copied image that is live and never was
\* deleted stay for the export (remote_sync_service.rs build_remote_blob_envelope
\* fails on a missing one, and the whole export with it).
THEOREM OnlyDeletedBlock == Spec => []OnlyDeletedBlocksExport
<1>1. ASSUME Typed, Kept, Sourced, VariantKept PROVE OnlyDeletedBlocksExport
  <2> SUFFICES ASSUME NEW b \in Uploadable, Missing(blob[b].path), item[ItemOf[b]] # "deleted",
                      ItemOf[b] \notin revived, blob[b].path # Download(b)
               PROVE  FALSE
    BY DEF OnlyDeletedBlocksExport
  <2>1. b \in Blobs /\ ItemOf[b] \in Items /\ blob[b].path # NoPath /\ file[blob[b].path] = "none"
    BY PathType DEF Uploadable, Missing
  <2>2. blob[b].path \in {Image(ItemOf[b]), Variant(b)} /\ ItemOf[b] \in Captured
    BY <1>1, <2>1 DEF Kept, Paired, Owned, Sourced
  <2>3. item[ItemOf[b]] = "live"
    BY <1>1, <2>1 DEF Sourced, Typed, TypeOK
  <2> QED BY <1>1, <2>1, <2>2, <2>3 DEF Kept, Present, VariantKept, Names
<1> QED
  BY <1>1, TypeStart, TypeStep, KeptStart, KeptStep, SourcedStart, SourcedStep, WrittenStart,
     WrittenStep, VariantStart, VariantStep, PTL DEF Spec

-----------------------------------------------------------------------------
(* The download of missing blobs *)

\* The blob is here: a file of the own directories, or the download.
Got(b) ==
    \/ blob[b].path \in {Image(ItemOf[b]), Variant(b)}
    \/ blob[b].path = Download(b) /\ file[Download(b)] = "new"

\* A blob that is due is here, or gone with its item, or still on the list.
Fetched ==
    /\ sync.pc = "wrote" => file[Download(sync.cur)] = "new" \/ Former(ItemOf[sync.cur])
    /\ sync.pc = "fetched" => sync.todo = {}
    /\ Cardinality(Blobs) <= Limit /\ sync.pc \in {"fetch", "wrote", "fetched"} =>
          \A b \in sync.due : \/ Former(ItemOf[b]) \/ blob[b].deleted \/ Got(b)
                              \/ remote[b] = "whole" /\ \E e \in sync.todo : e[1] = b

LEMMA FetchedStart == Init => Fetched
BY DEF Init, SyncIdle, Fetched

\* A list that may hold as many blobs as there are holds them all.
LEMMA WholeBatch ==
    ASSUME Cardinality(Blobs) <= Limit, NEW S \in SUBSET Blobs, NEW T \in Batches(S)
    PROVE  T = S
<1>1. IsFiniteSet(Blobs) /\ Limit \in Nat /\ T \subseteq Blobs /\ T \subseteq S
  BY BlobFilesAssumption DEF Batches
<1>2. CASE Cardinality(T) = Limit
  <2>1. Cardinality(Blobs) \in Nat /\ Cardinality(T) \in Nat /\ Cardinality(T) <= Cardinality(Blobs)
    BY <1>1, FS_CardinalityType, FS_Subset
  <2>2. Cardinality(T) = Cardinality(Blobs)
    BY <1>1, <1>2, <2>1
  <2>3. T = Blobs
    BY <1>1, <2>2, FS_Subset
  <2> QED BY <1>1, <2>3
<1> QED BY <1>2 DEF Batches

\* What is here stays, unless its item goes.
LEMMA GotStays ==
    ASSUME Typed, Typed', Kept, Sourced, Written, [Next]_vars, NEW b \in Blobs,
           sync.pc # "idle", sync'.pc \in {"fetch", "wrote", "fetched"},
           sync.pc # "merged",
           sync.pc = "wrote" => file[Download(sync.cur)] = "new" \/ Former(ItemOf[sync.cur])
    PROVE  /\ file[Download(b)] = "new" => Former(ItemOf[b]) \/ file'[Download(b)] = "new"
           /\ Got(b) => Former(ItemOf[b])' \/ Got(b)'
           /\ blob[b].deleted => blob'[b].deleted \/ Got(b)'
<1> USE DEF WorkerStep, CleanerStep, SyncStep, rows
<1>0. /\ worker \in Worker /\ cleaner \in Cleaner /\ blob \in [Blobs -> Blob]
      /\ file \in [Paths -> {"none", "new", "old"}] /\ sync \in Sync
      /\ worker.pc # "idle" => worker.id \in Items
      /\ Download(b) \in Paths /\ Owner(Download(b)) = ItemOf[b] /\ ItemOf[b] \in Items
      /\ Former(ItemOf[b]) => Former(ItemOf[b])'
  <2>1. ItemOf[b] \in Items /\ ItemOf' = ItemOf
    BY PathType
  <2>2. Former(ItemOf[b]) => Former(ItemOf[b])'
    BY <2>1, Monotone DEF Former
  <2> QED BY <2>1, <2>2, PathType, Parts, Apart DEF Typed, TypeOK, Named
<1>1. file[Download(b)] = "new" => Former(ItemOf[b]) \/ file'[Download(b)] = "new"
  <2>1. CASE Fits
    BY <1>0, <2>1 DEF Fits, FileFits
  <2>2. CASE (\E j \in Captured : StoreImage(j)) \/ InsertRow \/ InsertFormat \/ InsertBlob
             \/ IngestFails
    BY <1>0, <2>2 DEF StoreImage, InsertRow, InsertFormat, InsertBlob, IngestFails
  <2>3. CASE PrepareBlobs
    BY <1>0, <2>3, Prepared
  <2> QED BY <2>1, <2>2, <2>3, Effect DEF Next
<1>2. CASE blob'[b] = blob[b]
  BY <1>0, <1>1, <1>2 DEF Got
<1>3. CASE InsertBlob
  <2>1. PICK e \in worker.todo : blob' = [blob EXCEPT ![e[1]] = [NoBlob EXCEPT !.row = TRUE, !.path = e[2]]]
    BY <1>3 DEF InsertBlob
  <2>2. ItemOf[e[1]] = worker.id /\ e[2] \in {Image(worker.id), Variant(e[1])}
    BY <1>3, <2>1 DEF InsertBlob, Kept, Paired
  <2>3. b = e[1] => blob'[b].path = e[2]
    BY <1>0, <2>1 DEF NoBlob
  <2>4. b # e[1] => blob'[b] = blob[b]
    BY <1>0, <2>1
  <2>5. ASSUME b = e[1] PROVE Got(b)'
    BY <2>2, <2>3, <2>5 DEF Got
  <2> QED BY <1>1, <1>2, <2>4, <2>5
<1>4. ASSUME NEW j \in Items, Delete(j), blob'[b] # blob[b]
      PROVE  Former(ItemOf[b])' /\ blob'[b].deleted
  <2>1. ItemOf[b] = j /\ blob'[b] = [blob[b] EXCEPT !.deleted = TRUE, !.status = "pending"]
    BY <1>0, <1>4 DEF Delete, BlobsOf
  <2>2. blob'[b].deleted
    BY <1>0, <2>1 DEF Blob
  <2>3. item'[ItemOf[b]] = "deleted"
    BY <1>4, <2>1 DEF Delete, Typed, TypeOK
  <2> QED BY <2>2, <2>3 DEF Former
<1>5. CASE ClearBlobPath
  <2>1. cleaner.cur \in Blobs /\ Former(ItemOf[cleaner.cur])
        /\ blob' = [blob EXCEPT ![cleaner.cur].path = NoPath]
    BY <1>5 DEF ClearBlobPath, Sourced
  <2>2. blob'[b].deleted = blob[b].deleted
    BY <1>0, <2>1 DEF Blob
  <2>3. b # cleaner.cur => blob'[b] = blob[b]
    BY <1>0, <2>1
  <2> QED BY <1>0, <1>2, <2>1, <2>2, <2>3
<1>6. CASE RecordFetched
  <2>1. /\ sync.pc = "wrote" /\ UNCHANGED <<item, file, revived>>
        /\ blob' = [blob EXCEPT ![sync.cur].path = Download(sync.cur),
                                ![sync.cur].status = "synced"]
    BY <1>6 DEF RecordFetched
  <2>2. blob'[b].deleted = blob[b].deleted
    BY <1>0, <2>1 DEF Blob
  <2>3. b # sync.cur => blob'[b] = blob[b]
    BY <1>0, <2>1
  <2>4. b = sync.cur => blob'[b].path = Download(b)
    BY <1>0, <2>1 DEF Blob
  <2>5. b = sync.cur => Former(ItemOf[b]) \/ Got(b)'
    BY <2>1, <2>4 DEF Got
  <2> QED BY <1>0, <1>1, <1>2, <2>2, <2>3, <2>5
<1>7. ASSUME \/ Import \/ MarkUploaded \/ EndExport PROVE FALSE
  <2>1. CASE Import
    BY <1>0, <2>1 DEF Import, Sync
  <2>2. CASE MarkUploaded
    BY <1>0, <2>2 DEF MarkUploaded, Done, Sync
  <2>3. CASE EndExport
    BY <2>3 DEF EndExport, SyncIdle
  <2> QED BY <1>7, <2>1, <2>2, <2>3
<1>8. ASSUME \/ \E j \in Captured : StoreImage(j)
             \/ InsertRow \/ InsertFormat \/ PrepareBlobs \/ IngestFails
             \/ HourPasses \/ \E c \in Blobs : PeerUpload(c)
             \/ StartCleanup \/ RemoveListedFile \/ ClearFormatPath \/ ListBlobs
             \/ ListLive \/ SweepImages \/ SweepSyncImages
             \/ ListMissing \/ Fetch \/ EndImport \/ ListUploadable \/ Send \/ EndWrite \/ Fail
             \/ Restart \/ UNCHANGED vars
      PROVE  UNCHANGED blob
  BY <1>8 DEF StoreImage, InsertRow, InsertFormat, PrepareBlobs, IngestFails, HourPasses, PeerUpload,
     StartCleanup, RemoveListedFile, ClearFormatPath, ListBlobs,
     ListLive, SweepImages, SweepSyncImages, Sweep, ListMissing, Fetch, EndImport,
     ListUploadable, Send, EndWrite, Fail, Restart, vars
<1> QED
  BY <1>1, <1>2, <1>3, <1>4, <1>5, <1>6, <1>7, <1>8 DEF Next, Clean, SyncNext

LEMMA FetchedStep ==
    Typed /\ Typed' /\ Kept /\ Sourced /\ Written /\ Fetched /\ [Next]_vars => Fetched'
<1> SUFFICES ASSUME Typed, Typed', Kept, Sourced, Written, Fetched, [Next]_vars PROVE Fetched'
  OBVIOUS
<1> USE DEF SyncStep, rows
<1>0. /\ sync \in Sync /\ remote \in [Blobs -> {"none", "torn", "whole"}]
      /\ file \in [Paths -> {"none", "new", "old"}] /\ blob \in [Blobs -> Blob]
      /\ sync.due \subseteq Blobs /\ sync'.due \subseteq Blobs
      /\ \A e \in sync.todo : e[1] \in Blobs
      /\ sync.pc = "wrote" => sync.cur \in Blobs
      /\ \A b \in Blobs : ItemOf[b] \in Items
      /\ \A i \in Items : Former(i) => Former(i)'
  BY Monotone, PathType DEF Typed, TypeOK, Named, Sync
<1>1. ASSUME sync'.pc \notin {"fetch", "wrote", "fetched"} PROVE Fetched'
  BY <1>1 DEF Fetched
\* From one step of an import to the next: what is due is the same.
<1>2. ASSUME sync.pc \in {"fetch", "wrote", "fetched"}, sync'.pc \in {"fetch", "wrote", "fetched"},
             sync'.due = sync.due,
             sync'.pc = "wrote" => file'[Download(sync'.cur)] = "new" \/ sync' = sync,
             sync'.pc = "fetched" => sync'.todo = {},
             \A b \in sync.due : remote[b] = "whole" /\ (\E e \in sync.todo : e[1] = b) =>
                 \/ remote'[b] = "whole" /\ \E e \in sync'.todo : e[1] = b
                 \/ Former(ItemOf[b])' \/ Got(b)'
      PROVE  Fetched'
  <2>1. \A b \in Blobs :
           /\ file[Download(b)] = "new" => Former(ItemOf[b]) \/ file'[Download(b)] = "new"
           /\ Got(b) => Former(ItemOf[b])' \/ Got(b)'
           /\ blob[b].deleted => blob'[b].deleted \/ Got(b)'
    BY <1>2, GotStays DEF Fetched
  <2>2. sync'.pc = "wrote" => (file[Download(sync.cur)] = "new" \/ Former(ItemOf[sync.cur]))'
    <3>1. SUFFICES ASSUME sync'.pc = "wrote", sync' = sync
                   PROVE  (file[Download(sync.cur)] = "new" \/ Former(ItemOf[sync.cur]))'
      BY <1>2
    <3>2. file'[Download(sync.cur)] = "new" \/ Former(ItemOf[sync.cur])'
      BY <1>0, <2>1, <3>1 DEF Fetched, Former
    <3> QED BY <3>1, <3>2
  <2>3. ASSUME Cardinality(Blobs) <= Limit, NEW b \in sync'.due
        PROVE  \/ Former(ItemOf[b])' \/ blob'[b].deleted \/ Got(b)'
               \/ remote'[b] = "whole" /\ \E e \in sync'.todo : e[1] = b
    <3>1. b \in sync.due /\ b \in Blobs
      BY <1>0, <1>2, <2>3
    <3>2. \/ Former(ItemOf[b]) \/ blob[b].deleted \/ Got(b)
          \/ remote[b] = "whole" /\ \E e \in sync.todo : e[1] = b
      BY <1>2, <2>3, <3>1 DEF Fetched
    <3> QED BY <1>0, <1>2, <2>1, <3>1, <3>2
  <2> QED BY <1>2, <2>2, <2>3 DEF Fetched
<1>3. ASSUME sync' = sync, \A b \in Blobs : remote[b] = "whole" => remote'[b] = "whole"
      PROVE  Fetched'
  <2>1. CASE sync.pc \in {"fetch", "wrote", "fetched"}
    BY <1>0, <1>2, <1>3, <2>1 DEF Fetched
  <2> QED BY <1>1, <1>3, <2>1
<1>4. CASE ListMissing
  <2>1. PICK T \in Batches(WithRemote) :
          sync' = [sync EXCEPT
                      !.pc = "fetch",
                      !.todo = {<<b, blob[b].path>> : b \in {c \in T : Missing(blob[c].path)}},
                      !.due = {b \in WithRemote : Missing(blob[b].path) /\ remote[b] = "whole"}]
    BY <1>4 DEF ListMissing
  <2>2. /\ sync'.pc = "fetch"
        /\ sync'.todo = {<<b, blob[b].path>> : b \in {c \in T : Missing(blob[c].path)}}
        /\ sync'.due = {b \in WithRemote : Missing(blob[b].path) /\ remote[b] = "whole"}
        /\ remote' = remote
    BY <1>0, <1>4, <2>1 DEF Sync, ListMissing
  <2>3. ASSUME Cardinality(Blobs) <= Limit, NEW b \in sync'.due
        PROVE  remote'[b] = "whole" /\ \E e \in sync'.todo : e[1] = b
    <3>1. WithRemote \in SUBSET Blobs
      BY DEF WithRemote
    <3>2. b \in T /\ Missing(blob[b].path) /\ remote'[b] = "whole"
      BY <2>2, <2>3, <3>1, WholeBatch
    <3>3. <<b, blob[b].path>> \in sync'.todo
      BY <2>2, <3>2
    <3> QED BY <3>2, <3>3
  <2> QED BY <2>2, <2>3 DEF Fetched
<1>5. ASSUME NEW b, Done("fetch", b)
      PROVE  /\ sync'.pc = "fetch" /\ sync'.due = sync.due
             /\ sync'.todo = {e \in sync.todo : e[1] # b}
  BY <1>0, <1>5 DEF Done, Sync
<1>6. CASE Fetch
  <2>1. PICK e \in sync.todo :
          \/ remote[e[1]] = "none" /\ Done("fetch", e[1])
          \/ sync' = SyncIdle
          \/ /\ file' = [file EXCEPT ![Download(e[1])] = "new"]
             /\ sync' = [sync EXCEPT !.pc = "wrote", !.cur = e[1]]
    BY <1>6 DEF Fetch
  <2>2. sync.pc = "fetch" /\ remote' = remote
    BY <1>6 DEF Fetch
  <2>3. CASE remote[e[1]] = "none" /\ Done("fetch", e[1])
    BY <1>2, <1>5, <2>2, <2>3
  <2>4. CASE sync' = SyncIdle
    BY <1>1, <2>4 DEF SyncIdle
  <2>5. CASE /\ file' = [file EXCEPT ![Download(e[1])] = "new"]
             /\ sync' = [sync EXCEPT !.pc = "wrote", !.cur = e[1]]
    <3>1. /\ sync'.pc = "wrote" /\ sync'.cur = e[1] /\ sync'.due = sync.due
          /\ sync'.todo = sync.todo
      BY <1>0, <2>5 DEF Sync
    <3>2. file'[Download(e[1])] = "new"
      BY <1>0, <2>5, PathType
    <3> QED BY <1>2, <2>2, <3>1, <3>2
  <2> QED BY <2>1, <2>3, <2>4, <2>5
<1>7. CASE RecordFetched
  <2>1. /\ sync.pc = "wrote" /\ sync.cur \in Blobs /\ UNCHANGED <<item, file, remote, revived>>
        /\ blob' = [blob EXCEPT ![sync.cur].path = Download(sync.cur),
                                ![sync.cur].status = "synced"]
    BY <1>0, <1>7 DEF RecordFetched
  <2>2. blob'[sync.cur].path = Download(sync.cur)
    BY <1>0, <2>1 DEF Blob
  <2>3. \A b \in Blobs : b = sync.cur => Former(ItemOf[b])' \/ Got(b)'
    BY <1>0, <2>1, <2>2 DEF Fetched, Got, Former
  <2>4. /\ sync'.pc = "fetch" /\ sync'.due = sync.due
        /\ sync'.todo = {e \in sync.todo : e[1] # sync.cur}
    BY <1>5, <1>7 DEF RecordFetched
  <2> QED BY <1>0, <1>2, <2>1, <2>3, <2>4
<1>8. CASE EndImport
  <2>1. /\ sync.pc = "fetch" /\ sync'.pc = "fetched" /\ sync'.due = sync.due
        /\ sync'.todo = sync.todo /\ sync.todo = {} /\ remote' = remote
    BY <1>0, <1>8 DEF EndImport, Sync
  <2> QED BY <1>2, <2>1
<1>9. CASE Import
  BY <1>0, <1>1, <1>9 DEF Import, Sync
<1>10. CASE ListUploadable
  BY <1>1, <1>10 DEF ListUploadable, SyncIdle
<1>11. CASE Send
  <2>1. sync' = SyncIdle \/ \E pc \in {"sending", "sent"}, e \in sync.todo :
          sync' = [sync EXCEPT !.pc = pc, !.cur = e[1]]
    BY <1>11 DEF Send
  <2>2. SyncIdle.pc = "idle"
    BY DEF SyncIdle
  <2>3. ASSUME NEW pc \in {"sending", "sent"}, NEW x, sync' = [sync EXCEPT !.pc = pc, !.cur = x]
        PROVE  sync'.pc = pc
    BY <1>0, <2>3 DEF Sync
  <2> QED BY <1>1, <2>1, <2>2, <2>3
<1>12. CASE EndWrite
  BY <1>0, <1>1, <1>12 DEF EndWrite, Sync
<1>13. CASE MarkUploaded
  BY <1>0, <1>1, <1>13 DEF MarkUploaded, Done, Sync
<1>14. CASE EndExport \/ Fail \/ Restart
  <2>1. sync' = SyncIdle
    BY <1>14 DEF EndExport, Fail, Restart
  <2> QED BY <1>1, <2>1 DEF SyncIdle
<1>15. CASE \/ \E i \in Captured : StoreImage(i)
            \/ InsertRow \/ InsertFormat \/ PrepareBlobs \/ InsertBlob \/ IngestFails
            \/ \E i \in Items : Delete(i)
            \/ HourPasses \/ Clean \/ UNCHANGED vars
  <2>1. UNCHANGED <<sync, remote>>
    BY <1>15 DEF StoreImage, InsertRow, InsertFormat, PrepareBlobs, InsertBlob, IngestFails, WorkerStep, Delete,
       HourPasses, Clean, StartCleanup, RemoveListedFile, ClearFormatPath, ListBlobs,
       ClearBlobPath, ListLive, SweepImages, SweepSyncImages, Sweep, CleanerStep, vars
  <2> QED BY <1>3, <2>1
<1>16. ASSUME NEW b \in Blobs, PeerUpload(b) PROVE Fetched'
  BY <1>0, <1>3, <1>16 DEF PeerUpload
<1> QED
  BY <1>4, <1>6, <1>7, <1>8, <1>9, <1>10, <1>11, <1>12, <1>13, <1>14, <1>15, <1>16
  DEF Next, SyncNext

\* An import that ends has fetched every blob that was missing here and whole on the
\* storage, if there are no more blobs than the list holds (LIMIT 200,
\* sync_blob_service.rs load_missing_local_blobs): with more, the ones beyond the
\* limit may be missed for good.  The exceptions are those of the property: a
\* deletion, or a cleanup that is about to drop the path of the former file.
THEOREM MissingAreFetched == Spec => []MissingBlobsFetched
<1>1. ASSUME Typed, Kept, Sourced, VariantKept, Fetched PROVE MissingBlobsFetched
  <2> SUFFICES ASSUME sync.pc = "fetched", Cardinality(Blobs) <= Limit, NEW b \in sync.due
               PROVE  \/ ~Missing(blob[b].path)
                      \/ item[ItemOf[b]] = "deleted" \/ blob[b].deleted
                      \/ ItemOf[b] \in revived
    BY DEF MissingBlobsFetched
  <2>1. b \in Blobs /\ ItemOf[b] \in Items
    BY <1>1, PathType DEF Typed, TypeOK, Sync
  <2>2. Former(ItemOf[b]) \/ blob[b].deleted \/ Got(b)
    BY <1>1 DEF Fetched
  <2>3. CASE Former(ItemOf[b])
    BY <2>3 DEF Former
  <2>4. CASE Got(b) /\ ~Former(ItemOf[b])
    <3>1. CASE blob[b].path = Download(b) /\ file[Download(b)] = "new"
      BY <2>1, <3>1, PathType DEF Missing
    <3>2. CASE blob[b].path \in {Image(ItemOf[b]), Variant(b)}
      <4>1. ItemOf[b] \in Captured /\ Image(ItemOf[b]) # NoPath /\ Variant(b) # NoPath
        BY <1>1, <2>1, <3>2, PathType DEF Sourced
      <4>2. item[ItemOf[b]] = "live" /\ ItemOf[b] \notin revived
        BY <1>1, <2>1, <2>4, <3>2, <4>1 DEF Sourced, Former, Typed, TypeOK
      <4>3. file[blob[b].path] # "none"
        BY <1>1, <2>1, <3>2, <4>1, <4>2 DEF Kept, Present, VariantKept, Names
      <4> QED BY <4>3, <3>2, <4>1 DEF Missing
    <3> QED BY <2>4, <3>1, <3>2 DEF Got
  <2> QED BY <2>2, <2>3, <2>4
<1> QED
  BY <1>1, TypeStart, TypeStep, KeptStart, KeptStep, SourcedStart, SourcedStep, WrittenStart,
     WrittenStep, VariantStart, VariantStep, FetchedStart, FetchedStep, PTL DEF Spec

=============================================================================
