--------------------------- MODULE SyncQueueProofs ---------------------------
(***************************************************************************)
(* Theorems about SyncQueue, for every value of its constants.             *)
(***************************************************************************)
EXTENDS SyncQueue, FiniteSetTheorems, TLAPS

-----------------------------------------------------------------------------
(* Type correctness *)

\* The rows and exports the initial state and the resets use.
LEMMA RowTypes ==
    /\ NoItem \in ItemRow
    /\ NoEvent \in EventRow
    /\ NoBlob \in BlobRow
    /\ NoPackage \in Package
    /\ Idle \in ExportState
<1>1. NoItem \in ItemRow /\ NoEvent \in EventRow /\ NoBlob \in BlobRow
  BY DEF NoItem, NoEvent, NoBlob, ItemRow, EventRow, BlobRow, RowStatus, Queued
<1>2. NoPackage \in Package
  BY DEF NoPackage, Package
<1> QED
  BY <1>1, <1>2 DEF Idle, ExportState

\* A stamp is a past instant, or the present one.
LEMMA StampType ==
    ASSUME now \in Nat, NEW d \in Nat, NEW t \in Stamps(d)
    PROVE  t \in Nat /\ t > 0 /\ t <= now
  BY DEF Stamps

\* The two updates of an event row keep its type.
LEMMA EventRowUpdates ==
    ASSUME event \in [Items -> [Revs -> EventRow]], NEW i \in Items, NEW r \in Revs
    PROVE  /\ event[i][r] \in EventRow
           /\ \A t \in Nat : [event[i][r] EXCEPT !.abandoned = t] \in EventRow
           /\ [event[i][r] EXCEPT !.synced = TRUE] \in EventRow
<1>1. event[i][r] \in EventRow
  OBVIOUS
<1>2. ASSUME NEW e \in EventRow, NEW t \in Nat
      PROVE  /\ [e EXCEPT !.abandoned = t] \in EventRow
             /\ [e EXCEPT !.synced = TRUE] \in EventRow
  BY DEF EventRow
<1> QED
  BY <1>1, <1>2

LEMMA TypeInit == Init => TypeOK
<1> SUFFICES ASSUME Init PROVE TypeOK
  OBVIOUS
<1>1. /\ item \in [Items -> ItemRow]
      /\ event \in [Items -> [Revs -> EventRow]]
      /\ blob \in [Blobs -> BlobRow]
  BY RowTypes DEF Init
<1>2. exporter \in [Exporters -> ExportState]
  BY RowTypes DEF Init
<1>3. carried \in [Items -> Nat]
  BY DEF Init
<1> QED
  BY <1>1, <1>2, <1>3 DEF Init, TypeOK

LEMMA TypeNext == TypeOK /\ [Next]_vars => TypeOK'
<1> SUFFICES ASSUME TypeOK, [Next]_vars PROVE TypeOK'
  OBVIOUS
<1> USE ConstantsAssumption
    DEF TypeOK, ItemRow, EventRow, BlobRow, OwedWrite, RowStatus, Queued,
        Ticks, Stamps, rows, queueVars, remote
<1>1. ASSUME NEW i \in Items, Ingest(i) PROVE TypeOK'
  BY <1>1 DEF Ingest, Changed
<1>2. ASSUME NEW i \in Items, TogglePin(i) PROVE TypeOK'
  BY <1>2 DEF TogglePin, Changed, Live, Present
<1>3. ASSUME NEW i \in Items, Recapture(i) PROVE TypeOK'
  BY <1>3 DEF Recapture, Touched, Live, Present
<1>4. ASSUME NEW i \in Items, PasteTouch(i) PROVE TypeOK'
  <2>1. PICK t \in Stamps(Rounding) :
           item' = [item EXCEPT ![i].updated = t] /\ Touched({i}, t)
    BY <1>4 DEF PasteTouch
  <2>2. t \in Nat
    BY <2>1, StampType
  <2>3. item' \in [Items -> ItemRow]
    BY <2>1, <2>2
  <2>4. late' \subseteq Items
    BY <2>1 DEF Touched
  <2> QED
    BY <1>4, <2>3, <2>4 DEF PasteTouch
<1>5. ASSUME NEW S \in SUBSET Items, Delete(S) PROVE TypeOK'
  <2>1. PICK t \in Stamps(Lag) : TombstoneWrites(S, t)
    BY <1>5 DEF Delete
  <2>2. t \in Nat
    BY <2>1, StampType
  <2>3. item' \in [Items -> ItemRow]
    <3>1. ASSUME NEW i \in Items
          PROVE  /\ item[i] \in ItemRow
                 /\ [status |-> "pending", rev |-> item[i].rev + 1,
                     updated |-> t, deleted |-> t] \in ItemRow
      BY <2>2
    <3> QED
      BY <2>1, <3>1 DEF TombstoneWrites
  <2>4. event' \in [Items -> [Revs -> EventRow]]
    BY <2>1, <2>2 DEF TombstoneWrites
  <2>5. blob' \in [Blobs -> BlobRow]
    BY <2>1, <2>2 DEF TombstoneWrites
  <2>6. late' \subseteq Items
    BY <2>1 DEF TombstoneWrites, Changed
  <2> QED
    BY <1>5, <2>3, <2>4, <2>5, <2>6 DEF Delete
<1>6. ASSUME NEW o \in owed, LogEvent(o) PROVE TypeOK'
  BY <1>6 DEF LogEvent, Revs
<1>7. ASSUME NEW o \in owed, AddBlobs(o) PROVE TypeOK'
  BY <1>7 DEF AddBlobs, NoBlob
<1>8. CASE Abandon
  <2>1. PICK t \in Stamps(Lag) : AbandonWrites(t)
    BY <1>8 DEF Abandon
  <2>2. t \in Nat
    BY <2>1, StampType
  <2>3. item' \in [Items -> ItemRow]
    BY <2>1 DEF AbandonWrites
  <2>4. event' \in [Items -> [Revs -> EventRow]]
    BY <2>1, <2>2, EventRowUpdates DEF AbandonWrites
  <2>5. blob' \in [Blobs -> BlobRow]
    BY <2>1 DEF AbandonWrites
  <2>6. lastAbandoned' \in Nat
    BY <2>1, <2>2 DEF AbandonWrites
  <2>7. stale' \subseteq Exporters
    BY <1>8 DEF Abandon
  <2>8. /\ now' \in Nat
        /\ UNCHANGED <<owed, exporter, carried, shipped, late>>
    BY <1>8 DEF Abandon
  <2>9. autoSync' \in BOOLEAN /\ fullExport' \in BOOLEAN
    BY <1>8, Zenon DEF Abandon
  <2> QED
    BY <2>3, <2>4, <2>5, <2>6, <2>7, <2>8, <2>9
<1>9. ASSUME NEW on \in BOOLEAN, SetAutoSync(on) PROVE TypeOK'
  BY <1>9 DEF SetAutoSync
<1>10. ASSUME NEW x \in Exporters, StartCycle(x) PROVE TypeOK'
  BY <1>10 DEF StartCycle, ExportState
<1>11. ASSUME NEW x \in Exporters, BeginExport(x) PROVE TypeOK'
  BY <1>11, RowTypes DEF BeginExport, ExportState, Idle
<1>12. ASSUME NEW x \in Exporters, SampleExport(x) PROVE TypeOK'
  <2>1. exporter[x] \in ExportState /\ exporter[x].pkg \in Package
    BY DEF ExportState
  <2>2. [exporter[x].pkg EXCEPT !.at = now] \in Package
    BY <2>1 DEF Package
  <2>3. exporter' = [exporter EXCEPT ![x] = [exporter[x] EXCEPT
                        !.pc = "sampled", !.pkg = [exporter[x].pkg EXCEPT !.at = now]]]
    BY <1>12, <2>1 DEF SampleExport
  <2>4. exporter' \in [Exporters -> ExportState]
    BY <2>1, <2>2, <2>3 DEF ExportState
  <2> QED
    BY <1>12, <2>4 DEF SampleExport
<1>13. ASSUME NEW x \in Exporters, ReadPackage(x) PROVE TypeOK'
  <2> DEFINE at == exporter[x].pkg.at
  <2>1. PICK E \in SUBSET ExportableEvents(at) :
           exporter' = [exporter EXCEPT ![x].pc = "read",
                                        ![x].pkg = PackageOf(at, E)]
    BY <1>13 DEF ReadPackage
  <2>2. exporter[x] \in ExportState /\ at \in Nat
    BY DEF ExportState, Package
  <2>3. E \subseteq Items \X Revs
    BY <2>1 DEF ExportableEvents
  <2>4. PackageOf(at, E) \in Package
    BY <2>2, <2>3 DEF PackageOf, Package
  <2>5. exporter' \in [Exporters -> ExportState]
    BY <2>1, <2>2, <2>4 DEF ExportState
  <2> QED
    BY <1>13, <2>5 DEF ReadPackage
<1>14. ASSUME NEW x \in Exporters, WriteSnapshot(x) PROVE TypeOK'
  <2>1. exporter[x] \in ExportState /\ exporter[x].pkg \in Package
    BY DEF ExportState
  <2>2. exporter' \in [Exporters -> ExportState]
    BY <1>14, <2>1 DEF WriteSnapshot, ExportState
  <2>3. carried' \in [Items -> Nat] /\ shipped' \subseteq Items \X Revs
    BY <1>14, <2>1 DEF WriteSnapshot, Package
  <2> QED
    BY <1>14, <2>2, <2>3 DEF WriteSnapshot
<1>15. ASSUME NEW x \in Exporters, MarkExported(x) PROVE TypeOK'
  <2>1. item' \in [Items -> ItemRow]
    BY <1>15 DEF MarkExported
  <2>2. event' \in [Items -> [Revs -> EventRow]]
    BY <1>15, EventRowUpdates DEF MarkExported
  <2>3. blob' \in [Blobs -> BlobRow]
    BY <1>15 DEF MarkExported
  <2>4. fullExport' \in BOOLEAN
    BY <1>15 DEF MarkExported, StillRequired, SomeAbandoned
  <2>5. exporter' \in [Exporters -> ExportState]
    BY <1>15, RowTypes DEF MarkExported
  <2> QED
    BY <1>15, <2>1, <2>2, <2>3, <2>4, <2>5 DEF MarkExported
<1>16. ASSUME NEW x \in Exporters, FailExport(x) PROVE TypeOK'
  BY <1>16, RowTypes DEF FailExport
<1>17. ASSUME NEW x \in Exporters, NEW b \in Blobs, UploadBlob(x, b) PROVE TypeOK'
  <2>1. exporter[x] \in ExportState
    OBVIOUS
  <2>2. exporter' \in [Exporters -> ExportState]
    BY <1>17, <2>1 DEF UploadBlob, ExportState
  <2>3. blob' \in [Blobs -> BlobRow]
    <3>1. exporter[x].since \in Nat
      BY <2>1 DEF ExportState
    <3>2. [blob[b] EXCEPT !.status = "synced", !.remote = exporter[x].since] \in BlobRow
      BY <3>1
    <3>3. blob' = blob \/ blob' = [blob EXCEPT ![b] = [blob[b] EXCEPT
                              !.status = "synced", !.remote = exporter[x].since]]
      BY <1>17 DEF UploadBlob
    <3> QED
      BY <3>2, <3>3
  <2> QED
    BY <1>17, <2>2, <2>3 DEF UploadBlob
<1>18. CASE Cleanup
  BY <1>18 DEF Cleanup, NoEvent, NoBlob
<1>19. CASE Crash
  BY <1>19, RowTypes DEF Crash
<1>20. CASE Tick
  BY <1>20 DEF Tick
<1>21. CASE UNCHANGED vars
  BY <1>21 DEF vars
<1> QED
  BY <1>1, <1>2, <1>3, <1>4, <1>5, <1>6, <1>7, <1>8, <1>9, <1>10, <1>11, <1>12,
     <1>13, <1>14, <1>15, <1>16, <1>17, <1>18, <1>19, <1>20, <1>21
  DEF Next

\* Every variable keeps its type.
THEOREM TypeCorrect == Spec => []TypeOK
  BY TypeInit, TypeNext, PTL DEF Spec

-----------------------------------------------------------------------------
(* No change is lost *)

\* An export's checkpoint lies in the past: whatever commits from now on with a
\* fresh stamp is later than the checkpoint.
CheckpointIsPast ==
    \A x \in Exporters :
        exporter[x].pc \in {"sampled", "read", "written"} => exporter[x].pkg.at < now

\* What a written package holds is on the remote.
WrittenIsCarried ==
    \A x \in Exporters, i \in Items :
        exporter[x].pc = "written" => carried[i] >= exporter[x].pkg.items[i]

\* The inductive invariant behind NoChangeLost.
IInv == CheckpointIsPast /\ PackageCoversQueue /\ WrittenIsCarried /\ NoChangeLost

LEMMA IInvInit == Init => IInv
  BY DEF Init, IInv, CheckpointIsPast, PackageCoversQueue, WrittenIsCarried,
         NoChangeLost, Idle, NoItem, Acknowledged

\* A change of the rows in S, stamped t, keeps the invariant: a fresh t is later
\* than every checkpoint, a stale one makes the rows late.
LEMMA ChangeKeepsIInv ==
    ASSUME TypeOK, IInv, NEW S \in SUBSET Items, NEW t \in Nat, t <= now,
           \A i \in S : item'[i].status = "pending" /\ item'[i].updated = t,
           \A i \in Items \ S : item'[i] = item[i],
           Changed(S, t), now' = now + 1, UNCHANGED <<exporter, carried>>
    PROVE  IInv'
<1> USE DEF TypeOK, IInv, Changed
<1>1. CheckpointIsPast'
  BY DEF CheckpointIsPast, ExportState, Package
<1>2. PackageCoversQueue'
  BY DEF CheckpointIsPast, PackageCoversQueue, ExportState, Package
<1>3. WrittenIsCarried'
  BY DEF WrittenIsCarried
<1>4. NoChangeLost'
  BY DEF NoChangeLost, Acknowledged
<1> QED
  BY <1>1, <1>2, <1>3, <1>4

\* So does a write that moves only the stamp of one row.
LEMMA TouchKeepsIInv ==
    ASSUME TypeOK, IInv, NEW i \in Items, NEW t \in Nat, t <= now,
           item' = [item EXCEPT ![i].updated = t],
           Touched({i}, t), now' = now + 1, UNCHANGED <<exporter, carried>>
    PROVE  IInv'
<1> USE DEF TypeOK, IInv, Touched
<1>1. CheckpointIsPast'
  BY DEF CheckpointIsPast, ExportState, Package
<1>2. \A j \in Items : /\ item'[j].status = item[j].status
                       /\ item'[j].rev = item[j].rev
                       /\ j # i => item'[j].updated = item[j].updated
                       /\ j = i => item'[j].updated = t
  BY DEF ItemRow
<1>3. PackageCoversQueue'
  BY <1>2 DEF CheckpointIsPast, PackageCoversQueue, ExportState, Package
<1>4. WrittenIsCarried'
  BY DEF WrittenIsCarried
<1>5. NoChangeLost'
  BY <1>2 DEF NoChangeLost, Acknowledged
<1> QED
  BY <1>1, <1>3, <1>4, <1>5

\* A step that neither queues nor acknowledges a row, nor advances an export
\* beyond its upload, keeps the invariant.
LEMMA OtherKeepsIInv ==
    ASSUME TypeOK, IInv,
           \A i \in Items :
              /\ item'[i].rev = item[i].rev /\ item'[i].updated = item[i].updated
              /\ item'[i].status \in Queued => item[i].status \in Queued
              /\ Acknowledged(i)' => Acknowledged(i),
           \A x \in Exporters : \/ exporter'[x] = exporter[x]
                                \/ exporter'[x].pc \in {"idle", "cycle", "uploading"},
           now' \in Nat, now' >= now, UNCHANGED <<carried, late>>
    PROVE  IInv'
<1> USE DEF TypeOK, IInv
<1>1. CheckpointIsPast'
  BY DEF CheckpointIsPast, ExportState, Package
<1>2. PackageCoversQueue'
  BY DEF PackageCoversQueue
<1>3. WrittenIsCarried'
  BY DEF WrittenIsCarried
<1>4. NoChangeLost'
  BY DEF NoChangeLost
<1> QED
  BY <1>1, <1>2, <1>3, <1>4

\* Reading a package: what is queued and not later than the checkpoint is in it.
LEMMA ReadKeepsIInv ==
    ASSUME TypeOK, IInv, NEW x \in Exporters, ReadPackage(x)
    PROVE  IInv'
<1> USE DEF TypeOK, IInv, rows, queueVars, remote
<1> DEFINE at == exporter[x].pkg.at
<1>1. PICK E \in SUBSET ExportableEvents(at) :
         exporter' = [exporter EXCEPT ![x].pc = "read", ![x].pkg = PackageOf(at, E)]
  BY DEF ReadPackage
<1>2. UNCHANGED <<item, now, carried, late>> /\ exporter[x].pc = "sampled"
  BY DEF ReadPackage
<1>3. /\ exporter'[x].pc = "read" /\ exporter'[x].pkg = PackageOf(at, E)
      /\ \A y \in Exporters : y # x => exporter'[y] = exporter[y]
  BY <1>1 DEF ExportState
<1>4. CheckpointIsPast'
  BY <1>2, <1>3 DEF CheckpointIsPast, PackageOf
<1>5. PackageCoversQueue'
  <2> SUFFICES ASSUME NEW i \in Items \ late, item[i].status \in Queued,
                      item[i].updated <= at
               PROVE  PackageOf(at, E).items[i] >= item[i].rev
    BY <1>2, <1>3 DEF PackageCoversQueue, PackageOf
  <2>1. Exportable(i, at)
    BY DEF Exportable, Present, RowStatus
  <2> QED
    BY <2>1 DEF PackageOf, ItemRow
<1>6. WrittenIsCarried'
  BY <1>2, <1>3 DEF WrittenIsCarried
<1>7. NoChangeLost'
  BY <1>2 DEF NoChangeLost, Acknowledged
<1> QED
  BY <1>4, <1>5, <1>6, <1>7

\* Marking: a row that leaves the queue is in the written package.
LEMMA MarkKeepsIInv ==
    ASSUME TypeOK, IInv, NEW x \in Exporters, MarkExported(x)
    PROVE  IInv'
<1> USE DEF TypeOK, IInv, remote
<1> DEFINE pkg == exporter[x].pkg
<1>1. /\ exporter[x].pc = "written" /\ exporter' = [exporter EXCEPT ![x] = Idle]
      /\ UNCHANGED <<now, carried, late>>
  BY DEF MarkExported
<1>2. ASSUME NEW i \in Items
      PROVE  \/ item'[i] = item[i]
             \/ /\ item[i].status \in Queued /\ item[i].updated <= pkg.at
                /\ item'[i] = [item[i] EXCEPT !.status = "synced"]
  BY DEF MarkExported, ItemMarked, Queued
<1>3. ASSUME NEW i \in Items
      PROVE  /\ item'[i].rev = item[i].rev /\ item'[i].updated = item[i].updated
             /\ item'[i].status \in Queued => item[i].status \in Queued
  BY <1>2 DEF ItemRow, Queued
<1>4. CheckpointIsPast'
  BY <1>1 DEF CheckpointIsPast, Idle
<1>5. PackageCoversQueue'
  BY <1>1, <1>3 DEF PackageCoversQueue, Idle
<1>6. WrittenIsCarried'
  BY <1>1 DEF WrittenIsCarried, Idle
<1>7. NoChangeLost'
  <2> SUFFICES ASSUME NEW i \in Items \ late, Acknowledged(i)'
               PROVE  carried[i] >= item[i].rev
    BY <1>1, <1>3 DEF NoChangeLost
  <2>1. CASE item'[i] = item[i]
    BY <2>1 DEF NoChangeLost, Acknowledged
  <2>2. CASE item[i].status \in Queued /\ item[i].updated <= pkg.at
    <3>1. pkg.items[i] >= item[i].rev
      BY <1>1, <2>2 DEF PackageCoversQueue
    <3>2. carried[i] >= pkg.items[i]
      BY <1>1 DEF WrittenIsCarried
    <3>3. carried[i] \in Nat /\ pkg.items[i] \in Nat /\ item[i].rev \in Nat
      BY DEF ExportState, Package, ItemRow
    <3> QED
      BY <3>1, <3>2, <3>3
  <2> QED
    BY <1>2, <2>1, <2>2
<1> QED
  BY <1>4, <1>5, <1>6, <1>7

LEMMA IInvNext == TypeOK /\ IInv /\ [Next]_vars => IInv'
<1> SUFFICES ASSUME TypeOK, IInv, [Next]_vars PROVE IInv'
  OBVIOUS
<1> USE ConstantsAssumption DEF TypeOK, rows, queueVars, remote, Ticks
<1>1. ASSUME NEW i \in Items, Ingest(i) PROVE IInv'
  <2>1. PICK t \in Stamps(Lag) :
           /\ item' = [item EXCEPT ![i] = [status |-> "pending", rev |-> 1,
                                           updated |-> t, deleted |-> 0]]
           /\ Changed({i}, t)
    BY <1>1 DEF Ingest
  <2>2. /\ item'[i].status = "pending" /\ item'[i].updated = t
        /\ \A j \in Items \ {i} : item'[j] = item[j]
    BY <2>1
  <2>3. now' = now + 1 /\ UNCHANGED <<exporter, carried>>
    BY <1>1 DEF Ingest
  <2>4. t \in Nat /\ t <= now
    BY StampType
  <2> QED
    BY <2>1, <2>2, <2>3, <2>4, ChangeKeepsIInv
<1>2. ASSUME NEW i \in Items, TogglePin(i) PROVE IInv'
  <2>1. PICK t \in Stamps(Lag) :
           /\ item' = [item EXCEPT ![i].status = "pending", ![i].rev = @ + 1,
                                   ![i].updated = t]
           /\ Changed({i}, t)
    BY <1>2 DEF TogglePin
  <2>2. item'[i].status = "pending" /\ item'[i].updated = t
    BY <2>1 DEF ItemRow
  <2> QED
    BY <1>2, <2>1, <2>2, StampType, ChangeKeepsIInv DEF TogglePin
<1>3. ASSUME NEW i \in Items, Recapture(i) PROVE IInv'
  <2>1. PICK t \in Stamps(Lag) :
           item' = [item EXCEPT ![i].updated = t] /\ Touched({i}, t)
    BY <1>3 DEF Recapture
  <2> QED
    BY <1>3, <2>1, StampType, TouchKeepsIInv DEF Recapture
<1>4. ASSUME NEW i \in Items, PasteTouch(i) PROVE IInv'
  <2>1. PICK t \in Stamps(Rounding) :
           item' = [item EXCEPT ![i].updated = t] /\ Touched({i}, t)
    BY <1>4 DEF PasteTouch
  <2> QED
    BY <1>4, <2>1, StampType, TouchKeepsIInv DEF PasteTouch
<1>5. ASSUME NEW S \in SUBSET Items, Delete(S) PROVE IInv'
  <2>1. PICK t \in Stamps(Lag) : TombstoneWrites(S, t)
    BY <1>5 DEF Delete
  <2>2. /\ \A i \in S : item'[i].status = "pending" /\ item'[i].updated = t
        /\ \A i \in Items \ S : item'[i] = item[i]
        /\ Changed(S, t)
    BY <2>1 DEF TombstoneWrites
  <2> QED
    BY <1>5, <2>2, StampType, ChangeKeepsIInv DEF Delete
<1>6. CASE Abandon
  <2>1. \A i \in Items :
           /\ item'[i].rev = item[i].rev /\ item'[i].updated = item[i].updated
           /\ item'[i].status \in Queued => item[i].status \in Queued
           /\ Acknowledged(i)' => Acknowledged(i)
    BY <1>6 DEF Abandon, AbandonWrites, Queued, Acknowledged, ItemRow
  <2> QED
    BY <1>6, <2>1, OtherKeepsIInv DEF Abandon
<1>7. ASSUME NEW x \in Exporters, SampleExport(x) PROVE IInv'
  <2>1. /\ exporter'[x].pc = "sampled" /\ exporter'[x].pkg.at = now
        /\ \A y \in Exporters : y # x => exporter'[y] = exporter[y]
    BY <1>7 DEF SampleExport, ExportState, Package
  <2>2. UNCHANGED <<item, carried, late>> /\ now' = now + 1
    BY <1>7 DEF SampleExport
  <2>3. CheckpointIsPast'
    <3> SUFFICES ASSUME NEW y \in Exporters,
                        exporter'[y].pc \in {"sampled", "read", "written"}
                 PROVE  exporter'[y].pkg.at < now'
      BY DEF CheckpointIsPast
    <3>1. CASE y = x
      BY <3>1, <2>1, <2>2
    <3>2. CASE y # x
      <4>1. exporter[y].pkg.at \in Nat /\ exporter[y].pkg.at < now
        BY <3>2, <2>1 DEF IInv, CheckpointIsPast, ExportState, Package
      <4> QED
        BY <3>2, <4>1, <2>1, <2>2
    <3> QED
      BY <3>1, <3>2
  <2> QED
    BY <2>1, <2>2, <2>3
    DEF IInv, PackageCoversQueue, WrittenIsCarried, NoChangeLost, Acknowledged
<1>8. ASSUME NEW x \in Exporters, ReadPackage(x) PROVE IInv'
  BY <1>8, ReadKeepsIInv
<1>9. ASSUME NEW x \in Exporters, WriteSnapshot(x) PROVE IInv'
  <2>1. /\ exporter'[x].pc = "written" /\ exporter'[x].pkg = exporter[x].pkg
        /\ exporter[x].pc = "read"
        /\ \A y \in Exporters : y # x => exporter'[y] = exporter[y]
    BY <1>9 DEF WriteSnapshot, ExportState
  <2>2. UNCHANGED <<item, now, late>>
    BY <1>9 DEF WriteSnapshot
  <2>3. \A i \in Items : carried'[i] >= carried[i]
                         /\ carried'[i] >= exporter[x].pkg.items[i]
    BY <1>9 DEF WriteSnapshot, ExportState, Package
  <2>4. CheckpointIsPast' /\ PackageCoversQueue'
    BY <2>1, <2>2 DEF IInv, CheckpointIsPast, PackageCoversQueue
  <2>5. carried' \in [Items -> Nat]
    BY TypeNext
  <2>6. WrittenIsCarried'
    <3> SUFFICES ASSUME NEW y \in Exporters, NEW i \in Items,
                        exporter'[y].pc = "written"
                 PROVE  carried'[i] >= exporter'[y].pkg.items[i]
      BY DEF WrittenIsCarried
    <3>1. CASE y = x
      BY <3>1, <2>1, <2>3
    <3>2. CASE y # x
      <4>1. /\ exporter'[y] = exporter[y] /\ exporter[y].pkg.items[i] \in Nat
            /\ carried[i] >= exporter[y].pkg.items[i]
            /\ carried[i] \in Nat /\ carried'[i] \in Nat
        BY <3>2, <2>1, <2>5 DEF IInv, WrittenIsCarried, ExportState, Package
      <4> QED
        BY <4>1, <2>3
    <3> QED
      BY <3>1, <3>2
  <2>7. NoChangeLost'
    BY <2>2, <2>3, <2>5 DEF IInv, NoChangeLost, Acknowledged, ItemRow
  <2> QED
    BY <2>4, <2>6, <2>7 DEF IInv
<1>10. ASSUME NEW x \in Exporters, MarkExported(x) PROVE IInv'
  BY <1>10, MarkKeepsIInv
<1>11. CASE Cleanup
  <2>1. \A i \in Items :
           /\ item'[i].rev = item[i].rev /\ item'[i].updated = item[i].updated
           /\ item'[i].status \in Queued => item[i].status \in Queued
           /\ Acknowledged(i)' => Acknowledged(i)
    BY <1>11 DEF Cleanup, Purgeable, Queued, Acknowledged, ItemRow
  <2> QED
    BY <1>11, <2>1, OtherKeepsIInv DEF Cleanup
<1>12. ASSUME \/ \E x \in Exporters : \/ StartCycle(x) \/ BeginExport(x)
                                      \/ FailExport(x)
                                      \/ \E b \in Blobs : UploadBlob(x, b)
              \/ Crash
       PROVE  IInv'
  <2> DEFINE Stays == \A y \in Exporters :
                         \/ exporter'[y] = exporter[y]
                         \/ exporter'[y].pc \in {"idle", "cycle", "uploading"}
  <2>1. Stays
    <3>1. ASSUME NEW x \in Exporters, StartCycle(x) \/ FailExport(x) PROVE Stays
      BY <3>1 DEF StartCycle, FailExport, Idle, ExportState
    <3>2. ASSUME NEW x \in Exporters, BeginExport(x) PROVE Stays
      BY <3>2 DEF BeginExport, Idle, ExportState
    <3>3. ASSUME NEW x \in Exporters, NEW b \in Blobs, UploadBlob(x, b) PROVE Stays
      <4>1. exporter'[x].pc = "uploading"
        BY <3>3 DEF UploadBlob, ExportState
      <4> QED
        BY <3>3, <4>1 DEF UploadBlob
    <3>4. CASE Crash
      BY <3>4 DEF Crash, Idle
    <3> QED
      BY <1>12, <3>1, <3>2, <3>3, <3>4
  <2>2. UNCHANGED <<item, now, carried, late>>
    BY <1>12 DEF StartCycle, BeginExport, FailExport, UploadBlob, Crash
  <2> QED
    BY <2>1, <2>2, OtherKeepsIInv DEF Acknowledged
<1>13. ASSUME \/ \E o \in owed : LogEvent(o) \/ AddBlobs(o)
              \/ \E on \in BOOLEAN : SetAutoSync(on)
              \/ Tick
              \/ UNCHANGED vars
       PROVE  IInv'
  <2> DEFINE Same == /\ UNCHANGED <<item, exporter, carried, late>>
                     /\ now' \in Nat /\ now' >= now
  <2>1. Same
    <3>1. ASSUME NEW o \in owed, LogEvent(o) \/ AddBlobs(o) PROVE Same
      BY <3>1 DEF LogEvent, AddBlobs
    <3>2. ASSUME NEW on \in BOOLEAN, SetAutoSync(on) PROVE Same
      BY <3>2 DEF SetAutoSync
    <3>3. CASE Tick \/ UNCHANGED vars
      BY <3>3 DEF Tick, vars
    <3> QED
      BY <1>13, <3>1, <3>2, <3>3
  <2> QED
    BY <2>1, OtherKeepsIInv DEF Acknowledged
<1> QED
  BY <1>1, <1>2, <1>3, <1>4, <1>5, <1>6, <1>7, <1>8, <1>9, <1>10, <1>11, <1>12,
     <1>13
  DEF Next

\* A change leaves the queue only when a written snapshot holds it, however the
\* writers, the exports, the abandonments and crashes interleave.
THEOREM NothingLost == Spec => []NoChangeLost
<1>1. TypeOK /\ IInv /\ [Next]_vars => TypeOK' /\ IInv'
  BY TypeNext, IInvNext
<1>2. Init => TypeOK /\ IInv
  BY TypeInit, IInvInit
<1> QED
  BY <1>1, <1>2, PTL DEF Spec, IInv

\* While an export is between its read and its marks, its package holds the newest
\* revision of every queued row that the marks will accept (load_export_items,
\* mark_sync_exported): a part of the invariant behind NothingLost.
THEOREM PackagesCoverQueue == Spec => []PackageCoversQueue
<1>1. TypeOK /\ IInv /\ [Next]_vars => TypeOK' /\ IInv'
  BY TypeNext, IInvNext
<1>2. Init => TypeOK /\ IInv
  BY TypeInit, IInvInit
<1> QED
  BY <1>1, <1>2, PTL DEF Spec, IInv

-----------------------------------------------------------------------------
(* Abandonment *)

\* Only Abandon adds abandoned rows; a step that adds none and keeps the flag
\* keeps the obligation.
LEMMA AbandonedNext ==
    TypeOK /\ AbandonedNeedsFullExport /\ [Next]_vars => AbandonedNeedsFullExport'
<1> SUFFICES ASSUME TypeOK, AbandonedNeedsFullExport, [Next]_vars, SomeAbandoned'
             PROVE  fullExport'
  BY DEF AbandonedNeedsFullExport
<1> USE ConstantsAssumption
    DEF TypeOK, AbandonedNeedsFullExport, SomeAbandoned, EventAbandoned,
        rows, queueVars, remote
<1>1. ASSUME UNCHANGED <<item, event, blob, fullExport>> PROVE fullExport'
  BY <1>1
<1>2. ASSUME \E i \in Items : Ingest(i) \/ TogglePin(i) \/ Recapture(i) \/ PasteTouch(i)
      PROVE  fullExport'
  <2>1. UNCHANGED <<event, blob, fullExport>>
    BY <1>2 DEF Ingest, TogglePin, Recapture, PasteTouch
  <2>2. \A i \in Items : item'[i].status = "abandoned" => item[i].status = "abandoned"
    <3>1. ASSUME NEW j \in Items, Ingest(j), NEW i \in Items
          PROVE  item'[i].status = "abandoned" => item[i].status = "abandoned"
      BY <3>1 DEF Ingest
    <3>2. ASSUME NEW j \in Items, TogglePin(j), NEW i \in Items
          PROVE  item'[i].status = "abandoned" => item[i].status = "abandoned"
      BY <3>2 DEF TogglePin, ItemRow
    <3>3. ASSUME NEW j \in Items, Recapture(j) \/ PasteTouch(j), NEW i \in Items
          PROVE  item'[i].status = "abandoned" => item[i].status = "abandoned"
      BY <3>3 DEF Recapture, PasteTouch, ItemRow
    <3> QED
      BY <1>2, <3>1, <3>2, <3>3
  <2> QED
    BY <2>1, <2>2
<1>3. ASSUME NEW S \in SUBSET Items, Delete(S) PROVE fullExport'
  <2>1. PICK t \in Stamps(Lag) : TombstoneWrites(S, t)
    BY <1>3 DEF Delete
  <2>2. \A i \in Items : item'[i].status = "abandoned" => item[i].status = "abandoned"
    BY <2>1 DEF TombstoneWrites
  <2>3. ASSUME NEW i \in Items, NEW r \in Revs, EventAbandoned(i, r)'
        PROVE  EventAbandoned(i, r)
    <3>1. event'[i][r] = event[i][r] \/ event'[i][r].abandoned = 0
      BY <2>1 DEF TombstoneWrites
    <3> QED
      BY <2>3, <3>1
  <2>4. \A b \in Blobs : blob'[b].status = "abandoned" => blob[b].status = "abandoned"
    BY <2>1 DEF TombstoneWrites, BlobRow
  <2>5. SomeAbandoned
    BY <2>2, <2>3, <2>4
  <2> QED
    BY <2>5, <1>3 DEF Delete
<1>4. ASSUME NEW o \in owed, LogEvent(o) PROVE fullExport'
  <2>1. \A i \in Items, r \in Revs : EventAbandoned(i, r)' => EventAbandoned(i, r)
    BY <1>4 DEF LogEvent
  <2> QED
    BY <1>4, <2>1 DEF LogEvent
<1>5. ASSUME NEW o \in owed, AddBlobs(o) PROVE fullExport'
  BY <1>5 DEF AddBlobs, NoBlob
<1>6. CASE Abandon
  BY <1>6 DEF Abandon
<1>7. ASSUME NEW x \in Exporters, NEW b \in Blobs, UploadBlob(x, b) PROVE fullExport'
  BY <1>7 DEF UploadBlob, BlobRow
<1>8. ASSUME NEW x \in Exporters, MarkExported(x) PROVE fullExport'
  <2>1. CASE BaselineApplies(exporter[x].pkg)
    BY <1>8, <2>1 DEF MarkExported, StillRequired
  <2>2. CASE ~BaselineApplies(exporter[x].pkg)
    <3>1. fullExport' = fullExport
      BY <1>8, <2>2 DEF MarkExported, StillRequired
    <3>2. \A i \in Items : item'[i].status = "abandoned" => item[i].status = "abandoned"
      BY <1>8 DEF MarkExported, ItemRow
    <3>3. \A i \in Items, r \in Revs : EventAbandoned(i, r)' => EventAbandoned(i, r)
      BY <1>8, EventRowUpdates DEF MarkExported, EventRow
    <3>4. \A b \in Blobs : blob'[b].status = "abandoned" => blob[b].status = "abandoned"
      BY <1>8 DEF MarkExported, BlobRow
    <3> QED
      BY <3>1, <3>2, <3>3, <3>4
  <2> QED
    BY <2>1, <2>2
<1>9. CASE Cleanup
  <2>1. \A i \in Items : item'[i].status = "abandoned" => item[i].status = "abandoned"
    BY <1>9 DEF Cleanup, ItemRow
  <2>2. \A i \in Items, r \in Revs : EventAbandoned(i, r)' => EventAbandoned(i, r)
    BY <1>9 DEF Cleanup, NoEvent
  <2>3. \A b \in Blobs : blob'[b].status = "abandoned" => blob[b].status = "abandoned"
    BY <1>9 DEF Cleanup, NoBlob
  <2> QED
    BY <1>9, <2>1, <2>2, <2>3 DEF Cleanup
<1>10. ASSUME \/ \E on \in BOOLEAN : SetAutoSync(on)
              \/ \E x \in Exporters : \/ StartCycle(x) \/ BeginExport(x)
                                      \/ SampleExport(x) \/ ReadPackage(x)
                                      \/ WriteSnapshot(x) \/ FailExport(x)
              \/ Crash \/ Tick \/ UNCHANGED vars
       PROVE  UNCHANGED <<item, event, blob, fullExport>>
  BY <1>10 DEF SetAutoSync, StartCycle, BeginExport, SampleExport, ReadPackage,
      WriteSnapshot, FailExport, Crash, Tick, vars
<1> QED
  BY <1>1, <1>2, <1>3, <1>4, <1>5, <1>6, <1>7, <1>8, <1>9, <1>10 DEF Next

\* While a row is abandoned, a full export is still owed.
THEOREM AbandonedIsOwed == Spec => []AbandonedNeedsFullExport
<1>1. Init => AbandonedNeedsFullExport
  BY DEF Init, AbandonedNeedsFullExport, SomeAbandoned, EventAbandoned, NoItem,
         NoEvent, NoBlob
<1>2. TypeOK /\ AbandonedNeedsFullExport /\ [Next]_vars => AbandonedNeedsFullExport'
  BY AbandonedNext
<1> QED
  BY <1>1, <1>2, TypeCorrect, PTL DEF Spec

\* A package read before an abandonment carries an older abandonment stamp.
StaleIsOlder ==
    \A x \in stale : /\ exporter[x].pc \in {"read", "written"}
                     /\ exporter[x].pkg.last < lastAbandoned

\* No package is ahead of the abandonments.
PackageNotAhead ==
    \A x \in Exporters : exporter[x].pkg.last <= lastAbandoned

LEMMA StaleInit == Init => StaleIsOlder /\ PackageNotAhead
  BY DEF Init, StaleIsOlder, PackageNotAhead, Idle, NoPackage

LEMMA StaleNext ==
    TypeOK /\ StaleIsOlder /\ PackageNotAhead /\ [Next]_vars
    => StaleIsOlder' /\ PackageNotAhead'
<1> SUFFICES ASSUME TypeOK, StaleIsOlder, PackageNotAhead, [Next]_vars
             PROVE  StaleIsOlder' /\ PackageNotAhead'
  OBVIOUS
<1> USE DEF StaleIsOlder, PackageNotAhead, rows, queueVars, remote
<1> DEFINE Lasts == /\ \A x \in Exporters : exporter[x].pkg.last \in Nat
                    /\ lastAbandoned \in Nat
<1>1. Lasts
  BY DEF TypeOK, ExportState, Package
<1>2. ASSUME UNCHANGED <<exporter, lastAbandoned, stale>>
      PROVE  StaleIsOlder' /\ PackageNotAhead'
  BY <1>2
<1>3. CASE Abandon
  <2>1. lastAbandoned' > lastAbandoned /\ lastAbandoned' \in Nat
    BY <1>3, TypeNext DEF Abandon, AbandonWrites, TypeOK
  <2>2. /\ exporter' = exporter
        /\ stale' = stale \cup {x \in Exporters : exporter[x].pc \in {"read", "written"}}
    BY <1>3 DEF Abandon
  <2>3. stale \subseteq Exporters
    BY DEF TypeOK
  <2> QED
    BY <1>1, <2>1, <2>2, <2>3
\* An export that leaves its package behind, or has not read one yet.
<1>4. ASSUME NEW x \in Exporters, x \notin stale',
             \A y \in stale' : y \in stale,
             \A y \in Exporters \ {x} : exporter'[y] = exporter[y],
             exporter'[x].pkg.last <= lastAbandoned,
             UNCHANGED lastAbandoned
      PROVE  StaleIsOlder' /\ PackageNotAhead'
  BY <1>4 DEF TypeOK
<1>5. ASSUME NEW x \in Exporters, StartCycle(x) PROVE StaleIsOlder' /\ PackageNotAhead'
  <2>1. exporter'[x].pkg = exporter[x].pkg
    BY <1>5 DEF StartCycle, TypeOK, ExportState
  <2> QED
    BY <1>5, <1>4, <2>1 DEF StartCycle, TypeOK
<1>6. ASSUME NEW x \in Exporters, BeginExport(x) PROVE StaleIsOlder' /\ PackageNotAhead'
  <2>1. exporter'[x].pkg.last = 0
    BY <1>6 DEF BeginExport, TypeOK, ExportState, Idle, NoPackage
  <2>2. /\ exporter[x].pc \in {"idle", "cycle"} /\ UNCHANGED <<stale, lastAbandoned>>
        /\ \A y \in Exporters \ {x} : exporter'[y] = exporter[y]
    BY <1>6 DEF BeginExport, TypeOK
  <2> QED
    BY <1>1, <1>4, <2>1, <2>2
<1>7. ASSUME NEW x \in Exporters, NEW b \in Blobs, UploadBlob(x, b)
      PROVE  StaleIsOlder' /\ PackageNotAhead'
  <2>1. exporter'[x].pkg = exporter[x].pkg
    BY <1>7 DEF UploadBlob, TypeOK, ExportState
  <2> QED
    BY <1>7, <1>4, <2>1 DEF UploadBlob, TypeOK
<1>8. ASSUME NEW x \in Exporters, SampleExport(x) PROVE StaleIsOlder' /\ PackageNotAhead'
  <2>1. exporter'[x].pkg.last = exporter[x].pkg.last
    BY <1>8 DEF SampleExport, TypeOK, ExportState, Package
  <2> QED
    BY <1>8, <1>4, <2>1 DEF SampleExport, TypeOK
<1>9. ASSUME NEW x \in Exporters, ReadPackage(x) PROVE StaleIsOlder' /\ PackageNotAhead'
  <2>1. exporter'[x].pkg.last = lastAbandoned
    BY <1>9 DEF ReadPackage, PackageOf, TypeOK, ExportState
  <2> QED
    BY <1>9, <1>1, <1>4, <2>1 DEF ReadPackage, TypeOK
<1>10. ASSUME NEW x \in Exporters, WriteSnapshot(x) PROVE StaleIsOlder' /\ PackageNotAhead'
  <2>1. /\ exporter'[x].pkg = exporter[x].pkg /\ exporter'[x].pc = "written"
        /\ \A y \in Exporters \ {x} : exporter'[y] = exporter[y]
        /\ UNCHANGED <<stale, lastAbandoned>>
    BY <1>10 DEF WriteSnapshot, TypeOK, ExportState
  <2> QED
    BY <2>1 DEF TypeOK
<1>11. ASSUME NEW x \in Exporters, MarkExported(x) \/ FailExport(x)
       PROVE  StaleIsOlder' /\ PackageNotAhead'
  <2>1. /\ exporter' = [exporter EXCEPT ![x] = Idle]
        /\ stale' = stale \ {x} /\ UNCHANGED lastAbandoned
    BY <1>11 DEF MarkExported, FailExport
  <2>2. exporter'[x].pkg.last = 0
    BY <2>1 DEF TypeOK, Idle, NoPackage
  <2> QED
    BY <1>1, <1>4, <2>1, <2>2 DEF TypeOK
<1>12. CASE Crash
  BY <1>1, <1>12 DEF Crash, Idle, NoPackage
<1>13. ASSUME \/ \E i \in Items : \/ Ingest(i) \/ TogglePin(i)
                                  \/ Recapture(i) \/ PasteTouch(i)
              \/ \E S \in SUBSET Items : Delete(S)
              \/ \E o \in owed : LogEvent(o) \/ AddBlobs(o)
              \/ \E on \in BOOLEAN : SetAutoSync(on)
              \/ Cleanup \/ Tick \/ UNCHANGED vars
       PROVE  UNCHANGED <<exporter, lastAbandoned, stale>>
  BY <1>13 DEF Ingest, TogglePin, Recapture, PasteTouch, Delete, LogEvent, AddBlobs,
      SetAutoSync, Cleanup, Tick, vars
<1> QED
  BY <1>2, <1>3, <1>5, <1>6, <1>7, <1>8, <1>9, <1>10, <1>11, <1>12, <1>13 DEF Next

\* One step of the checkpoint comparison: a stale export's marks leave what is
\* abandoned alone.
LEMMA StaleMarks ==
    ASSUME TypeOK, StaleIsOlder, PackageNotAhead, [Next]_vars,
           NEW x \in stale, exporter[x].pc = "written", exporter'[x].pc = "idle"
    PROVE  /\ \A i \in Items : item[i].status = "abandoned"
                               => item'[i].status = "abandoned"
           /\ \A i \in Items, r \in Revs : EventAbandoned(i, r)
                                           => ~event'[i][r].synced
           /\ \A b \in Blobs : blob[b].status = "abandoned"
                               => blob'[b].status = "abandoned"
<1> USE DEF rows, queueVars
<1> x \in Exporters
  BY DEF TypeOK
<1>1. MarkExported(x) \/ UNCHANGED <<item, event, blob>>
  <2>1. exporter'[x] # exporter[x]
    OBVIOUS
  <2>2. ASSUME NEW y \in Exporters, MarkExported(y) PROVE MarkExported(x)
    BY <2>1, <2>2 DEF MarkExported, TypeOK
  <2>3. ASSUME NEW y \in Exporters, NEW b \in Blobs, UploadBlob(y, b) PROVE FALSE
    BY <2>1, <2>3 DEF UploadBlob, TypeOK, ExportState
  <2>4. ASSUME NEW y \in Exporters,
               \/ StartCycle(y) \/ BeginExport(y) \/ SampleExport(y) \/ ReadPackage(y)
               \/ WriteSnapshot(y) \/ FailExport(y)
        PROVE  UNCHANGED <<item, event, blob>>
    BY <2>4 DEF StartCycle, BeginExport, SampleExport, ReadPackage, WriteSnapshot,
                FailExport
  <2>5. ASSUME \/ \E i \in Items : \/ Ingest(i) \/ TogglePin(i)
                                   \/ Recapture(i) \/ PasteTouch(i)
               \/ \E S \in SUBSET Items : Delete(S)
               \/ \E o \in owed : LogEvent(o) \/ AddBlobs(o)
               \/ \E on \in BOOLEAN : SetAutoSync(on)
               \/ Abandon \/ Cleanup \/ Tick \/ UNCHANGED vars
        PROVE  FALSE
    BY <2>1, <2>5 DEF Ingest, TogglePin, Recapture, PasteTouch, Delete, LogEvent,
        AddBlobs, SetAutoSync, Abandon, Cleanup, Tick, vars
  <2>6. CASE Crash
    BY <2>6 DEF Crash
  <2> QED
    BY <2>2, <2>3, <2>4, <2>5, <2>6 DEF Next
<1>2. CASE UNCHANGED <<item, event, blob>>
  BY <1>2, Zenon DEF EventAbandoned
<1>3. CASE MarkExported(x)
  <2>1. ~BaselineApplies(exporter[x].pkg)
    BY DEF StaleIsOlder, BaselineApplies, TypeOK, ExportState, Package
  <2>2. ASSUME NEW i \in Items, item[i].status = "abandoned"
        PROVE  item'[i].status = "abandoned"
    BY <1>3, <2>1, <2>2 DEF MarkExported, ItemMarked
  <2>3. ASSUME NEW i \in Items, NEW r \in Revs, EventAbandoned(i, r)
        PROVE  ~event'[i][r].synced
    <3>1. ~EventMarked(i, r, exporter[x].pkg.at, BaselineApplies(exporter[x].pkg))
      BY <2>1, <2>3 DEF EventMarked, EventAbandoned, EventPending
    <3>2. event'[i][r] = event[i][r]
      BY <1>3, <2>1, <3>1 DEF MarkExported
    <3> QED
      BY <2>3, <3>2, Zenon DEF EventAbandoned
  <2>4. ASSUME NEW b \in Blobs, blob[b].status = "abandoned"
        PROVE  blob'[b].status = "abandoned"
    BY <1>3, <2>1, <2>4 DEF MarkExported, BlobMarked
  <2> QED
    BY <2>2, <2>3, <2>4
<1> QED
  BY <1>1, <1>2, <1>3

\* The checkpoint comparison protects an abandonment from every export that
\* read its package earlier, whatever the number of concurrent exports.
THEOREM StaleExportsHarmless == Spec => StaleExportKeepsAbandoned
<1> DEFINE Keeps ==
      \A x \in stale :
          exporter[x].pc = "written" /\ exporter'[x].pc = "idle" =>
             /\ \A i \in Items : item[i].status = "abandoned"
                                 => item'[i].status = "abandoned"
             /\ \A i \in Items, r \in Revs : EventAbandoned(i, r)
                                             => ~event'[i][r].synced
             /\ \A b \in Blobs : blob[b].status = "abandoned"
                                 => blob'[b].status = "abandoned"
<1>1. TypeOK /\ StaleIsOlder /\ PackageNotAhead /\ [Next]_vars => [Keeps]_vars
  BY StaleMarks
<1>2. TypeOK /\ StaleIsOlder /\ PackageNotAhead /\ [Next]_vars
      => StaleIsOlder' /\ PackageNotAhead'
  BY StaleNext
<1>3. Init => StaleIsOlder /\ PackageNotAhead
  BY StaleInit
<1> QED
  BY <1>1, <1>2, <1>3, TypeCorrect, PTL DEF Spec, StaleExportKeepsAbandoned

-----------------------------------------------------------------------------
(* Blobs *)

\* An upload is stamped with the instant at which its export began.
UploadsAreStamped ==
    /\ now > 0
    /\ \A x \in Exporters : exporter[x].pc = "uploading" => exporter[x].since > 0

LEMMA StampedNext == TypeOK /\ UploadsAreStamped /\ [Next]_vars => UploadsAreStamped'
<1> SUFFICES ASSUME TypeOK, UploadsAreStamped, [Next]_vars PROVE UploadsAreStamped'
  OBVIOUS
<1> USE DEF TypeOK, UploadsAreStamped, Ticks, rows, queueVars, remote
<1>1. ASSUME UNCHANGED exporter, now' = now \/ now' = now + 1 PROVE UploadsAreStamped'
  BY <1>1
<1>2. ASSUME NEW x \in Exporters, now' = now \/ now' = now + 1,
             \A y \in Exporters \ {x} : exporter'[y] = exporter[y],
             exporter'[x].pc = "uploading" => exporter'[x].since > 0
      PROVE  UploadsAreStamped'
  BY <1>2
<1>3. ASSUME NEW x \in Exporters,
             \/ StartCycle(x) \/ SampleExport(x) \/ ReadPackage(x) \/ WriteSnapshot(x)
             \/ MarkExported(x) \/ FailExport(x)
      PROVE  UploadsAreStamped'
  <2>1. exporter'[x].pc # "uploading"
    BY <1>3 DEF StartCycle, SampleExport, ReadPackage, WriteSnapshot, MarkExported,
       FailExport, ExportState, Idle
  <2>2. \A y \in Exporters \ {x} : exporter'[y] = exporter[y]
    BY <1>3 DEF StartCycle, SampleExport, ReadPackage, WriteSnapshot, MarkExported, FailExport
  <2>3. now' = now \/ now' = now + 1
    BY <1>3 DEF StartCycle, SampleExport, ReadPackage, WriteSnapshot, MarkExported, FailExport
  <2> QED
    BY <1>2, <2>1, <2>2, <2>3
<1>4. ASSUME NEW x \in Exporters, BeginExport(x) PROVE UploadsAreStamped'
  <2>1. exporter'[x].since = now /\ now' = now
        /\ \A y \in Exporters \ {x} : exporter'[y] = exporter[y]
    BY <1>4 DEF BeginExport, Idle
  <2> QED
    BY <1>2, <2>1
<1>5. ASSUME NEW x \in Exporters, NEW b \in Blobs, UploadBlob(x, b) PROVE UploadsAreStamped'
  <2>1. /\ exporter[x].pc = "uploading" /\ exporter'[x].since = exporter[x].since
        /\ now' = now /\ \A y \in Exporters \ {x} : exporter'[y] = exporter[y]
    BY <1>5 DEF UploadBlob, ExportState
  <2> QED
    BY <1>2, <2>1
<1>6. CASE Crash
  BY <1>6 DEF Crash, Idle
<1>7. ASSUME \/ \E i \in Items : Ingest(i) \/ TogglePin(i) \/ Recapture(i) \/ PasteTouch(i)
             \/ \E S \in SUBSET Items : Delete(S)
             \/ \E o \in owed : LogEvent(o) \/ AddBlobs(o)
             \/ Abandon
             \/ \E on \in BOOLEAN : SetAutoSync(on)
             \/ Cleanup \/ Tick \/ UNCHANGED vars
      PROVE  UNCHANGED exporter /\ (now' = now \/ now' = now + 1)
  BY <1>7 DEF Ingest, TogglePin, Recapture, PasteTouch, Delete, LogEvent, AddBlobs,
     Abandon, SetAutoSync, Cleanup, Tick, vars
<1> QED
  BY <1>1, <1>3, <1>4, <1>5, <1>6, <1>7 DEF Next

LEMMA SyncedBlobNext ==
    TypeOK /\ UploadsAreStamped /\ SyncedBlobIsUploaded /\ [Next]_vars => SyncedBlobIsUploaded'
<1> SUFFICES ASSUME TypeOK, UploadsAreStamped, SyncedBlobIsUploaded, [Next]_vars,
                    NEW b \in Blobs, blob'[b].status = "synced", blob'[b].deleted = 0
             PROVE  blob'[b].remote > 0
  BY DEF SyncedBlobIsUploaded
<1> USE DEF TypeOK, rows
<1>1. ASSUME blob'[b] = blob[b] PROVE blob'[b].remote > 0
  BY <1>1 DEF SyncedBlobIsUploaded
<1>2. blob[b] \in BlobRow
  OBVIOUS
<1>3. ASSUME NEW S \in SUBSET Items, Delete(S) PROVE blob'[b].remote > 0
  <2>1. PICK t \in Stamps(Lag) : TombstoneWrites(S, t)
    BY <1>3 DEF Delete
  <2>2. t > 0
    BY <2>1, StampType, ConstantsAssumption
  <2> QED
    BY <1>1, <1>2, <2>1, <2>2 DEF TombstoneWrites, BlobRow
<1>4. ASSUME NEW o \in owed, AddBlobs(o) PROVE blob'[b].remote > 0
  BY <1>1, <1>4 DEF AddBlobs, NoBlob
<1>5. CASE Abandon
  BY <1>1, <1>2, <1>5 DEF Abandon, AbandonWrites, BlobRow
<1>6. ASSUME NEW x \in Exporters, NEW c \in Blobs, UploadBlob(x, c) PROVE blob'[b].remote > 0
  BY <1>1, <1>2, <1>6 DEF UploadBlob, UploadsAreStamped, BlobRow
<1>7. ASSUME NEW x \in Exporters, MarkExported(x) PROVE blob'[b].remote > 0
  <2> DEFINE pkg == exporter[x].pkg
  <2>1. pkg.at \in Nat
    BY DEF ExportState, Package
  <2>2. CASE ~BlobMarked(b, pkg.at, BaselineApplies(pkg))
    BY <1>1, <1>7, <2>2 DEF MarkExported
  <2>3. CASE BlobMarked(b, pkg.at, BaselineApplies(pkg))
    <3>1. blob'[b].deleted = blob[b].deleted /\ blob'[b].remote = blob[b].remote
      BY <1>2, <1>7, <2>3 DEF MarkExported, BlobRow
    <3> QED
      BY <2>1, <2>3, <3>1 DEF BlobMarked
  <2> QED
    BY <2>2, <2>3
<1>8. CASE Cleanup
  BY <1>1, <1>8 DEF Cleanup, NoBlob
<1>9. ASSUME \/ \E i \in Items : Ingest(i) \/ TogglePin(i) \/ Recapture(i) \/ PasteTouch(i)
             \/ \E o \in owed : LogEvent(o)
             \/ \E on \in BOOLEAN : SetAutoSync(on)
             \/ \E x \in Exporters : \/ StartCycle(x) \/ BeginExport(x) \/ SampleExport(x)
                                      \/ ReadPackage(x) \/ WriteSnapshot(x) \/ FailExport(x)
             \/ Crash \/ Tick \/ UNCHANGED vars
      PROVE  UNCHANGED blob
  BY <1>9 DEF Ingest, TogglePin, Recapture, PasteTouch, LogEvent, SetAutoSync, StartCycle,
     BeginExport, SampleExport, ReadPackage, WriteSnapshot, FailExport, Crash, Tick, vars
<1> QED
  BY <1>1, <1>3, <1>4, <1>5, <1>6, <1>7, <1>8, <1>9 DEF Next

\* A live image blob that counts as synced has been uploaded, however deletions,
\* abandonments, uploads and marks of several exports interleave (mark_blob_uploaded).
THEOREM SyncedBlobsUploaded == Spec => []SyncedBlobIsUploaded
<1>1. Init => UploadsAreStamped /\ SyncedBlobIsUploaded
  BY DEF Init, UploadsAreStamped, SyncedBlobIsUploaded, Idle, NoBlob
<1>2. TypeOK /\ UploadsAreStamped /\ SyncedBlobIsUploaded /\ [Next]_vars
      => UploadsAreStamped' /\ SyncedBlobIsUploaded'
  BY StampedNext, SyncedBlobNext
<1> QED
  BY <1>1, <1>2, TypeCorrect, PTL DEF Spec

-----------------------------------------------------------------------------
(* The events of deletions *)

Tombstone(i) == item[i].status \in RowStatus /\ item[i].deleted > 0

\* Revisions only grow, and an event a handler still owes is not the event of a
\* tombstone: that one was written with its row.
OwedPrecedes ==
    /\ \A i \in Items : item[i].status = "absent" => item[i].rev = 0
    /\ \A i \in Items : item[i].deleted > 0 => item[i].rev \in Revs
    /\ \A o \in owed : /\ o.rev <= item[o.item].rev
                       /\ item[o.item].deleted > 0 => o.rev < item[o.item].rev

\* A package holds the pending event of every tombstone up to its checkpoint.
PackageHoldsEvents ==
    \A x \in Exporters, i \in Items \ late :
        LET e == event[i][item[i].rev] IN
        /\ exporter[x].pc \in {"read", "written"}
        /\ Tombstone(i) /\ e.created \in 1..exporter[x].pkg.at
        /\ ~e.synced /\ e.abandoned = 0
        => <<i, item[i].rev>> \in exporter[x].pkg.events

WrittenIsShipped ==
    \A x \in Exporters : exporter[x].pc = "written" => exporter[x].pkg.events \subseteq shipped

\* The inductive invariant behind DeletionEventsShipped.
EInv == PackageHoldsEvents /\ WrittenIsShipped /\ DeletionEventsShipped

\* No export meets more events than load_export_events reads (its LIMIT is 10000).
EventsFit ==
    \A x \in Exporters : exporter[x].pc = "sampled" =>
        LET S == ExportableEvents(exporter[x].pkg.at) IN
        IsFiniteSet(S) /\ Cardinality(S) <= EventLimit

LEMMA OwedPrecedesNext == TypeOK /\ OwedPrecedes /\ [Next]_vars => OwedPrecedes'
<1> SUFFICES ASSUME TypeOK, OwedPrecedes, [Next]_vars PROVE OwedPrecedes'
  OBVIOUS
<1> USE DEF TypeOK, rows
<1> DEFINE Same(i) == /\ item'[i].rev = item[i].rev /\ item'[i].deleted = item[i].deleted
                      /\ item'[i].status = "absent" => item[i].status = "absent"
<1>1. ASSUME owed' \subseteq owed, \A i \in Items : Same(i) PROVE OwedPrecedes'
  BY <1>1 DEF OwedPrecedes, OwedWrite
<1>2. ASSUME NEW i \in Items, Ingest(i) PROVE OwedPrecedes'
  <2>1. /\ \A j \in Items \ {i} : item'[j] = item[j]
        /\ item'[i].status = "pending" /\ item'[i].rev = 1 /\ item'[i].deleted = 0
        /\ item[i].rev = 0
        /\ \A o \in owed' : o \in owed \/ (o.item = i /\ o.rev = 1)
    BY <1>2 DEF Ingest, OwedPrecedes
  <2>2. \A o \in owed : o.rev \in Nat /\ o.item \in Items /\ o.rev <= item[o.item].rev
                        /\ (item[o.item].deleted > 0 => o.rev < item[o.item].rev)
    BY DEF OwedPrecedes, OwedWrite
  <2>3. ASSUME NEW o \in owed'
        PROVE  /\ o.rev <= item'[o.item].rev
               /\ item'[o.item].deleted > 0 => o.rev < item'[o.item].rev
    BY <2>1, <2>2
  <2>4. ASSUME NEW j \in Items
        PROVE  /\ item'[j].status = "absent" => item'[j].rev = 0
               /\ item'[j].deleted > 0 => item'[j].rev \in Revs
    BY <2>1 DEF OwedPrecedes
  <2> QED
    BY <2>3, <2>4 DEF OwedPrecedes
<1>3. ASSUME NEW i \in Items, TogglePin(i) PROVE OwedPrecedes'
  <2>1. /\ \A j \in Items \ {i} : item'[j] = item[j]
        /\ item'[i].status = "pending" /\ item'[i].rev = item[i].rev + 1
        /\ item'[i].deleted = 0
        /\ \A o \in owed' : o \in owed \/ (o.item = i /\ o.rev = item[i].rev + 1)
    BY <1>3 DEF TogglePin, Live, ItemRow
  <2>2. item[i].rev \in Nat
    BY DEF ItemRow
  <2>3. \A o \in owed : o.rev \in Nat /\ o.item \in Items /\ o.rev <= item[o.item].rev
                        /\ (item[o.item].deleted > 0 => o.rev < item[o.item].rev)
    BY DEF OwedPrecedes, OwedWrite
  <2>4. ASSUME NEW o \in owed'
        PROVE  /\ o.rev <= item'[o.item].rev
               /\ item'[o.item].deleted > 0 => o.rev < item'[o.item].rev
    BY <2>1, <2>2, <2>3
  <2>5. ASSUME NEW j \in Items
        PROVE  /\ item'[j].status = "absent" => item'[j].rev = 0
               /\ item'[j].deleted > 0 => item'[j].rev \in Revs
    BY <2>1 DEF OwedPrecedes
  <2> QED
    BY <2>4, <2>5 DEF OwedPrecedes
<1>4. ASSUME NEW i \in Items, Recapture(i) \/ PasteTouch(i) PROVE OwedPrecedes'
  <2>1. \A j \in Items : Same(j)
    BY <1>4 DEF Recapture, PasteTouch, ItemRow
  <2> QED
    BY <1>1, <1>4, <2>1 DEF Recapture, PasteTouch
<1>5. ASSUME NEW S \in SUBSET Items, Delete(S) PROVE OwedPrecedes'
  <2>1. PICK t \in Stamps(Lag) : TombstoneWrites(S, t)
    BY <1>5 DEF Delete
  <2>2. \A i \in Items \ S : item'[i] = item[i]
    BY <2>1 DEF TombstoneWrites
  <2>3. ASSUME NEW i \in S
        PROVE  item'[i].status = "pending" /\ item'[i].rev = item[i].rev + 1
               /\ item[i].rev \in Nat /\ item[i].rev + 1 \in Revs
    <3>1. item[i].rev \in Nat /\ item[i].rev < MaxRev
      BY <1>5 DEF Delete, ItemRow
    <3>2. item[i].rev + 1 \in Revs
      BY <3>1, ConstantsAssumption DEF Revs
    <3> QED
      BY <2>1, <3>1, <3>2 DEF TombstoneWrites
  <2>4. owed' = owed
    BY <1>5 DEF Delete
  <2> QED
    BY <2>2, <2>3, <2>4 DEF OwedPrecedes, OwedWrite
<1>6. CASE Abandon
  <2>1. \A j \in Items : Same(j)
    BY <1>6 DEF Abandon, AbandonWrites, ItemRow
  <2> QED
    BY <1>1, <1>6, <2>1 DEF Abandon
<1>7. ASSUME NEW x \in Exporters, MarkExported(x) PROVE OwedPrecedes'
  <2>1. \A j \in Items : Same(j)
    BY <1>7 DEF MarkExported, ItemRow
  <2> QED
    BY <1>1, <1>7, <2>1 DEF MarkExported
<1>8. CASE Cleanup
  <2>1. \A j \in Items : Same(j)
    BY <1>8 DEF Cleanup, ItemRow
  <2> QED
    BY <1>1, <1>8, <2>1 DEF Cleanup
<1>9. ASSUME \/ \E o \in owed : LogEvent(o) \/ AddBlobs(o)
             \/ \E on \in BOOLEAN : SetAutoSync(on)
             \/ \E x \in Exporters : \/ StartCycle(x) \/ BeginExport(x) \/ SampleExport(x)
                                      \/ ReadPackage(x) \/ WriteSnapshot(x) \/ FailExport(x)
                                      \/ \E b \in Blobs : UploadBlob(x, b)
             \/ Crash \/ Tick \/ UNCHANGED vars
      PROVE  item' = item /\ owed' \subseteq owed
  BY <1>9 DEF LogEvent, AddBlobs, SetAutoSync, StartCycle, BeginExport, SampleExport,
     ReadPackage, WriteSnapshot, FailExport, UploadBlob, Crash, Tick, vars
<1> QED
  BY <1>1, <1>2, <1>3, <1>4, <1>5, <1>6, <1>7, <1>8, <1>9 DEF Next

\* A step that advances no export beyond its upload keeps the invariant if each
\* tombstone's event stays, is abandoned, is purged or is too fresh to be marked.
LEMMA EventsStay ==
    ASSUME TypeOK, CheckpointIsPast, EInv,
           \A i \in Items \ late' : Tombstone(i)' =>
               \/ /\ Tombstone(i) /\ i \notin late /\ item'[i].rev = item[i].rev
                  /\ event'[i][item[i].rev] = event[i][item[i].rev]
               \/ event'[i][item'[i].rev].abandoned # 0
               \/ /\ ~event'[i][item'[i].rev].synced
                  /\ event'[i][item'[i].rev].created \notin 1..(now - 1),
           \A x \in Exporters : \/ exporter'[x] = exporter[x]
                                \/ exporter'[x].pc \notin {"read", "written"},
           shipped' = shipped
    PROVE  EInv'
<1> USE DEF TypeOK, EInv
<1>1. PackageHoldsEvents'
  <2> SUFFICES ASSUME NEW x \in Exporters, NEW i \in Items \ late',
                      exporter'[x].pc \in {"read", "written"}, Tombstone(i)',
                      event'[i][item'[i].rev].created \in 1..exporter'[x].pkg.at,
                      ~event'[i][item'[i].rev].synced,
                      event'[i][item'[i].rev].abandoned = 0
               PROVE  <<i, item'[i].rev>> \in exporter'[x].pkg.events
    BY DEF PackageHoldsEvents
  <2>1. exporter'[x] = exporter[x]
    OBVIOUS
  <2>2. exporter[x].pkg.at \in Nat /\ exporter[x].pkg.at < now
    BY <2>1 DEF CheckpointIsPast, ExportState, Package
  <2>3. event'[i][item'[i].rev].created \in 1..(now - 1)
    BY <2>1, <2>2
  <2>4. /\ Tombstone(i) /\ i \notin late /\ item'[i].rev = item[i].rev
        /\ event'[i][item[i].rev] = event[i][item[i].rev]
    BY <2>3
  <2> QED
    BY <2>1, <2>4 DEF PackageHoldsEvents
<1>2. WrittenIsShipped'
  BY DEF WrittenIsShipped
<1>3. DeletionEventsShipped'
  <2> SUFFICES ASSUME NEW i \in Items \ late', Tombstone(i)',
                      event'[i][item'[i].rev].synced,
                      event'[i][item'[i].rev].abandoned = 0
               PROVE  <<i, item'[i].rev>> \in shipped
    BY DEF DeletionEventsShipped, Tombstone
  <2>1. /\ Tombstone(i) /\ i \notin late /\ item'[i].rev = item[i].rev
        /\ event'[i][item[i].rev] = event[i][item[i].rev]
    OBVIOUS
  <2> QED
    BY <2>1 DEF DeletionEventsShipped, Tombstone
<1> QED
  BY <1>1, <1>2, <1>3

\* An export that meets no more events than the LIMIT reads all of them.
LEMMA AllEventsRead ==
    ASSUME NEW S, IsFiniteSet(S), Cardinality(S) <= EventLimit, NEW E, OldestEvents(S, E)
    PROVE  E = S
<1>1. E \subseteq S /\ (E # S => Cardinality(E) = EventLimit)
  BY DEF OldestEvents
<1>2. IsFiniteSet(E) /\ Cardinality(E) \in Nat /\ Cardinality(S) \in Nat
      /\ (Cardinality(E) = Cardinality(S) => E = S) /\ Cardinality(E) <= Cardinality(S)
  BY <1>1, FS_Subset, FS_CardinalityType
<1> QED
  BY <1>1, <1>2, ConstantsAssumption

LEMMA ReadKeepsEInv ==
    ASSUME TypeOK, EInv, EventsFit, OwedPrecedes, NEW x \in Exporters, ReadPackage(x)
    PROVE  EInv'
<1> USE DEF TypeOK, EInv, rows, queueVars, remote
<1> DEFINE at == exporter[x].pkg.at
<1>1. PICK E \in SUBSET ExportableEvents(at) :
         /\ OldestEvents(ExportableEvents(at), E)
         /\ exporter' = [exporter EXCEPT ![x].pc = "read", ![x].pkg = PackageOf(at, E)]
  BY DEF ReadPackage
<1>2. E = ExportableEvents(at)
  BY <1>1, AllEventsRead DEF EventsFit, ReadPackage
<1>3. UNCHANGED <<item, event, late, shipped>>
  BY DEF ReadPackage
<1>4. /\ exporter'[x].pc = "read" /\ exporter'[x].pkg = PackageOf(at, E)
      /\ \A y \in Exporters : y # x => exporter'[y] = exporter[y]
  BY <1>1 DEF ExportState
<1>5. PackageHoldsEvents'
  <2> SUFFICES ASSUME NEW i \in Items, Tombstone(i),
                      event[i][item[i].rev].created \in 1..at,
                      ~event[i][item[i].rev].synced, event[i][item[i].rev].abandoned = 0
               PROVE  <<i, item[i].rev>> \in E
    BY <1>3, <1>4 DEF PackageHoldsEvents, PackageOf, Tombstone
  <2>1. item[i].rev \in Revs
    BY DEF OwedPrecedes, Tombstone
  <2> QED
    BY <1>2, <2>1 DEF ExportableEvents
<1>6. WrittenIsShipped' /\ DeletionEventsShipped'
  BY <1>3, <1>4 DEF WrittenIsShipped, DeletionEventsShipped
<1> QED
  BY <1>5, <1>6

LEMMA WriteKeepsEInv ==
    ASSUME TypeOK, EInv, NEW x \in Exporters, WriteSnapshot(x)
    PROVE  EInv'
<1> USE DEF TypeOK, EInv, rows, queueVars
<1>1. /\ exporter[x].pc = "read" /\ exporter'[x].pkg = exporter[x].pkg
      /\ \A y \in Exporters \ {x} : exporter'[y] = exporter[y]
      /\ UNCHANGED <<item, event, late>>
      /\ shipped' = shipped \cup exporter[x].pkg.events
  BY DEF WriteSnapshot, ExportState
<1>2. PackageHoldsEvents' /\ DeletionEventsShipped'
  BY <1>1 DEF PackageHoldsEvents, DeletionEventsShipped, Tombstone
<1>3. WrittenIsShipped'
  BY <1>1 DEF WrittenIsShipped
<1> QED
  BY <1>2, <1>3

\* Marking: an event that becomes synced without having been abandoned is in the
\* written package.
LEMMA MarkKeepsEInv ==
    ASSUME TypeOK, EInv, OwedPrecedes, NEW x \in Exporters, MarkExported(x)
    PROVE  EInv'
<1> USE DEF TypeOK, EInv, remote
<1> DEFINE pkg == exporter[x].pkg
           marked(i) == EventMarked(i, item[i].rev, pkg.at, BaselineApplies(pkg))
<1>1. /\ exporter[x].pc = "written" /\ exporter'[x].pc = "idle"
      /\ \A y \in Exporters \ {x} : exporter'[y] = exporter[y]
      /\ UNCHANGED <<late, shipped>>
  BY DEF MarkExported, Idle
<1>2. ASSUME NEW i \in Items
      PROVE  /\ item'[i].rev = item[i].rev
             /\ Tombstone(i)' => Tombstone(i) /\ item[i].rev \in Revs
  BY DEF MarkExported, ItemMarked, Tombstone, RowStatus, Queued, ItemRow, OwedPrecedes
<1>3. ASSUME NEW i \in Items, Tombstone(i)'
      PROVE  event'[i][item[i].rev] = IF marked(i)
                                      THEN [event[i][item[i].rev] EXCEPT !.synced = TRUE]
                                      ELSE event[i][item[i].rev]
  BY <1>2, <1>3 DEF MarkExported
<1>4. ASSUME NEW i \in Items, Tombstone(i)'
      PROVE  /\ event'[i][item[i].rev].created = event[i][item[i].rev].created
             /\ event'[i][item[i].rev].abandoned = event[i][item[i].rev].abandoned
             /\ ~event'[i][item[i].rev].synced => ~event[i][item[i].rev].synced
  BY <1>2, <1>3, <1>4, EventRowUpdates DEF EventRow
<1>5. PackageHoldsEvents'
  BY <1>1, <1>2, <1>4 DEF PackageHoldsEvents
<1>6. WrittenIsShipped'
  BY <1>1 DEF WrittenIsShipped
<1>7. DeletionEventsShipped'
  <2> SUFFICES ASSUME NEW i \in Items \ late, Tombstone(i)', event'[i][item[i].rev].synced,
                      event[i][item[i].rev].abandoned = 0
               PROVE  <<i, item[i].rev>> \in shipped
    BY <1>1, <1>2, <1>4 DEF DeletionEventsShipped, Tombstone
  <2>1. CASE ~marked(i)
    <3>1. event[i][item[i].rev].synced
      BY <1>3, <2>1
    <3> QED
      BY <1>2, <3>1 DEF DeletionEventsShipped, Tombstone
  <2>2. CASE marked(i)
    <3>1. EventPending(i, item[i].rev) /\ event[i][item[i].rev].created <= pkg.at
      BY <2>2 DEF EventMarked, EventAbandoned
    <3>2. event[i][item[i].rev].created \in 1..pkg.at
      <4>1. event[i][item[i].rev].created \in Nat /\ pkg.at \in Nat
        BY <1>2 DEF EventRow, ExportState, Package
      <4> QED
        BY <3>1, <4>1 DEF EventPending
    <3>3. <<i, item[i].rev>> \in pkg.events
      BY <1>1, <1>2, <3>1, <3>2 DEF PackageHoldsEvents, EventPending
    <3> QED
      BY <1>1, <3>3 DEF WrittenIsShipped
  <2> QED
    BY <2>1, <2>2
<1> QED
  BY <1>5, <1>6, <1>7

LEMMA EInvNext ==
    TypeOK /\ CheckpointIsPast /\ OwedPrecedes /\ EventsFit /\ EInv /\ [Next]_vars => EInv'
<1> SUFFICES ASSUME TypeOK, CheckpointIsPast, OwedPrecedes, EventsFit, EInv, [Next]_vars
             PROVE  EInv'
  OBVIOUS
<1> USE DEF TypeOK, rows, queueVars, remote
<1> DEFINE Stays(i) == /\ Tombstone(i) /\ i \notin late /\ item'[i].rev = item[i].rev
                       /\ event'[i][item[i].rev] = event[i][item[i].rev]
<1>1. ASSUME NEW i \in Items, Ingest(i) \/ TogglePin(i) PROVE EInv'
  <2>1. /\ \A j \in Items \ {i} : /\ item'[j] = item[j]
                                  /\ j \notin late' => j \notin late
        /\ item'[i].deleted = 0 /\ UNCHANGED <<event, exporter, shipped>>
    BY <1>1 DEF Ingest, TogglePin, Live, Changed, ItemRow
  <2>2. \A j \in Items \ late' : Tombstone(j)' => Stays(j)
    BY <2>1 DEF Tombstone
  <2> QED
    BY <2>1, <2>2, EventsStay
<1>2. ASSUME NEW i \in Items, Recapture(i) \/ PasteTouch(i) PROVE EInv'
  <2>1. /\ \A j \in Items : /\ item'[j].status = item[j].status
                            /\ item'[j].rev = item[j].rev
                            /\ item'[j].deleted = item[j].deleted
        /\ late \subseteq late' /\ UNCHANGED <<event, exporter, shipped>>
    <3>1. \E d \in {Lag, Rounding} : \E t \in Stamps(d) :
             item' = [item EXCEPT ![i].updated = t] /\ Touched({i}, t)
      BY <1>2 DEF Recapture, PasteTouch
    <3>2. PICK t : item' = [item EXCEPT ![i].updated = t] /\ Touched({i}, t)
      BY <3>1
    <3>3. UNCHANGED <<event, exporter, shipped>>
      BY <1>2 DEF Recapture, PasteTouch
    <3> QED
      BY <3>2, <3>3 DEF Touched, ItemRow
  <2>2. \A j \in Items \ late' : Tombstone(j)' => Stays(j)
    BY <2>1 DEF Tombstone
  <2> QED
    BY <2>1, <2>2, EventsStay
<1>3. ASSUME NEW S \in SUBSET Items, Delete(S) PROVE EInv'
  <2>1. PICK t \in Stamps(Lag) : TombstoneWrites(S, t)
    BY <1>3 DEF Delete
  <2>2. t \in Nat /\ t <= now
    BY <2>1, StampType, ConstantsAssumption
  <2>3. ASSUME NEW i \in S, i \notin late'
        PROVE  /\ ~event'[i][item'[i].rev].synced
               /\ event'[i][item'[i].rev].created \notin 1..(now - 1)
    <3>1. item'[i].rev = item[i].rev + 1 /\ item'[i].rev \in Revs
      <4>1. item[i].rev \in Nat /\ item[i].rev < MaxRev
        BY <1>3 DEF Delete, ItemRow
      <4>2. item[i].rev + 1 \in Revs
        BY <4>1, ConstantsAssumption DEF Revs
      <4> QED
        BY <2>1, <4>2 DEF TombstoneWrites
    <3>2. event'[i][item'[i].rev] = [created |-> t, abandoned |-> 0, synced |-> FALSE]
      BY <2>1, <3>1 DEF TombstoneWrites
    <3>3. t = now
      <4>1. late' = (late \ S) \cup (IF t < now THEN S ELSE {})
        BY <2>1 DEF TombstoneWrites, Changed
      <4>2. ~(t < now)
        BY <2>3, <4>1
      <4> QED
        BY <2>2, <4>2
    <3> QED
      BY <3>2, <3>3
  <2>4. ASSUME NEW i \in Items \ late', i \notin S, Tombstone(i)' PROVE Stays(i)
    <3>1. item'[i] = item[i] /\ i \notin late
      BY <2>1, <2>4 DEF TombstoneWrites, Changed
    <3>2. Tombstone(i) /\ item[i].rev \in Revs
      BY <2>4, <3>1 DEF Tombstone, OwedPrecedes
    <3>3. event'[i][item[i].rev] = event[i][item[i].rev]
      BY <2>1, <2>4, <3>2 DEF TombstoneWrites
    <3> QED
      BY <3>1, <3>2, <3>3
  <2>5. UNCHANGED <<exporter, shipped>>
    BY <1>3 DEF Delete
  <2> QED
    BY <2>3, <2>4, <2>5, EventsStay
<1>4. ASSUME NEW o \in owed, LogEvent(o) PROVE EInv'
  <2>1. \A i \in Items : Tombstone(i) => event'[i][item[i].rev] = event[i][item[i].rev]
    BY <1>4 DEF LogEvent, OwedPrecedes, Tombstone, OwedWrite, ItemRow
  <2>2. UNCHANGED <<item, late, exporter, shipped>>
    BY <1>4 DEF LogEvent
  <2>3. \A i \in Items \ late' : Tombstone(i)' => Stays(i)
    BY <2>1, <2>2 DEF Tombstone
  <2> QED
    BY <2>2, <2>3, EventsStay
<1>5. CASE Abandon
  <2>1. PICK t \in Stamps(Lag) : AbandonWrites(t)
    BY <1>5 DEF Abandon
  <2>2. t \in Nat /\ t > 0
    BY <2>1, StampType, ConstantsAssumption
  <2>3. UNCHANGED <<late, exporter, shipped>>
    BY <1>5 DEF Abandon
  <2>4. ASSUME NEW i \in Items \ late', Tombstone(i)'
        PROVE  Stays(i) \/ event'[i][item'[i].rev].abandoned # 0
    <3>1. item'[i].rev = item[i].rev /\ Tombstone(i) /\ item[i].rev \in Revs
      BY <2>1, <2>4 DEF AbandonWrites, Tombstone, RowStatus, Queued, ItemRow, OwedPrecedes
    <3>2. CASE EventPending(i, item[i].rev)
      <4>1. event'[i][item[i].rev] = [event[i][item[i].rev] EXCEPT !.abandoned = t]
        BY <2>1, <3>1, <3>2 DEF AbandonWrites
      <4>2. event'[i][item[i].rev].abandoned = t
        BY <3>1, <4>1 DEF EventRow
      <4> QED
        BY <2>2, <3>1, <4>2
    <3>3. CASE ~EventPending(i, item[i].rev)
      <4>1. event'[i][item[i].rev] = event[i][item[i].rev]
        BY <2>1, <3>1, <3>3 DEF AbandonWrites
      <4> QED
        BY <2>3, <3>1, <4>1
    <3> QED
      BY <3>2, <3>3
  <2> QED
    BY <2>3, <2>4, EventsStay
<1>6. CASE Cleanup
  <2>1. ASSUME NEW i \in Items \ late', Tombstone(i)'
        PROVE  \/ Stays(i)
               \/ /\ ~event'[i][item'[i].rev].synced
                  /\ event'[i][item'[i].rev].created \notin 1..(now - 1)
    <3>1. item'[i] = item[i] /\ Tombstone(i) /\ item[i].rev \in Revs /\ i \notin late
      BY <1>6, <2>1 DEF Cleanup, Tombstone, RowStatus, Queued, ItemRow, OwedPrecedes
    <3>2. \/ event'[i][item[i].rev] = event[i][item[i].rev]
          \/ event'[i][item[i].rev] = NoEvent
      BY <1>6, <3>1 DEF Cleanup
    <3> QED
      BY <3>1, <3>2 DEF NoEvent
  <2>2. UNCHANGED <<exporter, shipped>>
    BY <1>6 DEF Cleanup
  <2> QED
    BY <2>1, <2>2, EventsStay
<1>7. ASSUME NEW x \in Exporters, ReadPackage(x) PROVE EInv'
  BY <1>7, ReadKeepsEInv
<1>8. ASSUME NEW x \in Exporters, WriteSnapshot(x) PROVE EInv'
  BY <1>8, WriteKeepsEInv
<1>9. ASSUME NEW x \in Exporters, MarkExported(x) PROVE EInv'
  BY <1>9, MarkKeepsEInv
<1>10. ASSUME \/ \E o \in owed : AddBlobs(o)
              \/ \E on \in BOOLEAN : SetAutoSync(on)
              \/ \E x \in Exporters : \/ StartCycle(x) \/ BeginExport(x) \/ SampleExport(x)
                                       \/ FailExport(x) \/ \E b \in Blobs : UploadBlob(x, b)
              \/ Crash \/ Tick \/ UNCHANGED vars
       PROVE  EInv'
  <2>1. UNCHANGED <<item, event, late, shipped>>
    BY <1>10 DEF AddBlobs, SetAutoSync, StartCycle, BeginExport, SampleExport, FailExport,
       UploadBlob, Crash, Tick, vars
  <2>2. \A y \in Exporters : \/ exporter'[y] = exporter[y]
                             \/ exporter'[y].pc \notin {"read", "written"}
    <3>1. ASSUME NEW x \in Exporters, StartCycle(x) \/ SampleExport(x)
          PROVE  /\ exporter'[x].pc \notin {"read", "written"}
                 /\ \A y \in Exporters \ {x} : exporter'[y] = exporter[y]
      BY <3>1 DEF StartCycle, SampleExport, ExportState
    <3>5. ASSUME NEW x \in Exporters, BeginExport(x) \/ FailExport(x)
          PROVE  /\ exporter'[x].pc \notin {"read", "written"}
                 /\ \A y \in Exporters \ {x} : exporter'[y] = exporter[y]
      <4>1. CASE BeginExport(x)
        BY <4>1 DEF BeginExport, Idle
      <4>2. CASE FailExport(x)
        BY <4>2 DEF FailExport, Idle
      <4> QED
        BY <3>5, <4>1, <4>2
    <3>2. ASSUME NEW x \in Exporters, NEW b \in Blobs, UploadBlob(x, b)
          PROVE  /\ exporter'[x].pc \notin {"read", "written"}
                 /\ \A y \in Exporters \ {x} : exporter'[y] = exporter[y]
      BY <3>2 DEF UploadBlob, ExportState
    <3>3. ASSUME \/ \E o \in owed : AddBlobs(o)
                 \/ \E on \in BOOLEAN : SetAutoSync(on)
                 \/ Tick \/ UNCHANGED vars
          PROVE  exporter' = exporter
      BY <3>3 DEF AddBlobs, SetAutoSync, Tick, vars
    <3>4. CASE Crash
      BY <3>4 DEF Crash, Idle
    <3> QED
      BY <1>10, <3>1, <3>2, <3>3, <3>4, <3>5
  <2>3. \A i \in Items \ late' : Tombstone(i)' => Stays(i)
    BY <2>1 DEF Tombstone
  <2> QED
    BY <2>1, <2>2, <2>3, EventsStay
<1> QED
  BY <1>1, <1>2, <1>3, <1>4, <1>5, <1>6, <1>7, <1>8, <1>9, <1>10 DEF Next

\* As long as no export meets more events than its LIMIT, the event of a deletion is
\* marked as synced only when a written snapshot holds it, for every number of items
\* and exports and however late stamps commit (load_export_events, mark_sync_exported).
THEOREM DeletionEventsShip == Spec /\ []EventsFit => []DeletionEventsShipped
<1>1. Init => TypeOK /\ IInv /\ OwedPrecedes /\ EInv
  <2>1. Init => OwedPrecedes /\ EInv
    BY DEF Init, OwedPrecedes, EInv, PackageHoldsEvents, WrittenIsShipped, Tombstone,
           DeletionEventsShipped, NoItem, Idle, RowStatus, Queued
  <2> QED
    BY <2>1, TypeInit, IInvInit
<1>2. TypeOK /\ IInv /\ OwedPrecedes /\ EInv /\ EventsFit /\ [Next]_vars
      => TypeOK' /\ IInv' /\ OwedPrecedes' /\ EInv'
  BY TypeNext, IInvNext, OwedPrecedesNext, EInvNext DEF IInv
<1>3. EInv => DeletionEventsShipped
  BY DEF EInv
<1> QED
  BY <1>1, <1>2, <1>3, PTL DEF Spec

-----------------------------------------------------------------------------
(* SyncQueue implements ChangeLedger: every step of the queue is a step of the
   ledger or leaves it alone. *)

\* A row that does not exist yet has no revision.
AbsentHasNoRev == \A i \in Items : item[i].status = "absent" => item[i].rev = 0

\* The items the ledger counts as acknowledged.
Vouched(i) == Acknowledged(i) /\ i \notin late

LedgerInv == TypeOK /\ IInv /\ AbsentHasNoRev

LEMMA AbsentNext == TypeOK /\ AbsentHasNoRev /\ [Next]_vars => AbsentHasNoRev'
<1> SUFFICES ASSUME TypeOK, AbsentHasNoRev, [Next]_vars,
                    NEW i \in Items, item'[i].status = "absent"
             PROVE  item'[i].rev = 0
  BY DEF AbsentHasNoRev
<1> USE DEF AbsentHasNoRev, rows
<1>1. ASSUME NEW j \in Items, Ingest(j) PROVE item'[i] = item[i]
  BY <1>1 DEF Ingest, TypeOK
<1>2. ASSUME NEW j \in Items, TogglePin(j) PROVE item'[i] = item[i]
  BY <1>2 DEF TogglePin, TypeOK, ItemRow
<1>3. ASSUME NEW j \in Items, Recapture(j) \/ PasteTouch(j) PROVE item'[i] = item[i]
  BY <1>3 DEF Recapture, PasteTouch, Live, Present, RowStatus, Queued, TypeOK, ItemRow
<1>4. ASSUME NEW S \in SUBSET Items, Delete(S) PROVE item'[i] = item[i]
  <2>1. PICK t \in Stamps(Lag) : TombstoneWrites(S, t)
    BY <1>4 DEF Delete
  <2>2. item'[i] = item[i] \/ item'[i].status = "pending"
    BY <2>1 DEF TombstoneWrites
  <2> QED
    BY <2>2
<1>5. CASE Abandon
  BY <1>5 DEF Abandon, AbandonWrites, TypeOK, ItemRow
<1>6. ASSUME NEW x \in Exporters, MarkExported(x) PROVE item'[i] = item[i]
  BY <1>6 DEF MarkExported, TypeOK, ItemRow
<1>7. CASE Cleanup
  BY <1>7 DEF Cleanup, TypeOK, ItemRow
<1>8. ASSUME \/ \E o \in owed : LogEvent(o) \/ AddBlobs(o)
             \/ \E on \in BOOLEAN : SetAutoSync(on)
             \/ \E x \in Exporters :
                   \/ StartCycle(x) \/ BeginExport(x) \/ SampleExport(x)
                   \/ ReadPackage(x) \/ WriteSnapshot(x) \/ FailExport(x)
                   \/ \E b \in Blobs : UploadBlob(x, b)
             \/ Crash \/ Tick \/ UNCHANGED vars
      PROVE  item'[i] = item[i]
  BY <1>8 DEF LogEvent, AddBlobs, SetAutoSync, StartCycle, BeginExport, SampleExport,
      ReadPackage, WriteSnapshot, FailExport, UploadBlob, Crash, Tick, vars
<1>9. CASE UNCHANGED vars
  BY <1>8, <1>9
<1>10. CASE Next
  BY <1>1, <1>2, <1>3, <1>4, <1>5, <1>6, <1>7, <1>8, <1>10 DEF Next
<1> QED
  BY <1>9, <1>10

LEMMA LedgerInit == Init => Ledger!Init
<1> SUFFICES ASSUME Init PROVE Ledger!Init
  OBVIOUS
<1>1. \A i \in Items : item[i].rev = 0 /\ item[i].status = "absent"
  BY DEF Init, NoItem
<1>2. \A i \in Items : ~(Acknowledged(i) /\ i \notin late)
  BY <1>1 DEF Acknowledged
<1>3. [i \in Items |-> item[i].rev] = [i \in Items |-> 0]
  BY <1>1
<1>4. [i \in Items |-> Acknowledged(i) /\ i \notin late] = [i \in Items |-> FALSE]
  BY <1>2, Zenon
<1>5. carried = [i \in Items |-> 0]
  BY DEF Init
<1> QED
  BY <1>3, <1>4, <1>5 DEF Ledger!Init

\* A change of the rows in S is a Change of the ledger.
LEMMA ChangeImplements ==
    ASSUME TypeOK, NEW S \in SUBSET Items, S # {}, NEW t,
           \A i \in S : item'[i].status = "pending" /\ item'[i].rev = item[i].rev + 1,
           \A i \in Items \ S : item'[i] = item[i],
           Changed(S, t), UNCHANGED carried
    PROVE  Ledger!Next
<1>1. Ledger!Change(S)
  BY DEF Ledger!Change, Changed, Acknowledged, TypeOK, ItemRow
<1> QED
  BY <1>1 DEF Ledger!Next

\* A write that moves only stamps is a Doubt of the ledger.
LEMMA TouchImplements ==
    ASSUME TypeOK, NEW i \in Items, NEW t, item' = [item EXCEPT ![i].updated = t],
           Touched({i}, t), UNCHANGED carried
    PROVE  Ledger!Next
<1>1. \A j \in Items : item'[j].status = item[j].status /\ item'[j].rev = item[j].rev
  BY DEF TypeOK, ItemRow
<1>2. CASE t < now
  <2>1. Ledger!Doubt({i})
    BY <1>1, <1>2 DEF Ledger!Doubt, Touched, Acknowledged
  <2> QED
    BY <2>1 DEF Ledger!Next
<1>3. CASE ~(t < now)
  <2>1. Ledger!Doubt({})
    BY <1>1, <1>3 DEF Ledger!Doubt, Touched, Acknowledged
  <2> QED
    BY <2>1 DEF Ledger!Next
<1> QED
  BY <1>2, <1>3

\* A step that keeps revisions and acknowledgments is invisible to the ledger.
LEMMA OtherImplements ==
    ASSUME \A i \in Items : /\ item'[i].rev = item[i].rev
                            /\ item'[i].status \in {"synced", "purged"}
                               <=> item[i].status \in {"synced", "purged"},
           UNCHANGED <<carried, late>>
    PROVE  UNCHANGED Ledger!ledgerVars
  BY DEF Ledger!ledgerVars, Acknowledged

LEMMA MarkImplements ==
    ASSUME LedgerInv, LedgerInv', NEW x \in Exporters, MarkExported(x)
    PROVE  Ledger!Next
<1> PICK T \in SUBSET Items :
       T = {i \in Items : item'[i].status \in {"synced", "purged"} /\ i \notin late}
  OBVIOUS
<1>1. UNCHANGED <<carried, late>>
  BY DEF MarkExported, remote
<1>2. \A i \in Items : /\ item'[i].rev = item[i].rev
                       /\ item[i].status \in {"synced", "purged"}
                          => item'[i].status \in {"synced", "purged"}
  BY DEF MarkExported, ItemMarked, LedgerInv, TypeOK, ItemRow
<1>3. \A i \in T : carried[i] >= item[i].rev
  BY <1>1, <1>2 DEF LedgerInv, IInv, NoChangeLost, Acknowledged
<1>4. Ledger!Acknowledge(T)
  BY <1>1, <1>2, <1>3 DEF Ledger!Acknowledge, Acknowledged
<1> QED
  BY <1>4 DEF Ledger!Next

LEMMA WriteImplements ==
    ASSUME TypeOK, TypeOK', NEW x \in Exporters, WriteSnapshot(x)
    PROVE  Ledger!Next
<1>1. UNCHANGED <<item, late>>
  BY DEF WriteSnapshot, rows
<1>2. \A i \in Items : carried'[i] >= carried[i]
  BY DEF WriteSnapshot, TypeOK, ExportState, Package
<1>3. carried' \in [Items -> Nat]
  BY DEF TypeOK
<1>4. Ledger!Publish
  BY <1>1, <1>2, <1>3 DEF Ledger!Publish, Acknowledged
<1> QED
  BY <1>4 DEF Ledger!Next

LEMMA LedgerNext == LedgerInv /\ LedgerInv' /\ [Next]_vars
                    => [Ledger!Next]_(Ledger!ledgerVars)
<1> SUFFICES ASSUME LedgerInv, LedgerInv', [Next]_vars
             PROVE  Ledger!Next \/ UNCHANGED Ledger!ledgerVars
  OBVIOUS
<1> USE DEF LedgerInv, rows, queueVars, remote
<1>1. ASSUME NEW i \in Items, Ingest(i) PROVE Ledger!Next
  <2>1. PICK t \in Stamps(Lag) :
           /\ item' = [item EXCEPT ![i] = [status |-> "pending", rev |-> 1,
                                           updated |-> t, deleted |-> 0]]
           /\ Changed({i}, t)
    BY <1>1 DEF Ingest
  <2>2. item[i].rev = 0
    BY <1>1 DEF Ingest, AbsentHasNoRev
  <2>3. /\ item'[i].status = "pending" /\ item'[i].rev = item[i].rev + 1
        /\ \A j \in Items \ {i} : item'[j] = item[j]
    BY <2>1, <2>2 DEF TypeOK
  <2>4. UNCHANGED carried
    BY <1>1 DEF Ingest
  <2> QED
    BY <2>1, <2>3, <2>4, ChangeImplements
<1>2. ASSUME NEW i \in Items, TogglePin(i) PROVE Ledger!Next
  <2>1. PICK t \in Stamps(Lag) :
           /\ item' = [item EXCEPT ![i].status = "pending", ![i].rev = @ + 1,
                                   ![i].updated = t]
           /\ Changed({i}, t)
    BY <1>2 DEF TogglePin
  <2>2. /\ item'[i].status = "pending" /\ item'[i].rev = item[i].rev + 1
        /\ \A j \in Items \ {i} : item'[j] = item[j]
    BY <2>1 DEF TypeOK, ItemRow
  <2>3. UNCHANGED carried
    BY <1>2 DEF TogglePin
  <2> QED
    BY <2>1, <2>2, <2>3, ChangeImplements
<1>3. ASSUME NEW i \in Items, Recapture(i) \/ PasteTouch(i) PROVE Ledger!Next
  <2>1. PICK t : item' = [item EXCEPT ![i].updated = t] /\ Touched({i}, t)
    BY <1>3 DEF Recapture, PasteTouch
  <2>2. UNCHANGED carried
    BY <1>3 DEF Recapture, PasteTouch
  <2> QED
    BY <2>1, <2>2, TouchImplements
<1>4. ASSUME NEW S \in SUBSET Items, Delete(S) PROVE Ledger!Next
  <2>1. PICK t \in Stamps(Lag) : TombstoneWrites(S, t)
    BY <1>4 DEF Delete
  <2>2. /\ \A i \in S : item'[i].status = "pending" /\ item'[i].rev = item[i].rev + 1
        /\ \A i \in Items \ S : item'[i] = item[i]
        /\ Changed(S, t)
    BY <2>1 DEF TombstoneWrites
  <2>3. S # {} /\ UNCHANGED carried
    BY <1>4 DEF Delete
  <2> QED
    BY <2>2, <2>3, ChangeImplements
<1>5. CASE Abandon
  <2>1. \A i \in Items : /\ item'[i].rev = item[i].rev
                         /\ item'[i].status \in {"synced", "purged"}
                            <=> item[i].status \in {"synced", "purged"}
    BY <1>5 DEF Abandon, AbandonWrites, TypeOK, ItemRow
  <2> QED
    BY <1>5, <2>1, OtherImplements DEF Abandon
<1>6. ASSUME NEW x \in Exporters, WriteSnapshot(x) PROVE Ledger!Next
  BY <1>6, WriteImplements
<1>7. ASSUME NEW x \in Exporters, MarkExported(x) PROVE Ledger!Next
  BY <1>7, MarkImplements
<1>8. CASE Cleanup
  <2>1. \A i \in Items : /\ item'[i].rev = item[i].rev
                         /\ item'[i].status \in {"synced", "purged"}
                            <=> item[i].status \in {"synced", "purged"}
    BY <1>8 DEF Cleanup, Purgeable, TypeOK, ItemRow
  <2> QED
    BY <1>8, <2>1, OtherImplements DEF Cleanup
<1>9. ASSUME \/ \E o \in owed : LogEvent(o) \/ AddBlobs(o)
             \/ \E on \in BOOLEAN : SetAutoSync(on)
             \/ \E x \in Exporters :
                   \/ StartCycle(x) \/ BeginExport(x) \/ SampleExport(x)
                   \/ ReadPackage(x) \/ FailExport(x)
                   \/ \E b \in Blobs : UploadBlob(x, b)
             \/ Crash \/ Tick \/ UNCHANGED vars
      PROVE  UNCHANGED Ledger!ledgerVars
  <2>1. UNCHANGED <<item, carried, late>>
    BY <1>9 DEF LogEvent, AddBlobs, SetAutoSync, StartCycle, BeginExport, SampleExport,
        ReadPackage, FailExport, UploadBlob, Crash, Tick, vars
  <2> QED
    BY <2>1, OtherImplements DEF Acknowledged
<1> QED
  BY <1>1, <1>2, <1>3, <1>4, <1>5, <1>6, <1>7, <1>8, <1>9 DEF Next

\* The queue keeps the ledger's promise: statuses, stamps and checkpoints
\* acknowledge a change only when the remote holds it.
THEOREM QueueImplementsLedger == Spec => ImplementsLedger
<1>1. Init => LedgerInv
  <2>1. Init => AbsentHasNoRev
    BY DEF Init, AbsentHasNoRev, NoItem
  <2> QED
    BY <2>1, TypeInit, IInvInit DEF LedgerInv
<1>2. LedgerInv /\ [Next]_vars => LedgerInv'
  BY TypeNext, IInvNext, AbsentNext DEF LedgerInv
<1> QED
  BY <1>1, <1>2, LedgerInit, LedgerNext, PTL DEF Spec, ImplementsLedger, Ledger!Spec

=============================================================================
