----------------------------- MODULE Replication -----------------------------
(***************************************************************************)
(* Devices that synchronise their clipboard history through snapshots on a *)
(* remote storage.  sync_with_remote lists the snapshots, merges the ones  *)
(* it has to (one transaction each), writes a snapshot of its own if       *)
(* something is pending, marks what it exported and prunes its old         *)
(* snapshots.  Any call may fail and end the cycle; users edit in between. *)
(*                                                                         *)
(* One cycle runs at a time per device and clock samples are in the order  *)
(* of the commits: what happens otherwise is the subject of SyncQueue, as  *)
(* is abandonment.  Blobs are not modelled.  Clocks agree between devices. *)
(***************************************************************************)
EXTENDS MergeRules, FiniteSets

CONSTANTS
    Devices,
    Keep,            \* REMOTE_SNAPSHOTS_KEPT_PER_DEVICE
    Expires,         \* may stamps grow older than the export window?
    Modes,           \* "auto": only new snapshots are imported; "manual": all
    MaxTime,         \* bound on the stamps
    MaxRev,          \* bound on the revisions
    MaxSnapshots,    \* bound on the snapshots ever written
    MaxFailures      \* bound on the failed cycles

ASSUME ReplicationAssumption ==
    /\ Keep \in Nat \ {0}
    /\ Expires \in BOOLEAN
    /\ Modes \subseteq {"auto", "manual"}
    /\ MaxTime \in Nat /\ MaxRev \in Nat
    /\ MaxSnapshots \in Nat /\ MaxFailures \in Nat

VARIABLES
    db,          \* clipboard_items of each device
    known,       \* sync_events of each device
    queued,      \* those of them that are not synced
    imported,    \* imported_snapshots of each device
    remote,      \* the snapshots of each device on the remote storage
    written,     \* number of snapshots written so far
    cycle,       \* program counter and locals of each device's sync cycle
    now,         \* the last RFC 3339 stamp
    horizon,     \* stamps up to this one are older than the export window
    failures,    \* number of cycles that failed
    buried,      \* history: newest revision at which a device held a tombstone
    forgotten,   \* history: items whose tombstone a device purged or gave away
    pasted       \* history: newest revision at which an item was pasted

tables == <<db, known, queued>>
history == <<buried, forgotten, pasted>>
vars == <<tables, imported, remote, written, cycle, now, horizon, failures, history>>

\* An event: of a local change (its stamp tells it apart) or of a conflict.
EventIds == SyncIds \X Nat \X {"change", "conflict"}

\* no: place in the order of the snapshot names, which start with exported_at.
Snapshot == [no : Nat, at : Nat, items : [SyncIds -> Item],
             events : SUBSET EventIds, unsynced : SUBSET EventIds]
NoSnapshot == [no |-> 0, at |-> 0, items |-> [s \in SyncIds |-> NoItem],
               events |-> {}, unsynced |-> {}]
NoRows == [s \in SyncIds |-> NoRow]

\* todo: snapshots still to import; empty: the listing was empty; package, left,
\* work, taken, conflicts: the snapshot being imported or written, its items still
\* to merge, the rows, those given to another sync id and the conflict events
\* inside the transaction.
CycleState == [pc : {"idle", "import", "merge", "merged", "written", "marked"},
               todo : SUBSET Nat, empty : BOOLEAN, package : Snapshot,
               left : SUBSET SyncIds, work : Table, taken : SUBSET SyncIds,
               conflicts : SUBSET EventIds]
Idle == [pc |-> "idle", todo |-> {}, empty |-> FALSE, package |-> NoSnapshot,
         left |-> {}, work |-> NoRows, taken |-> {}, conflicts |-> {}]

TypeOK ==
    /\ db \in [Devices -> Table]
    /\ known \in [Devices -> SUBSET EventIds]
    /\ queued \in [Devices -> SUBSET EventIds]
    /\ imported \in [Devices -> SUBSET Nat]
    /\ remote \in [Devices -> SUBSET Snapshot]
    /\ written \in Nat
    /\ cycle \in [Devices -> CycleState]
    /\ now \in Nat /\ now >= Instants
    /\ horizon \in Nat
    /\ failures \in Nat
    /\ buried \in [Devices -> [SyncIds -> Nat]]
    /\ forgotten \in [Devices -> SUBSET SyncIds]
    /\ pasted \in [SyncIds -> Nat]

Init ==
    /\ db = [d \in Devices |-> NoRows]
    /\ known = [d \in Devices |-> {}]
    /\ queued = [d \in Devices |-> {}]
    /\ imported = [d \in Devices |-> {}]
    /\ remote = [d \in Devices |-> {}]
    /\ written = 0
    /\ cycle = [d \in Devices |-> Idle]
    /\ now = Instants
    /\ horizon = 0
    /\ failures = 0
    /\ buried = [d \in Devices |-> [s \in SyncIds |-> 0]]
    /\ forgotten = [d \in Devices |-> {}]
    /\ pasted = [s \in SyncIds |-> 0]

Snapshots == UNION {remote[d] : d \in Devices}
Names == {m.no : m \in Snapshots}

\* The import of a snapshot holds the write lock of its database.
Unlocked(d) == cycle[d].pc # "merge"

-----------------------------------------------------------------------------
(* Local changes of device d *)

\* The next stamp; the day is over when none of its own is left.
Stamp == IF IsPaste(now + 1) THEN now + 1 + Instants ELSE now + 1

LocalStep(d) ==
    /\ Unlocked(d)
    /\ Stamp <= MaxTime
    /\ now' = Stamp
    /\ UNCHANGED <<imported, remote, written, cycle, horizon, failures, forgotten>>

\* mark_item_created, mark_item_updated, mark_item_deleted.
Log(d, s) ==
    /\ known' = [known EXCEPT ![d] = @ \cup {<<s, Stamp, "change">>}]
    /\ queued' = [queued EXCEPT ![d] = @ \cup {<<s, Stamp, "change">>}]

\* ingest of content that has no live row here; the sync id is fresh everywhere.
Capture(d, s) ==
    /\ \A e \in Devices : ~Exists(db[e][s]) /\ buried[e][s] = 0
    /\ \A m \in Snapshots : ~Exists(m.items[s])
    /\ \A r \in SyncIds : HashOf[r] = HashOf[s] => ~Live(db[d][r])
    /\ LocalStep(d)
    /\ db' = [db EXCEPT ![d][s] = [rev |-> 1, upd |-> Stamp, pin |-> FALSE,
                                   del |-> 0, status |-> "pending"]]
    /\ Log(d, s)
    /\ UNCHANGED <<buried, pasted>>

\* ingest of content that has a live row: only the stamp moves.
Recapture(d, s) ==
    /\ Live(db[d][s])
    /\ LocalStep(d)
    /\ db' = [db EXCEPT ![d][s].upd = Stamp]
    /\ UNCHANGED <<known, queued, buried, pasted>>

\* increment_used_count: a paste moves the stamp too, but writes it in the other
\* format.  (The row may have been deleted since the paste began.)
Paste(d, s) ==
    /\ Exists(db[d][s])
    /\ LocalStep(d)
    /\ db' = [db EXCEPT ![d][s].upd = Stamp - Instants]
    /\ pasted' = [pasted EXCEPT ![s] = Larger(@, db[d][s].rev)]
    /\ UNCHANGED <<known, queued, buried>>

TogglePin(d, s) ==
    /\ Live(db[d][s]) /\ db[d][s].rev < MaxRev
    /\ LocalStep(d)
    /\ db' = [db EXCEPT ![d][s] = [rev |-> @.rev + 1, upd |-> Stamp, pin |-> ~@.pin,
                                   del |-> @.del, status |-> "pending"]]
    /\ Log(d, s)
    /\ UNCHANGED <<buried, pasted>>

\* The row of a deleted item keeps its pin.
Delete(d, s) ==
    /\ Live(db[d][s]) /\ db[d][s].rev < MaxRev
    /\ LocalStep(d)
    /\ db' = [db EXCEPT ![d][s] = [rev |-> @.rev + 1, upd |-> Stamp, pin |-> @.pin,
                                   del |-> Stamp, status |-> "pending"]]
    /\ Log(d, s)
    /\ buried' = [buried EXCEPT ![d][s] = db[d][s].rev + 1]
    /\ UNCHANGED pasted

\* Time passes without a change.
Pass ==
    /\ Expires
    /\ horizon' \in {t \in (horizon + 1)..now : ~IsPaste(t)}
    /\ UNCHANGED <<tables, imported, remote, written, cycle, now, failures, history>>

\* cleanup_sync_data_at: a synced tombstone past the window without unsynced events.
Purgeable(d, s) ==
    /\ Tombstone(db[d][s]) /\ db[d][s].status = "synced" /\ db[d][s].del <= horizon
    /\ \A e \in queued[d] : e[1] # s

Cleanup(d) ==
    /\ Unlocked(d)
    /\ db' = [db EXCEPT ![d] = [s \in SyncIds |-> IF Purgeable(d, s) THEN NoRow ELSE @[s]]]
    /\ known' = [known EXCEPT ![d] =
                    {e \in @ : e \in queued[d] \/ (e[2] > horizon /\ ~Purgeable(d, e[1]))}]
    /\ forgotten' = [forgotten EXCEPT ![d] = @ \cup {s \in SyncIds : Purgeable(d, s)}]
    /\ UNCHANGED <<queued, imported, remote, written, cycle, now, horizon, failures,
                   buried, pasted>>

-----------------------------------------------------------------------------
(* Importing *)

\* import_remote_snapshots lists the snapshots; a manual sync takes all of them.
Begin(d) ==
    /\ cycle[d].pc = "idle"
    /\ \E mode \in Modes :
        cycle' = [cycle EXCEPT ![d] =
            [Idle EXCEPT !.pc = "import", !.empty = (Names = {}),
                         !.todo = IF mode = "auto" THEN Names \ imported[d] ELSE Names]]
    /\ UNCHANGED <<tables, imported, remote, written, now, horizon, failures, history>>

\* The next snapshot in the order of the names is read.
Read(d) ==
    /\ cycle[d].pc = "import"
    /\ \E m \in Snapshots :
        /\ m.no \in cycle[d].todo
        /\ \A n \in cycle[d].todo : m.no <= n
        /\ cycle' = [cycle EXCEPT ![d] =
            [cycle[d] EXCEPT !.pc = "merge", !.todo = cycle[d].todo \ {m.no},
                             !.package = m, !.work = db[d],
                             !.left = {s \in SyncIds : Exists(m.items[s])}]]
    /\ UNCHANGED <<tables, imported, remote, written, now, horizon, failures, history>>

\* Its device pruned it after the listing: the cycle ends with an error.
Missing(d) ==
    /\ cycle[d].pc = "import"
    /\ \E n \in cycle[d].todo \ Names : \A k \in cycle[d].todo : n <= k
    /\ cycle' = [cycle EXCEPT ![d] = Idle]
    /\ UNCHANGED <<tables, imported, remote, written, now, horizon, failures, history>>

\* mark_conflict: the event has the stamp of the tombstone.
ConflictEvents(table, t, v) ==
    IF IsConflict(table, t, v) THEN {<<t, Time(v.upd), "conflict">>} ELSE {}

Gone(before, after) == {s \in SyncIds : Exists(before[s]) /\ ~Exists(after[s])}

\* merge_item for the next item: a package lists them by datetime(updated_at).
Merge(d) ==
    LET items == cycle[d].package.items
        work == cycle[d].work
    IN  /\ cycle[d].pc = "merge"
        /\ \E t \in cycle[d].left :
            /\ \A s \in cycle[d].left : Time(items[t].upd) <= Time(items[s].upd)
            /\ \E table \in Merged(work, t, items[t]) :
                cycle' = [cycle EXCEPT ![d] =
                    [cycle[d] EXCEPT !.left = cycle[d].left \ {t}, !.work = table,
                                     !.taken = cycle[d].taken \cup Gone(work, table),
                                     !.conflicts = cycle[d].conflicts \cup
                                                     ConflictEvents(work, t, items[t])]]
        /\ UNCHANGED <<tables, imported, remote, written, now, horizon, failures, history>>

\* upsert_sync_event: an event is inserted unless its id is known.
MutNewlyQueued(d, package) == package.unsynced

NewlyQueued(d, package) == package.unsynced \ known[d]

\* The events are inserted (a conflict gets a fresh id every time), and the
\* transaction commits.
Commit(d) ==
    LET package == cycle[d].package
        work == cycle[d].work
    IN  /\ cycle[d].pc = "merge" /\ cycle[d].left = {}
        /\ db' = [db EXCEPT ![d] = work]
        /\ known' = [known EXCEPT ![d] = @ \cup package.events \cup cycle[d].conflicts]
        /\ queued' = [queued EXCEPT ![d] = @ \cup NewlyQueued(d, package)
                                             \cup cycle[d].conflicts]
        /\ buried' = [buried EXCEPT ![d] =
                        [s \in SyncIds |-> IF Tombstone(work[s])
                                           THEN Larger(@[s], work[s].rev) ELSE @[s]]]
        /\ forgotten' = [forgotten EXCEPT ![d] = @ \cup cycle[d].taken]
        /\ cycle' = [cycle EXCEPT ![d] = [@ EXCEPT !.pc = "merged", !.work = NoRows,
                                                    !.taken = {}, !.conflicts = {}]]
        /\ UNCHANGED <<imported, remote, written, now, horizon, failures, pasted>>

\* record_imported_snapshot, a statement of its own.
Record(d) ==
    /\ cycle[d].pc = "merged"
    /\ imported' = [imported EXCEPT ![d] = @ \cup {cycle[d].package.no}]
    /\ cycle' = [cycle EXCEPT ![d] = [@ EXCEPT !.pc = "import", !.package = NoSnapshot]]
    /\ UNCHANGED <<tables, remote, written, now, horizon, failures, history>>

-----------------------------------------------------------------------------
(* Exporting *)

Pending(d) == queued[d] # {} \/ \E s \in SyncIds : db[d][s].status = "pending"

\* sync_with_remote after its imports; should_export.
Imported(d) == cycle[d].pc = "import" /\ cycle[d].todo = {}
ShouldExport(d) == Pending(d) \/ cycle[d].empty

Finish(d) ==
    /\ Imported(d) /\ ~ShouldExport(d)
    /\ cycle' = [cycle EXCEPT ![d] = Idle]
    /\ UNCHANGED <<tables, imported, remote, written, now, horizon, failures, history>>

\* load_export_items and load_export_events.
MutExported(d, s) == Live(db[d][s])

Exported(d, s) ==
    \/ Live(db[d][s])
    \/ Tombstone(db[d][s]) /\ (db[d][s].status # "synced" \/ db[d][s].del > horizon)

SnapshotOf(d) ==
    [no |-> written + 1, at |-> now,
     items |-> [s \in SyncIds |-> LET r == db[d][s] IN
                   IF Exported(d, s) THEN [rev |-> r.rev, upd |-> r.upd, pin |-> r.pin, del |-> r.del]
                   ELSE NoItem],
     events |-> {e \in known[d] : e \in queued[d] \/ e[2] > horizon},
     unsynced |-> queued[d]]

\* The snapshot is built and written, in a sync or by the export command.
Export(d) ==
    /\ \/ Imported(d) /\ ShouldExport(d)
       \/ cycle[d].pc = "idle" /\ "manual" \in Modes
    /\ written < MaxSnapshots
    /\ written' = written + 1
    /\ remote' = [remote EXCEPT ![d] = @ \cup {SnapshotOf(d)}]
    /\ cycle' = [cycle EXCEPT ![d] = [Idle EXCEPT !.pc = "written", !.package = SnapshotOf(d)]]
    /\ UNCHANGED <<tables, imported, now, horizon, failures, history>>

\* mark_sync_exported, without abandonment.
Mark(d) ==
    LET at == cycle[d].package.at IN
    /\ cycle[d].pc = "written"
    /\ db' = [db EXCEPT ![d] = [s \in SyncIds |->
                IF @[s].status = "pending" /\ Time(@[s].upd) <= at
                THEN [@[s] EXCEPT !.status = "synced"] ELSE @[s]]]
    /\ queued' = [queued EXCEPT ![d] = {e \in @ : e[2] > at}]
    /\ cycle' = [cycle EXCEPT ![d].pc = "marked"]
    /\ UNCHANGED <<known, imported, remote, written, now, horizon, failures, history>>

\* record_imported_snapshot and prune_device_snapshots, which deletes the
\* oldest first and may stop early.
Excess(d) == {m \in remote[d] : Cardinality({n \in remote[d] : n.no > m.no}) >= Keep}

Prune(d) ==
    /\ cycle[d].pc = "marked"
    /\ imported' = [imported EXCEPT ![d] = @ \cup {cycle[d].package.no}]
    /\ \E removed \in SUBSET Excess(d) :
        /\ \A m \in removed, n \in Excess(d) \ removed : m.no < n.no
        /\ remote' = [remote EXCEPT ![d] = @ \ removed]
    /\ cycle' = [cycle EXCEPT ![d] = Idle]
    /\ UNCHANGED <<tables, written, now, horizon, failures, history>>

\* A call fails or the process ends; an open transaction is rolled back.
Fail(d) ==
    /\ cycle[d].pc # "idle"
    /\ failures < MaxFailures
    /\ failures' = failures + 1
    /\ cycle' = [cycle EXCEPT ![d] = Idle]
    /\ UNCHANGED <<tables, imported, remote, written, now, horizon, history>>

-----------------------------------------------------------------------------

Edit(d) ==
    \E s \in SyncIds :
        Capture(d, s) \/ Recapture(d, s) \/ Paste(d, s) \/ TogglePin(d, s) \/ Delete(d, s)
Import(d) == Begin(d) \/ Read(d) \/ Missing(d) \/ Merge(d) \/ Commit(d) \/ Record(d)
Sync(d) == Import(d) \/ Finish(d) \/ Export(d) \/ Mark(d) \/ Prune(d)

Next ==
    \/ \E d \in Devices : Edit(d) \/ Cleanup(d) \/ Sync(d) \/ Fail(d)
    \/ Pass

Spec == Init /\ [][Next]_vars

\* The auto-sync thread repeats its cycle, and every step of it returns.
Fairness == \A d \in Devices : WF_vars(Sync(d))

FairSpec == Spec /\ Fairness

-----------------------------------------------------------------------------
(* Properties *)

Version(row) == [rev |-> row.rev, upd |-> row.upd, pin |-> row.pin, del |-> row.del]
Newest(d) == {m \in remote[d] : \A n \in remote[d] : n.no <= m.no}

\* Device d holds s as its newest snapshot says, and has imported all snapshots.
Settled(d, s) ==
    /\ Names \subseteq imported[d]
    /\ \E m \in Newest(d) : m.items[s] = Version(db[d][s])

\* Convergence of merge_item: once every device has published its row of an item and has
\* imported what the others published, all hold the same revision, and they agree
\* whether it is deleted unless it was pasted in that revision (a paste moves the
\* stamp back).  Except when one of them protects it by a pin.  (When no two
\* sync ids have the same content and nothing expires.)
Converged ==
    \A s \in SyncIds :
        (\A d \in Devices : Settled(d, s) /\ ~db[d][s].pin) =>
            \A d, e \in Devices :
                /\ db[d][s].rev = db[e][s].rev
                /\ db[d][s].rev > pasted[s] => Live(db[d][s]) = Live(db[e][s])

\* What prune_device_snapshots relies on: an older snapshot of a device holds no
\* item that its newer ones lack or hold in an older revision.
NewestCovers ==
    \A d \in Devices : \A m, n \in remote[d] : \A s \in SyncIds :
        m.no < n.no => m.items[s].rev <= n.items[s].rev

\* A device that has seen the deletion of an item shows it again only in a
\* revision that is not older than that deletion, unless it has purged the
\* tombstone or given its row to another item of the same content.
NoReappearance ==
    \A d \in Devices : \A s \in SyncIds \ forgotten[d] :
        Live(db[d][s]) => db[d][s].rev >= buried[d][s]

\* The same of tombstones that are gone, which is more than purges allow.
DeletionsAreFinal ==
    \A d \in Devices, s \in SyncIds : Live(db[d][s]) => db[d][s].rev >= buried[d][s]

\* An import neither deletes nor unpins an item that is pinned here, whatever
\* tombstones of the same item or of the same content the package holds.
KeepsPins(d, s) ==
    cycle[d].pc = "merge" /\ Live(db[d][s]) /\ db[d][s].pin =>
        Live(db'[d][s]) /\ db'[d][s].pin
ImportKeepsPins == [][\A d \in Devices, s \in SyncIds : KeepsPins(d, s)]_vars

\* An import never takes a row back to an older revision, nor to an earlier time
\* of the same revision unless the row has the stamp of a paste: snapshots are merged
\* in the order of their names, each device's next to the others'.  (When no two sync
\* ids have the same content.)
NotOlder(old, new) ==
    \/ new.rev > old.rev
    \/ new.rev = old.rev /\ Time(new.upd) >= Time(old.upd)
KeptUnlessPasted(old, new) == NotOlder(old, new) \/ (new.rev = old.rev /\ IsPaste(old.upd))
NeverRollsBack(d, s) ==
    cycle[d].pc = "merge" => KeptUnlessPasted(db[d][s], db'[d][s])
ImportNeverRollsBack == [][\A d \in Devices, s \in SyncIds : NeverRollsBack(d, s)]_vars

\* The same for every row, which is more than the stamps of pastes allow.
PastesAreKept ==
    [][\A d \in Devices, s \in SyncIds :
          cycle[d].pc = "merge" => NotOlder(db[d][s], db'[d][s])]_vars

\* The exchange ends: when the users stop, the devices stop having
\* something to export, unless a deletion is held up by a pin (a conflict is
\* reported again at every import).
Conflict == \E d \in Devices, s \in SyncIds : db[d][s].status = "conflicted"
ExchangeEnds == <>[](\A d \in Devices : ~Pending(d)) \/ <>[]Conflict

=============================================================================
