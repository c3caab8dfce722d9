------------------------------ MODULE Exchange ------------------------------
(***************************************************************************)
(* Sync cycles at the level of storage calls.  Several devices share one   *)
(* remote folder without any lock: every list, read, write and delete is a *)
(* step, a write is not atomic, the call or the process may end at each of *)
(* them, and on one device the cycle of the auto-sync thread and one that  *)
(* the user starts may run at once.                                        *)
(*                                                                         *)
(* What is synced is abstract: device d has made made[d] changes, has[d]   *)
(* says how many of each device's changes it has.  Merging is in           *)
(* Replication, the queue in SyncQueue, blobs in BlobFiles; the .keep      *)
(* files and the device markers, which nobody reads, are left out.         *)
(***************************************************************************)
EXTENDS Integers, FiniteSets

CONSTANTS
    Devices,
    Editors,      \* the devices whose users change something or start a cycle
    Keep,         \* REMOTE_SNAPSHOTS_KEPT_PER_DEVICE
    HidesErrors,  \* FTP: a failed list is an empty one, a failed delete is none,
                  \* and a file that cannot be asked for does not exist
    MaxChanges,   \* bound on the changes of a device
    MaxExports,   \* bound on the snapshots written
    MaxCommands,  \* bound on the cycles started by users
    MaxFaults     \* bound on the failures

ASSUME ExchangeAssumption ==
    /\ IsFiniteSet(Devices) /\ Editors \subseteq Devices
    /\ Keep \in Nat \ {0}
    /\ HidesErrors \in BOOLEAN
    /\ MaxChanges \in Nat /\ MaxExports \in Nat /\ MaxCommands \in Nat /\ MaxFaults \in Nat

Counts == [Devices -> 0..MaxChanges]
Names == 1..MaxExports
Snapshot == [no : Names, by : Devices, whole : BOOLEAN, holds : Counts]
NoPackage == [no |-> 0]

\* The thread that syncs automatically, and a command of the user.
Cycles == (Devices \X {"auto"}) \cup (Editors \X {"user"})
Dev(c) == c[1]

VARIABLES
    has,          \* the database: the changes of every device that d has
    synced,       \* of its own changes, those marked as synced
    imported,     \* IMPORTED_SNAPSHOTS_KEY
    manifest,     \* manifest.json: "none", "torn" or "whole"
    snapshots,    \* the files of snapshots/
    written,      \* snapshots written so far; names are in the order of time
    cycle,        \* the cycles under way
    commands, faults

remote == <<manifest, snapshots, written>>
vars == <<has, synced, imported, remote, cycle, commands, faults>>

Idle == [pc |-> "idle", goal |-> "sync", todo |-> {}, empty |-> FALSE, names |-> {},
         package |-> NoPackage]
Cycle == [pc : {"idle", "layout", "layoutManifest", "import", "merged", "writing",
                "manifest", "writeManifest", "mark", "own", "prune"},
          goal : {"sync", "syncAll", "export"}, todo : SUBSET Names, empty : BOOLEAN,
          names : SUBSET Names, package : Snapshot \cup {NoPackage}]

TypeOK ==
    /\ has \in [Devices -> Counts]
    /\ synced \in Counts
    /\ imported \in [Devices -> SUBSET Names]
    /\ manifest \in {"none", "torn", "whole"}
    /\ snapshots \subseteq Snapshot
    /\ written \in 0..MaxExports
    /\ cycle \in [Cycles -> Cycle]
    /\ commands \in 0..MaxCommands /\ faults \in 0..MaxFaults

\* Every device has exported and imported once, before there was anything to sync.
First == CHOOSE by \in [1..Cardinality(Devices) -> Devices] :
             \A d \in Devices : \E n \in DOMAIN by : by[n] = d
FirstSnapshots == {[no |-> n, by |-> First[n], whole |-> TRUE, holds |-> [d \in Devices |-> 0]] :
                      n \in DOMAIN First}
SetUp == /\ written = Cardinality(Devices)
         /\ imported = [d \in Devices |-> 1..written]
         /\ manifest = "whole" /\ snapshots = FirstSnapshots
         /\ commands = 0

\* Or the folder is empty (and, as a bound, the users start no cycle).
Fresh == /\ written = 0
         /\ imported = [d \in Devices |-> {}]
         /\ manifest = "none" /\ snapshots = {}
         /\ commands = MaxCommands

Init ==
    /\ SetUp \/ Fresh
    /\ has = [d \in Devices |-> [e \in Devices |-> 0]]
    /\ synced = [d \in Devices |-> 0]
    /\ cycle = [c \in Cycles |-> Idle]
    /\ faults = 0

There == {s.no : s \in snapshots}
Pending(d) == synced[d] < has[d][d]
Later(h, g) == [d \in Devices |-> IF h[d] < g[d] THEN g[d] ELSE h[d]]
At(c, pc) == cycle[c].pc = pc
To(c, pc) == cycle' = [cycle EXCEPT ![c].pc = pc]
End(c) == cycle' = [cycle EXCEPT ![c] = Idle]

Local == <<has, synced, imported>>
Faulty == faults < MaxFaults /\ faults' = faults + 1
Healthy == faults' = faults

\* What a storage call answers.  A list is the files that are there, or none when an
\* error is hidden; so is a file that nobody finds; and what is deleted may stay.
Lists(names) == IF names = There THEN Healthy ELSE names = {} /\ HidesErrors /\ Faulty
NotFound == IF manifest = "none" THEN Healthy ELSE HidesErrors /\ Faulty
Deletes(n) == \/ Healthy /\ snapshots' = {s \in snapshots : s.no # n}
              \/ HidesErrors /\ Faulty /\ UNCHANGED snapshots

-----------------------------------------------------------------------------

\* The user copies, pins or deletes something on d.
Change(d) ==
    /\ has[d][d] < MaxChanges
    /\ has' = [has EXCEPT ![d][d] = @ + 1]
    /\ UNCHANGED <<synced, imported, remote, cycle, commands, faults>>

\* run_auto_sync_cycle, when it is due: a write, which has a timeout of seconds,
\* does not last until the next cycle, minutes later.
Begin(d) ==
    /\ At(<<d, "auto">>, "idle")
    /\ \A c \in Cycles : cycle[c].pc \notin {"writing", "writeManifest", "layoutManifest"}
    /\ cycle' = [cycle EXCEPT ![<<d, "auto">>] = [Idle EXCEPT !.pc = "layout"]]
    /\ UNCHANGED <<Local, remote, commands, faults>>

\* sync_with_remote_now and export_to_remote_sync_folder.
Command(d) ==
    /\ At(<<d, "user">>, "idle")
    /\ commands < MaxCommands /\ commands' = commands + 1
    /\ \E goal \in {"syncAll", "export"} :
          cycle' = [cycle EXCEPT ![<<d, "user">>] = [Idle EXCEPT !.pc = "layout", !.goal = goal]]
    /\ UNCHANGED <<Local, remote, faults>>

\* ensure_remote_layout: the manifest is written unless there is one, whatever is
\* in it.
Layout(c) ==
    /\ At(c, "layout")
    /\ NotFound
    /\ manifest' = "torn"
    /\ To(c, "layoutManifest")
    /\ UNCHANGED <<Local, snapshots, written, commands>>

\* It has nothing to do once there is one.
LaidOut(c, goals) == At(c, "layout") /\ manifest # "none" /\ cycle[c].goal \in goals

\* list_snapshot_paths
List(c) ==
    /\ LaidOut(c, {"sync", "syncAll"})
    /\ \E names \in {There, {}} :
          /\ Lists(names)
          /\ cycle' = [cycle EXCEPT ![c].pc = "import", ![c].empty = (names = {}),
                 ![c].todo = IF cycle[c].goal = "syncAll" THEN names
                             ELSE names \ imported[Dev(c)]]
    /\ UNCHANGED <<Local, remote, commands>>

\* The next snapshot is read and merged in one transaction, and the list of names
\* is read to be written back; a snapshot that was pruned since, or is torn, ends
\* the cycle with an error.
Import(c) ==
    /\ At(c, "import")
    /\ \E n \in cycle[c].todo :
          /\ \A m \in cycle[c].todo : n <= m
          /\ \/ \E s \in snapshots :
                   /\ s.no = n /\ s.whole
                   /\ has' = [has EXCEPT ![Dev(c)] = Later(@, s.holds)]
                   /\ cycle' = [cycle EXCEPT ![c].pc = "merged", ![c].package = s,
                                             ![c].todo = cycle[c].todo \ {n},
                                             ![c].names = imported[Dev(c)]]
             \/ /\ ~\E s \in snapshots : s.no = n /\ s.whole
                /\ End(c)
                /\ UNCHANGED has
    /\ UNCHANGED <<synced, imported, remote, commands, faults>>

\* What to prune, of the names that a second listing gives.
Excess(c, names) ==
    LET own == {s.no : s \in {t \in snapshots : t.by = Dev(c) /\ t.no \in names}}
    IN  IF cycle[c].package.no \in own
        THEN {n \in own \ {cycle[c].package.no} : Cardinality({m \in own : n < m}) >= Keep}
        ELSE {}

\* record_imported_snapshot writes the list of names as it was, and one more.
WriteNames(c) ==
    /\ \/ /\ At(c, "merged")
          /\ cycle' = [cycle EXCEPT ![c].pc = "import", ![c].names = {},
                                    ![c].package = NoPackage]
          /\ Healthy
       \/ /\ At(c, "own")
          /\ \E names \in {There, {}} :
                /\ Lists(names)
                /\ cycle' = [cycle EXCEPT ![c].pc = "prune", ![c].names = {},
                                          ![c].todo = Excess(c, names)]
    /\ imported' = [imported EXCEPT ![Dev(c)] = cycle[c].names \cup {cycle[c].package.no}]
    /\ UNCHANGED <<has, synced, remote, commands>>

MutEndImport(c) ==
    /\ At(c, "import") /\ cycle[c].todo = {}
    /\ IF cycle[c].empty
       THEN cycle' = [cycle EXCEPT ![c] = [Idle EXCEPT !.pc = "layout", !.goal = "export"]]
       ELSE End(c)
    /\ UNCHANGED <<Local, remote, commands, faults>>

\* sync_with_remote: is there something to export?
EndImport(c) ==
    /\ At(c, "import") /\ cycle[c].todo = {}
    /\ IF Pending(Dev(c)) \/ cycle[c].empty
       THEN cycle' = [cycle EXCEPT ![c] = [Idle EXCEPT !.pc = "layout", !.goal = "export"]]
       ELSE End(c)
    /\ UNCHANGED <<Local, remote, commands, faults>>

\* The snapshot is built and begun; it says what the device has by now.  (At the
\* bound the export is given up.)
StartSnapshot(c) ==
    LET s == [no |-> written + 1, by |-> Dev(c), whole |-> FALSE, holds |-> has[Dev(c)]] IN
    /\ LaidOut(c, {"export"})
    /\ \/ /\ written < MaxExports
          /\ written' = written + 1
          /\ snapshots' = snapshots \cup {s}
          /\ cycle' = [cycle EXCEPT ![c].pc = "writing", ![c].package = s]
       \/ /\ written = MaxExports
          /\ End(c)
          /\ UNCHANGED <<snapshots, written>>
    /\ UNCHANGED <<Local, manifest, commands, faults>>

EndSnapshot(c) ==
    /\ At(c, "writing")
    /\ snapshots' = {IF s.no = cycle[c].package.no THEN [s EXCEPT !.whole = TRUE] ELSE s :
                        s \in snapshots}
    /\ To(c, "manifest")
    /\ UNCHANGED <<Local, manifest, written, commands, faults>>

\* write_manifest reads the old one first: one that is torn fails the export.
StartManifest(c) ==
    /\ At(c, "manifest")
    /\ IF manifest = "torn"
       THEN End(c) /\ UNCHANGED manifest
       ELSE To(c, "writeManifest") /\ manifest' = "torn"
    /\ UNCHANGED <<Local, snapshots, written, commands, faults>>

EndManifest(c) ==
    /\ \/ At(c, "layoutManifest") /\ To(c, "layout")
       \/ At(c, "writeManifest") /\ To(c, "mark")
    /\ manifest' = "whole"
    /\ UNCHANGED <<Local, snapshots, written, commands, faults>>

MutMark(c) ==
    /\ At(c, "mark")
    /\ synced' = [synced EXCEPT ![Dev(c)] = has[Dev(c)][Dev(c)]]
    /\ cycle' = [cycle EXCEPT ![c].pc = "own", ![c].names = imported[Dev(c)]]
    /\ UNCHANGED <<has, imported, remote, commands, faults>>

\* mark_sync_exported
Mark(c) ==
    /\ At(c, "mark")
    /\ synced' = [synced EXCEPT ![Dev(c)] =
                     IF @ < cycle[c].package.holds[Dev(c)] THEN cycle[c].package.holds[Dev(c)]
                     ELSE @]
    /\ cycle' = [cycle EXCEPT ![c].pc = "own", ![c].names = imported[Dev(c)]]
    /\ UNCHANGED <<has, imported, remote, commands, faults>>

\* prune_device_snapshots, the oldest first.
Prune(c) ==
    /\ At(c, "prune")
    /\ \/ cycle[c].todo = {} /\ End(c) /\ Healthy /\ UNCHANGED snapshots
       \/ \E n \in cycle[c].todo :
             /\ \A m \in cycle[c].todo : n <= m
             /\ cycle' = [cycle EXCEPT ![c].todo = @ \ {n}]
             /\ Deletes(n)
    /\ UNCHANGED <<Local, manifest, written, commands>>

\* A call fails and ends the cycle, or the process ends.
Fail(c) ==
    /\ ~At(c, "idle")
    /\ Faulty
    /\ End(c)
    /\ UNCHANGED <<Local, remote, commands>>

-----------------------------------------------------------------------------

Step(c) ==
    \/ Layout(c) \/ List(c) \/ Import(c) \/ WriteNames(c) \/ EndImport(c) \/ StartSnapshot(c)
    \/ EndSnapshot(c) \/ StartManifest(c) \/ EndManifest(c)
    \/ Mark(c) \/ Prune(c)

Next ==
    \/ \E d \in Devices : Begin(d)
    \/ \E d \in Editors : Change(d) \/ Command(d)
    \/ \E c \in Cycles : Step(c) \/ Fail(c)

Spec == Init /\ [][Next]_vars

\* The auto-sync thread begins again and again, and every call returns.
Fairness == /\ \A d \in Devices : WF_vars(Begin(d))
            /\ \A c \in Cycles : WF_vars(Step(c))
FairSpec == Spec /\ Fairness

-----------------------------------------------------------------------------
(* Properties *)

\* Snapshots of d, not whole, that were begun when it had made v changes or more.
Cut(d, v) == {s.no : s \in {t \in snapshots : t.by = d /\ ~t.whole /\ v <= t.holds[d]}}

\* A change that its device has marked as synced is on every device that has
\* imported all whole snapshots: no failure, no pruning and no cycle that runs at
\* the same time makes the record of imports or the queue claim more than that,
\* until as many newer snapshots as a device keeps are cut short or under way
\* (remote_sync_service.rs:319-436, 720-733, 1057-1099).
SyncedIsShared ==
    \A d, e \in Devices :
        {s.no : s \in {t \in snapshots : t.whole}} \subseteq imported[e]
            => has[e][d] >= synced[d] \/ Cardinality(Cut(d, synced[d])) >= Keep

\* Only a file that was cut short stops the exchange: after any other failure
\* every device ends up with every change (remote_sync_service.rs:400, 472).
Torn == manifest = "torn" \/ \E s \in snapshots : ~s.whole
Shared == \A d, e \in Devices : has[e][d] = has[d][d]
OnlyTornFilesBlock == <>[]Torn \/ <>[]Shared
=============================================================================
