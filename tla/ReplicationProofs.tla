-------------------------- MODULE ReplicationProofs --------------------------
(***************************************************************************)
(* What an import promises, for every number of devices and items: it      *)
(* keeps pins (PinsKept) and takes no row back (NoRollback), a deletion is *)
(* undone only where its row is lost (DeletionsStand), pruning loses       *)
(* nothing (NewestSuffices), and devices that import what the others       *)
(* published converge (Convergence).                                       *)
(***************************************************************************)
EXTENDS Replication, TLAPS

-----------------------------------------------------------------------------
(* Lemmas about the operators of MergeRules *)

LEMMA MergedCases ==
    ASSUME NEW table \in Table, NEW t \in SyncIds, NEW v \in Item,
           NEW T \in Merged(table, t, v)
    PROVE  \/ T = table
           \/ IsConflict(table, t, v) /\ T = Conflicted(table, t, v)
           \/ /\ Exists(table[t]) /\ RemoteWins(table[t], v)
              /\ ~IsConflict(table, t, v)
              /\ T = Updated(table, t, t, v)
           \/ ~Exists(table[t]) /\ T = Inserted(table, t, v)
           \/ \E s \in SyncIds :
                /\ ~Exists(table[t]) /\ Exists(table[s]) /\ HashOf[s] = HashOf[t]
                /\ \/ Tombstone(table[s]) /\ v.del = 0 /\ T = Updated(table, s, t, v)
                   \/ T = Deduplicated(table, s, v)
  BY DEF Merged, FoundByHash, SameContent

LEMMA LargerNat ==
    ASSUME NEW a \in Nat, NEW b \in Nat
    PROVE  Larger(a, b) \in Nat /\ Larger(a, b) >= a /\ Larger(a, b) >= b
  BY DEF Larger

LEMMA MergedType ==
    ASSUME NEW table \in Table, NEW t \in SyncIds, NEW v \in Item,
           NEW T \in Merged(table, t, v)
    PROVE  T \in Table
<1> USE DEF Table, Row, Item
<1>1. ASSUME T = Conflicted(table, t, v) PROVE T \in Table
  <2>1. Larger(table[t].rev, v.rev) \in Nat
    BY LargerNat
  <2>2. QED
    BY <1>1, <2>1 DEF Conflicted
<1>2. ASSUME NEW s \in SyncIds, T = Updated(table, s, t, v) PROVE T \in Table
  BY <1>2 DEF Updated, NoRow
<1>3. ASSUME T = Inserted(table, t, v) PROVE T \in Table
  BY <1>3 DEF Inserted
<1>4. ASSUME NEW s \in SyncIds, T = Deduplicated(table, s, v) PROVE T \in Table
  <2>1. /\ Larger(table[s].rev, v.rev) \in Nat
        /\ Larger(table[s].upd, v.upd) \in Nat
        /\ MergedDeletion(table[s], v) \in Nat
    BY LargerNat DEF MergedDeletion
  <2>2. QED
    BY <1>4, <2>1 DEF Deduplicated
<1>5. QED
  BY <1>1, <1>2, <1>3, <1>4, MergedCases

\* merge_item takes no pinned item away.
LEMMA MergedKeepsPins ==
    ASSUME NEW table \in Table, NEW t \in SyncIds, NEW v \in Item,
           NEW T \in Merged(table, t, v), NEW r \in SyncIds,
           Live(table[r]), table[r].pin
    PROVE  Live(T[r]) /\ T[r].pin
<1> USE DEF Table, Row, Item, Live, Exists
<1>1. ASSUME T = Conflicted(table, t, v) PROVE Live(T[r]) /\ T[r].pin
  <2>1. T[r].del = table[r].del /\ T[r].pin = table[r].pin
    BY <1>1 DEF Conflicted
  <2>2. T[r].rev >= table[r].rev
    BY <1>1, LargerNat DEF Conflicted
  <2>3. T[r].rev \in Nat
    BY MergedType
  <2>4. QED
    BY <2>1, <2>2, <2>3
<1>2. ASSUME RemoteWins(table[t], v), ~IsConflict(table, t, v),
             T = Updated(table, t, t, v)
      PROVE  Live(T[r]) /\ T[r].pin
  <2>1. CASE r = t
    <3>1. v.del = 0
      BY <1>2, <2>1 DEF IsConflict
    <3>2. v.rev > 0
      BY <1>2, <2>1 DEF RemoteWins
    <3>3. T[r].pin = (table[t].pin \/ v.pin) /\ T[r].rev = v.rev /\ T[r].del = v.del
      BY <1>2, <2>1 DEF Updated
    <3>4. T[r].pin
      BY <3>3, <2>1, Zenon
    <3>5. QED
      BY <3>1, <3>2, <3>3, <3>4
  <2>2. CASE r # t
    <3>1. T[r] = table[r]
      BY <1>2, <2>2 DEF Updated
    <3>2. QED
      BY <3>1
  <2>3. QED
    BY <2>1, <2>2
<1>3. ASSUME ~Exists(table[t]), T = Inserted(table, t, v)
      PROVE  Live(T[r]) /\ T[r].pin
  <2>1. T[r] = table[r]
    BY <1>3 DEF Inserted
  <2>2. QED
    BY <2>1
<1>4. ASSUME NEW s \in SyncIds, ~Exists(table[t]), Tombstone(table[s]),
             T = Updated(table, s, t, v)
      PROVE  Live(T[r]) /\ T[r].pin
  <2>1. T[r] = table[r]
    BY <1>4 DEF Updated, Tombstone
  <2>2. QED
    BY <2>1
<1>5. ASSUME NEW s \in SyncIds, T = Deduplicated(table, s, v)
      PROVE  Live(T[r]) /\ T[r].pin
  <2>1. CASE r = s
    <3>1. T[r].pin = (table[s].pin \/ v.pin)
          /\ T[r].rev = Larger(table[s].rev, v.rev)
          /\ T[r].del = MergedDeletion(table[s], v)
      BY <1>5, <2>1 DEF Deduplicated
    <3>2. T[r].pin
      BY <3>1, <2>1, Zenon
    <3>3. MergedDeletion(table[s], v) = 0
      BY <2>1 DEF MergedDeletion, Larger
    <3>4. Larger(table[s].rev, v.rev) > 0
      BY <2>1 DEF Larger
    <3>5. QED
      BY <3>1, <3>2, <3>3, <3>4
  <2>2. CASE r # s
    <3>1. T[r] = table[r]
      BY <1>5, <2>2 DEF Deduplicated
    <3>2. QED
      BY <3>1
  <2>3. QED
    BY <2>1, <2>2
<1>6. QED
  BY <1>1, <1>2, <1>3, <1>4, <1>5, MergedCases

\* If no two sync ids have the same content, merge_item takes no row back in the
\* order in which it compares stamps.
DistinctContent == \A r, s \in SyncIds : HashOf[r] = HashOf[s] => r = s

NotBefore(old, new) ==
    \/ new.rev > old.rev
    \/ new.rev = old.rev /\ new.upd >= old.upd

LEMMA MergedNotBefore ==
    ASSUME DistinctContent,
           NEW table \in Table, NEW t \in SyncIds, NEW v \in Item,
           Exists(v), NEW T \in Merged(table, t, v), NEW r \in SyncIds
    PROVE  NotBefore(table[r], T[r])
<1> USE DEF Table, Row, Item, NotBefore
<1>1. CASE T = Conflicted(table, t, v)
  <2>1. T[r].upd = table[r].upd
    BY <1>1 DEF Conflicted
  <2>2. T[r].rev >= table[r].rev
    BY <1>1, LargerNat DEF Conflicted
  <2>3. T[r].rev \in Nat
    BY MergedType
  <2>4. QED
    BY <2>1, <2>2, <2>3
<1>2. ASSUME RemoteWins(table[t], v), T = Updated(table, t, t, v)
      PROVE  NotBefore(table[r], T[r])
  BY <1>2 DEF Updated, RemoteWins
<1>3. ASSUME ~Exists(table[t]), T = Inserted(table, t, v)
      PROVE  NotBefore(table[r], T[r])
  BY <1>3 DEF Inserted, Exists
<1>4. QED
  BY <1>1, <1>2, <1>3, MergedCases DEF DistinctContent

-----------------------------------------------------------------------------
(* Stamps *)

\* The two formats of an instant.
LEMMA StampFormats ==
    ASSUME NEW u \in Nat
    PROVE  /\ IsPaste(u) => ~IsPaste(u + Instants)
           /\ u >= Instants /\ ~IsPaste(u) => IsPaste(u - Instants)
  BY MergeAssumption DEF IsPaste

LEMMA TimeFacts ==
    ASSUME NEW u \in Nat
    PROVE  Time(u) \in Nat /\ Time(u) >= u
  BY MergeAssumption DEF Time

LEMMA StampFacts ==
    ASSUME TypeOK
    PROVE  /\ Stamp \in Nat /\ Stamp > now /\ Stamp >= Instants
           /\ Stamp - Instants \in Nat
<1> now \in Nat /\ now >= Instants /\ Instants \in Nat
  BY MergeAssumption DEF TypeOK
<1>1. CASE IsPaste(now + 1)
  BY <1>1 DEF Stamp
<1>2. CASE ~IsPaste(now + 1)
  BY <1>2 DEF Stamp
<1>3. QED
  BY <1>1, <1>2

LEMMA StampIsNoPaste == TypeOK => ~IsPaste(Stamp)
<1> SUFFICES ASSUME TypeOK PROVE ~IsPaste(Stamp)
  OBVIOUS
<1> now + 1 \in Nat
  BY DEF TypeOK
<1>1. CASE IsPaste(now + 1)
  BY <1>1, StampFormats DEF Stamp
<1>2. CASE ~IsPaste(now + 1)
  BY <1>2 DEF Stamp
<1>3. QED
  BY <1>1, <1>2

-----------------------------------------------------------------------------
(* Type correctness *)

LEMMA SnapshotType ==
    ASSUME TypeOK, NEW d \in Devices
    PROVE  SnapshotOf(d) \in Snapshot
<1>1. \A s \in SyncIds : db[d][s] \in Row
  BY DEF TypeOK, Table
<1>2. [s \in SyncIds |-> LET r == db[d][s] IN
         IF Exported(d, s) THEN [rev |-> r.rev, upd |-> r.upd, pin |-> r.pin, del |-> r.del]
         ELSE NoItem] \in [SyncIds -> Item]
  BY <1>1 DEF Row, Item, NoItem
<1>3. known[d] \in SUBSET EventIds /\ queued[d] \in SUBSET EventIds
  BY DEF TypeOK
<1>4. written + 1 \in Nat /\ now \in Nat
  BY DEF TypeOK
<1>5. QED
  BY <1>2, <1>3, <1>4 DEF SnapshotOf, Snapshot

LEMMA IdleType == Idle \in CycleState
<1>1. NoRows \in Table
  BY DEF NoRows, NoRow, Table, Row
<1>2. NoSnapshot \in Snapshot
  BY DEF NoSnapshot, Snapshot, NoItem, Item
<1>3. QED
  BY <1>1, <1>2 DEF Idle, CycleState

LEMMA InitType == Init => TypeOK
<1>1. NoRows \in Table
  BY DEF NoRows, NoRow, Table, Row
<1>2. QED
  BY <1>1, IdleType, MergeAssumption DEF Init, TypeOK

\* The local changes keep the types.
LEMMA EditType ==
    ASSUME TypeOK, NEW d \in Devices, Edit(d)
    PROVE  TypeOK'
<1>1. PICK s \in SyncIds : Capture(d, s) \/ Recapture(d, s) \/ Paste(d, s) \/ TogglePin(d, s) \/ Delete(d, s)
  BY DEF Edit
<1>2. /\ Stamp \in Nat /\ Stamp - Instants \in Nat
      /\ now' = Stamp /\ now' \in Nat /\ now' >= Instants
  BY <1>1, StampFacts DEF Capture, Recapture, Paste, TogglePin, Delete, LocalStep
<1>3. UNCHANGED <<imported, remote, written, cycle, horizon, failures, forgotten>>
  BY <1>1 DEF Capture, Recapture, Paste, TogglePin, Delete, LocalStep
<1>4. db' \in [Devices -> Table]
  <2>1. db \in [Devices -> [SyncIds -> Row]] /\ db[d][s] \in Row
    BY DEF TypeOK, Table
  <2>2. ASSUME NEW r \in Row, db' = [db EXCEPT ![d][s] = r] PROVE db' \in [Devices -> Table]
    BY <2>1, <2>2 DEF Table
  <2>3. CASE Capture(d, s)
    <3>1. [rev |-> 1, upd |-> Stamp, pin |-> FALSE, del |-> 0, status |-> "pending"] \in Row
      BY <1>2 DEF Row
    <3>2. QED
      BY <2>2, <2>3, <3>1 DEF Capture
  <2>4. ASSUME NEW u \in Nat, db' = [db EXCEPT ![d][s].upd = u]
        PROVE  db' \in [Devices -> Table]
    <3>1. [db[d][s] EXCEPT !.upd = u] \in Row
      BY <2>1 DEF Row
    <3>2. db' = [db EXCEPT ![d][s] = [db[d][s] EXCEPT !.upd = u]]
      BY <2>4
    <3>3. QED
      BY <2>2, <3>1, <3>2
  <2>5. CASE TogglePin(d, s)
    <3> DEFINE row == [rev |-> db[d][s].rev + 1, upd |-> Stamp, pin |-> ~db[d][s].pin,
                       del |-> db[d][s].del, status |-> "pending"]
    <3>1. (~db[d][s].pin) \in BOOLEAN
      BY Zenon
    <3>2. row \in Row
      BY <1>2, <2>1, <3>1 DEF Row
    <3>3. db' = [db EXCEPT ![d][s] = row]
      BY <2>5 DEF TogglePin
    <3> HIDE DEF row
    <3>4. QED
      BY <2>2, <3>2, <3>3
  <2>6. CASE Delete(d, s)
    <3> DEFINE row == [rev |-> db[d][s].rev + 1, upd |-> Stamp, pin |-> db[d][s].pin,
                       del |-> Stamp, status |-> "pending"]
    <3>1. row \in Row
      BY <1>2, <2>1 DEF Row
    <3>2. db' = [db EXCEPT ![d][s] = row]
      BY <2>6 DEF Delete
    <3> HIDE DEF row
    <3>3. QED
      BY <2>2, <3>1, <3>2
  <2>7. CASE Recapture(d, s) \/ Paste(d, s)
    BY <1>2, <2>4, <2>7 DEF Recapture, Paste
  <2>8. QED
    BY <1>1, <2>3, <2>5, <2>6, <2>7
<1>5. known' \in [Devices -> SUBSET EventIds] /\ queued' \in [Devices -> SUBSET EventIds]
  <2>1. <<s, Stamp, "change">> \in EventIds
    BY <1>2 DEF EventIds
  <2>2. UNCHANGED <<known, queued>> \/ Log(d, s)
    BY <1>1 DEF Capture, Recapture, Paste, TogglePin, Delete
  <2>3. known \in [Devices -> SUBSET EventIds] /\ queued \in [Devices -> SUBSET EventIds]
    BY DEF TypeOK
  <2>4. QED
    BY <2>1, <2>2, <2>3 DEF Log
<1>6. buried' \in [Devices -> [SyncIds -> Nat]]
  <2>1. db[d][s].rev + 1 \in Nat
    BY DEF TypeOK, Table, Row
  <2>2. UNCHANGED buried \/ buried' = [buried EXCEPT ![d][s] = db[d][s].rev + 1]
    BY <1>1 DEF Capture, Recapture, Paste, TogglePin, Delete
  <2>3. buried \in [Devices -> [SyncIds -> Nat]]
    BY DEF TypeOK
  <2>4. QED
    BY <2>1, <2>2, <2>3
<1>7. pasted' \in [SyncIds -> Nat]
  <2>1. pasted \in [SyncIds -> Nat] /\ Larger(pasted[s], db[d][s].rev) \in Nat
    BY LargerNat DEF TypeOK, Table, Row
  <2>2. \/ UNCHANGED pasted
        \/ pasted' = [pasted EXCEPT ![s] = Larger(pasted[s], db[d][s].rev)]
    BY <1>1 DEF Capture, Recapture, Paste, TogglePin, Delete
  <2>3. QED
    BY <2>1, <2>2
<1>8. QED
  BY <1>2, <1>3, <1>4, <1>5, <1>6, <1>7 DEF TypeOK

\* The package a device works on is a snapshot, and so are those on the remote.
LEMMA CycleFacts ==
    ASSUME TypeOK, NEW d \in Devices
    PROVE  /\ cycle \in [Devices -> CycleState] /\ cycle[d] \in CycleState
           /\ cycle[d].package \in Snapshot /\ cycle[d].work \in Table
           /\ \A s \in SyncIds : cycle[d].package.items[s] \in Item
           /\ \A m \in Snapshots : m \in Snapshot
           /\ Names \subseteq Nat
<1>1. cycle[d] \in CycleState /\ cycle[d].package \in Snapshot
  BY DEF TypeOK, CycleState
<1>2. \A m \in Snapshots : m \in Snapshot
  BY DEF TypeOK, Snapshots
<1>3. Names \subseteq Nat
  BY <1>2 DEF Names, Snapshot
<1>4. QED
  BY <1>1, <1>2, <1>3 DEF TypeOK, CycleState, Snapshot

LEMMA ImportType ==
    ASSUME TypeOK, NEW d \in Devices, Import(d)
    PROVE  TypeOK'
<1> USE CycleFacts, IdleType
<1>1. CASE Begin(d)
  <2>1. PICK mode \in Modes :
            cycle' = [cycle EXCEPT ![d] =
              [Idle EXCEPT !.pc = "import", !.empty = (Names = {}),
                           !.todo = IF mode = "auto" THEN Names \ imported[d] ELSE Names]]
    BY <1>1 DEF Begin
  <2>2. (Names = {}) \in BOOLEAN
    BY Zenon
  <2>3. [Idle EXCEPT !.pc = "import", !.empty = (Names = {}),
                     !.todo = IF mode = "auto" THEN Names \ imported[d] ELSE Names] \in CycleState
    BY <2>2 DEF CycleState
  <2>4. QED
    BY <1>1, <2>1, <2>3 DEF Begin, TypeOK, tables, history
<1>2. CASE Read(d)
  <2>1. PICK m \in Snapshots :
            cycle' = [cycle EXCEPT ![d] =
              [cycle[d] EXCEPT !.pc = "merge", !.todo = cycle[d].todo \ {m.no},
                               !.package = m, !.work = db[d],
                               !.left = {s \in SyncIds : Exists(m.items[s])}]]
    BY <1>2 DEF Read
  <2> DEFINE new == [cycle[d] EXCEPT !.pc = "merge", !.todo = cycle[d].todo \ {m.no},
                                     !.package = m, !.work = db[d],
                                     !.left = {s \in SyncIds : Exists(m.items[s])}]
  <2>2. db[d] \in Table
    BY DEF TypeOK
  <2>3. new \in CycleState
    BY <2>2 DEF CycleState
  <2>4. cycle' = [cycle EXCEPT ![d] = new]
    BY <2>1
  <2> HIDE DEF new
  <2>5. cycle' \in [Devices -> CycleState]
    BY <2>3, <2>4
  <2>6. QED
    BY <1>2, <2>5 DEF Read, TypeOK, tables, history
<1>3. CASE Missing(d)
  BY <1>3 DEF Missing, TypeOK, tables, history
<1>4. CASE Merge(d)
  <2> DEFINE items == cycle[d].package.items
             new(t, table) ==
               [cycle[d] EXCEPT !.left = cycle[d].left \ {t}, !.work = table,
                                !.taken = cycle[d].taken \cup Gone(cycle[d].work, table),
                                !.conflicts = cycle[d].conflicts \cup
                                                ConflictEvents(cycle[d].work, t, items[t])]
  <2>1. PICK t \in cycle[d].left : \E table \in Merged(cycle[d].work, t, items[t]) :
            cycle' = [cycle EXCEPT ![d] = new(t, table)]
    BY <1>4 DEF Merge
  <2>2. PICK table \in Merged(cycle[d].work, t, items[t]) :
            cycle' = [cycle EXCEPT ![d] = new(t, table)]
    BY <2>1
  <2>3. t \in SyncIds
    BY DEF CycleState
  <2>4. table \in Table
    BY <2>3, MergedType
  <2>5. ConflictEvents(cycle[d].work, t, items[t]) \subseteq EventIds
    BY <2>3, TimeFacts DEF ConflictEvents, EventIds, Item
  <2>6. new(t, table) \in CycleState
    BY <2>4, <2>5 DEF CycleState, Gone
  <2> HIDE DEF new
  <2>7. cycle' \in [Devices -> CycleState]
    BY <2>2, <2>6
  <2>8. QED
    BY <1>4, <2>7 DEF Merge, TypeOK, tables, history
<1>5. CASE Commit(d)
  <2>1. db' \in [Devices -> Table]
    BY <1>5 DEF Commit, TypeOK
  <2>2. /\ known' \in [Devices -> SUBSET EventIds]
        /\ queued' \in [Devices -> SUBSET EventIds]
    BY <1>5 DEF Commit, TypeOK, NewlyQueued, Snapshot, CycleState
  <2>3. buried' \in [Devices -> [SyncIds -> Nat]]
    <3>1. \A s \in SyncIds : buried[d][s] \in Nat /\ cycle[d].work[s].rev \in Nat
      BY DEF TypeOK, Table, Row
    <3>2. [s \in SyncIds |-> IF Tombstone(cycle[d].work[s])
              THEN Larger(buried[d][s], cycle[d].work[s].rev) ELSE buried[d][s]]
          \in [SyncIds -> Nat]
      BY <3>1, LargerNat
    <3>3. QED
      BY <1>5, <3>2 DEF Commit, TypeOK
  <2>4. NoRows \in Table
    BY DEF NoRows, NoRow, Table, Row
  <2>5. [cycle[d] EXCEPT !.pc = "merged", !.work = NoRows, !.taken = {},
                          !.conflicts = {}] \in CycleState
    BY <2>4 DEF CycleState
  <2>6. cycle' \in [Devices -> CycleState]
    BY <1>5, <2>5 DEF Commit
  <2>7. forgotten' \in [Devices -> SUBSET SyncIds]
    BY <1>5 DEF Commit, TypeOK, CycleState
  <2>8. QED
    BY <1>5, <2>1, <2>2, <2>3, <2>6, <2>7 DEF Commit, TypeOK
<1>6. CASE Record(d)
  <2>1. cycle[d].package.no \in Nat
    BY DEF Snapshot
  <2>2. NoSnapshot \in Snapshot
    BY DEF NoSnapshot, Snapshot, NoItem, Item
  <2>3. [cycle[d] EXCEPT !.pc = "import", !.package = NoSnapshot] \in CycleState
    BY <2>2 DEF CycleState
  <2>4. QED
    BY <1>6, <2>1, <2>3 DEF Record, TypeOK, tables, history
<1>7. QED
  BY <1>1, <1>2, <1>3, <1>4, <1>5, <1>6 DEF Import

LEMMA ExportType ==
    ASSUME TypeOK, NEW d \in Devices, Finish(d) \/ Export(d) \/ Mark(d) \/ Prune(d)
    PROVE  TypeOK'
<1> USE CycleFacts, IdleType
<1>1. CASE Finish(d)
  BY <1>1 DEF Finish, TypeOK, tables, history
<1>2. CASE Export(d)
  <2>1. SnapshotOf(d) \in Snapshot
    BY SnapshotType
  <2>2. [Idle EXCEPT !.pc = "written", !.package = SnapshotOf(d)] \in CycleState
    BY <2>1 DEF CycleState
  <2>3. QED
    BY <1>2, <2>1, <2>2 DEF Export, TypeOK, tables, history
<1>3. CASE Mark(d)
  <2>1. \A s \in SyncIds : db[d][s] \in Row
    BY DEF TypeOK, Table
  <2>2. \A s \in SyncIds : [db[d][s] EXCEPT !.status = "synced"] \in Row
    BY <2>1 DEF Row
  <2>3. db' \in [Devices -> Table]
    BY <1>3, <2>1, <2>2 DEF Mark, TypeOK, Table
  <2>4. [cycle[d] EXCEPT !.pc = "marked"] \in CycleState
    BY DEF CycleState
  <2>5. QED
    BY <1>3, <2>3, <2>4 DEF Mark, TypeOK, history
<1>4. CASE Prune(d)
  <2>1. cycle[d].package.no \in Nat
    BY DEF Snapshot
  <2>2. QED
    BY <1>4, <2>1 DEF Prune, TypeOK, tables, history
<1>5. QED
  BY <1>1, <1>2, <1>3, <1>4

LEMMA NextType ==
    ASSUME TypeOK, [Next]_vars
    PROVE  TypeOK'
<1>1. CASE UNCHANGED vars
  BY <1>1 DEF TypeOK, vars, tables, history
<1>2. CASE Pass
  <2>1. horizon' \in Nat
    BY <1>2 DEF Pass, TypeOK
  <2>2. QED
    BY <1>2, <2>1 DEF Pass, TypeOK, tables, history
<1>3. ASSUME NEW d \in Devices, Cleanup(d) PROVE TypeOK'
  <2>1. [s \in SyncIds |-> IF Purgeable(d, s) THEN NoRow ELSE db[d][s]] \in Table
    BY DEF TypeOK, Table, Row, NoRow
  <2>2. QED
    BY <1>3, <2>1 DEF Cleanup, TypeOK
<1>4. ASSUME NEW d \in Devices, Fail(d) PROVE TypeOK'
  BY <1>4, IdleType DEF Fail, TypeOK, tables, history
<1>5. QED
  BY <1>1, <1>2, <1>3, <1>4, EditType, ImportType, ExportType DEF Next, Sync

\* Every state that Replication reaches is well typed.
THEOREM TypeCorrect == Spec => []TypeOK
<1>1. QED
  BY InitType, NextType, PTL DEF Spec

-----------------------------------------------------------------------------
(* The transaction of an import *)

\* While an import has its transaction open, nothing else changes the rows of
\* its device, and its copy of them goes through Merged one item at a time.
LEMMA OtherDevice ==
    ASSUME TypeOK, [Next]_vars, NEW d \in Devices,
           db'[d] # db[d] \/ cycle'[d] # cycle[d]
    PROVE  Edit(d) \/ Cleanup(d) \/ Sync(d) \/ Fail(d)
<1>1. db \in [Devices -> Table] /\ cycle \in [Devices -> CycleState]
  BY DEF TypeOK
<1>2. ~(UNCHANGED vars) /\ ~Pass
  BY DEF vars, tables, Pass
<1>3. ASSUME NEW e \in Devices, e # d, Edit(e) PROVE db'[d] = db[d] /\ cycle'[d] = cycle[d]
  BY <1>1, <1>3 DEF Edit, Capture, Recapture, Paste, TogglePin, Delete, LocalStep
<1>4. ASSUME NEW e \in Devices, e # d, Cleanup(e) PROVE db'[d] = db[d] /\ cycle'[d] = cycle[d]
  BY <1>1, <1>4 DEF Cleanup
<1>5. ASSUME NEW e \in Devices, e # d, Fail(e) PROVE db'[d] = db[d] /\ cycle'[d] = cycle[d]
  BY <1>1, <1>5 DEF Fail, tables
<1>6. ASSUME NEW e \in Devices, e # d, Import(e) PROVE db'[d] = db[d] /\ cycle'[d] = cycle[d]
  BY <1>1, <1>6 DEF Import, Begin, Read, Missing, Merge, Commit, Record, tables
<1>7. ASSUME NEW e \in Devices, e # d, Finish(e) \/ Export(e) \/ Mark(e) \/ Prune(e)
      PROVE  db'[d] = db[d] /\ cycle'[d] = cycle[d]
  BY <1>1, <1>7 DEF Finish, Export, Mark, Prune, tables
<1>8. QED
  BY <1>2, <1>3, <1>4, <1>5, <1>6, <1>7 DEF Next, Sync

Opened(d) ==
    /\ cycle'[d].work = db[d] /\ cycle'[d].package \in Snapshots
    /\ cycle'[d].left = {s \in SyncIds : Exists(cycle'[d].package.items[s])}
MergedOne(d) ==
    /\ cycle[d].pc = "merge" /\ cycle'[d].package = cycle[d].package
    /\ \E t \in cycle[d].left :
          /\ cycle'[d].left = cycle[d].left \ {t}
          /\ cycle'[d].work \in Merged(cycle[d].work, t, cycle[d].package.items[t])
          /\ cycle'[d].taken = cycle[d].taken \cup Gone(cycle[d].work, cycle'[d].work)

LEMMA UnderLock ==
    ASSUME TypeOK, [Next]_vars, NEW d \in Devices, cycle'[d].pc = "merge"
    PROVE  /\ db'[d] = db[d]
           /\ Opened(d) \/ MergedOne(d) \/ cycle'[d] = cycle[d]
<1>1. db \in [Devices -> Table] /\ cycle \in [Devices -> CycleState]
  BY DEF TypeOK
<1>2. CASE db'[d] = db[d] /\ cycle'[d] = cycle[d]
  BY <1>2
<1>3. ASSUME Edit(d) \/ Cleanup(d) PROVE FALSE
  BY <1>3 DEF Edit, Capture, Recapture, Paste, TogglePin, Delete, LocalStep, Cleanup, Unlocked
<1>4. ASSUME Fail(d) PROVE FALSE
  BY <1>1, <1>4 DEF Fail, Idle
<1>5. ~(Finish(d) \/ Export(d) \/ Mark(d) \/ Prune(d))
  <2>1. ~Finish(d) /\ ~Prune(d)
    BY <1>1 DEF Finish, Prune, Idle
  <2>2. ~Export(d)
    BY <1>1 DEF Export, Idle
  <2>3. ~Mark(d)
    BY <1>1 DEF Mark, CycleState
  <2>4. QED
    BY <2>1, <2>2, <2>3
<1>6. ~(Begin(d) \/ Missing(d) \/ Commit(d) \/ Record(d))
  <2>1. ~Missing(d)
    BY <1>1 DEF Missing, Idle
  <2>2. ~Commit(d)
    <3>1. SUFFICES ASSUME Commit(d) PROVE FALSE
      OBVIOUS
    <3>2. cycle'[d] = [cycle[d] EXCEPT !.pc = "merged", !.work = NoRows, !.taken = {},
                                       !.conflicts = {}]
      BY <1>1, <3>1 DEF Commit
    <3>3. cycle'[d].pc = "merged"
      BY <3>2 DEF CycleState
    <3>4. QED
      BY <3>3
  <2>3. ~Record(d)
    BY <1>1 DEF Record, CycleState
  <2>4. ~Begin(d)
    <3>1. SUFFICES ASSUME Begin(d) PROVE FALSE
      OBVIOUS
    <3>2. PICK mode \in Modes :
              cycle' = [cycle EXCEPT ![d] =
                [Idle EXCEPT !.pc = "import", !.empty = (Names = {}),
                             !.todo = IF mode = "auto" THEN Names \ imported[d] ELSE Names]]
      BY <3>1 DEF Begin
    <3>3. cycle'[d].pc = "import"
      BY <1>1, <3>2 DEF Idle
    <3>4. QED
      BY <3>3
  <2>5. QED
    BY <2>1, <2>2, <2>3, <2>4
<1>7. CASE Read(d)
  BY <1>1, <1>7 DEF Read, Opened, CycleState, tables
<1>8. CASE Merge(d)
  <2>1. PICK t \in cycle[d].left :
          \E table \in Merged(cycle[d].work, t, cycle[d].package.items[t]) :
            cycle' = [cycle EXCEPT ![d] =
              [cycle[d] EXCEPT !.left = cycle[d].left \ {t}, !.work = table,
                               !.taken = cycle[d].taken \cup Gone(cycle[d].work, table),
                               !.conflicts = cycle[d].conflicts \cup
                                 ConflictEvents(cycle[d].work, t, cycle[d].package.items[t])]]
    BY <1>8 DEF Merge
  <2>2. /\ cycle'[d].left = cycle[d].left \ {t}
        /\ cycle'[d].work \in Merged(cycle[d].work, t, cycle[d].package.items[t])
        /\ cycle'[d].package = cycle[d].package
        /\ cycle'[d].taken = cycle[d].taken \cup Gone(cycle[d].work, cycle'[d].work)
    BY <1>1, <2>1 DEF CycleState
  <2>3. QED
    BY <1>8, <2>2 DEF Merge, MergedOne, tables
<1>9. QED
  BY <1>2, <1>3, <1>4, <1>5, <1>6, <1>7, <1>8, OtherDevice DEF Sync, Import

\* Conversely, what a step makes of those rows is what the transaction holds.
LEMMA CommitsWork ==
    ASSUME TypeOK, [Next]_vars, NEW d \in Devices, cycle[d].pc = "merge"
    PROVE  db'[d] = db[d] \/ db'[d] = cycle[d].work
<1>1. db \in [Devices -> Table] /\ cycle \in [Devices -> CycleState]
  BY DEF TypeOK
<1>2. CASE db'[d] = db[d]
  BY <1>2
<1>3. ASSUME Edit(d) \/ Cleanup(d) PROVE FALSE
  BY <1>3 DEF Edit, Capture, Recapture, Paste, TogglePin, Delete, LocalStep, Cleanup, Unlocked
<1>4. CASE Fail(d)
  BY <1>4 DEF Fail, tables
<1>5. CASE Finish(d) \/ Export(d) \/ Mark(d) \/ Prune(d)
  BY <1>5 DEF Finish, Export, Mark, Prune, Imported, tables
<1>6. CASE Import(d)
  BY <1>1, <1>6 DEF Import, Begin, Read, Missing, Merge, Commit, Record, tables
<1>7. QED
  BY <1>2, <1>3, <1>4, <1>5, <1>6, OtherDevice DEF Sync

-----------------------------------------------------------------------------
(* Pins *)

WorkKeepsPins ==
    \A d \in Devices, s \in SyncIds :
        cycle[d].pc = "merge" /\ Live(db[d][s]) /\ db[d][s].pin =>
            Live(cycle[d].work[s]) /\ cycle[d].work[s].pin

\* An import never deletes or unpins an item that is pinned on the device, for
\* any number of devices, items and copies of the same content.
THEOREM PinsKept == Spec => ImportKeepsPins
<1>1. Init => TypeOK /\ WorkKeepsPins
  BY InitType DEF Init, WorkKeepsPins, Idle
<1>2. ASSUME TypeOK, WorkKeepsPins, [Next]_vars PROVE TypeOK' /\ WorkKeepsPins'
  <2>1. SUFFICES ASSUME NEW d \in Devices, NEW s \in SyncIds, cycle'[d].pc = "merge",
                        Live(db'[d][s]), db'[d][s].pin
                 PROVE  Live(cycle'[d].work[s]) /\ cycle'[d].work[s].pin
    BY <1>2, NextType DEF WorkKeepsPins
  <2>2. db'[d] = db[d]
    BY <1>2, <2>1, UnderLock
  <2>3. CASE Opened(d)
    BY <2>1, <2>2, <2>3 DEF Opened
  <2>4. CASE MergedOne(d)
    <3>1. PICK t \in cycle[d].left :
              cycle'[d].work \in Merged(cycle[d].work, t, cycle[d].package.items[t])
      BY <2>4 DEF MergedOne
    <3>2. t \in SyncIds /\ cycle[d].work \in Table /\ cycle[d].package.items[t] \in Item
      BY <1>2, CycleFacts DEF CycleState
    <3>3. Live(cycle[d].work[s]) /\ cycle[d].work[s].pin
      BY <1>2, <2>1, <2>2, <2>4 DEF WorkKeepsPins, MergedOne
    <3>4. QED
      BY <3>1, <3>2, <3>3, MergedKeepsPins
  <2>5. CASE cycle'[d] = cycle[d]
    BY <1>2, <2>1, <2>2, <2>5 DEF WorkKeepsPins
  <2>6. QED
    BY <1>2, <2>1, <2>3, <2>4, <2>5, UnderLock
<1>3. ASSUME TypeOK, WorkKeepsPins, [Next]_vars
      PROVE  [\A d \in Devices, s \in SyncIds : KeepsPins(d, s)]_vars
  BY <1>3, CommitsWork DEF KeepsPins, WorkKeepsPins
<1>4. QED
  BY <1>1, <1>2, <1>3, PTL DEF Spec, ImportKeepsPins

-----------------------------------------------------------------------------
(* Versions *)

WorkNotBefore ==
    \A d \in Devices : cycle[d].pc = "merge" =>
        /\ \A s \in SyncIds : NotBefore(db[d][s], cycle[d].work[s])
        /\ \A s \in cycle[d].left : Exists(cycle[d].package.items[s])

LEMMA NotBeforeReflexive ==
    ASSUME NEW a \in Row
    PROVE  NotBefore(a, a)
  BY DEF NotBefore, Row

LEMMA NotBeforeTransitive ==
    ASSUME NEW a \in Row, NEW b \in Row, NEW c \in Row, NotBefore(a, b), NotBefore(b, c)
    PROVE  NotBefore(a, c)
  BY DEF NotBefore, Row

\* Read as times, stamps are in the order of the strings, except that the stamp of a
\* paste is before those of its whole day.
LEMMA NotBeforeInTime ==
    ASSUME NEW a \in Row, NEW b \in Row, NotBefore(a, b)
    PROVE  KeptUnlessPasted(a, b)
<1>1. a.upd \in Nat /\ b.upd \in Nat
  BY DEF Row
<1>2. CASE IsPaste(a.upd)
  BY <1>2 DEF NotBefore, KeptUnlessPasted, NotOlder
<1>3. CASE ~IsPaste(a.upd)
  <2>1. Time(a.upd) = a.upd /\ Time(b.upd) >= b.upd /\ Time(b.upd) \in Nat
    BY <1>1, <1>3, TimeFacts DEF Time
  <2>2. QED
    BY <1>1, <2>1 DEF NotBefore, KeptUnlessPasted, NotOlder
<1>4. QED
  BY <1>2, <1>3

LEMMA WorkInvariant ==
    ASSUME DistinctContent, TypeOK, WorkNotBefore, [Next]_vars
    PROVE  WorkNotBefore'
<1>1. SUFFICES ASSUME NEW d \in Devices, cycle'[d].pc = "merge"
               PROVE  /\ \A s \in SyncIds : NotBefore(db'[d][s], cycle'[d].work[s])
                      /\ \A s \in cycle'[d].left : Exists(cycle'[d].package.items[s])
  BY DEF WorkNotBefore
<1>2. db'[d] = db[d] /\ db[d] \in Table /\ \A s \in SyncIds : db[d][s] \in Row
  BY <1>1, UnderLock DEF TypeOK, Table
<1>3. CASE Opened(d)
  BY <1>2, <1>3, NotBeforeReflexive DEF Opened
<1>4. CASE MergedOne(d)
  <2>1. PICK t \in cycle[d].left :
            cycle'[d].work \in Merged(cycle[d].work, t, cycle[d].package.items[t])
    BY <1>4 DEF MergedOne
  <2>2. t \in SyncIds /\ cycle[d].work \in Table /\ cycle[d].package.items[t] \in Item
    BY CycleFacts DEF CycleState
  <2>3. /\ \A s \in SyncIds : NotBefore(db[d][s], cycle[d].work[s])
        /\ \A s \in cycle[d].left : Exists(cycle[d].package.items[s])
    BY <1>4 DEF WorkNotBefore, MergedOne
  <2>4. \A s \in SyncIds : NotBefore(cycle[d].work[s], cycle'[d].work[s])
    BY <2>1, <2>2, <2>3, MergedNotBefore
  <2>5. cycle'[d].work \in Table
    BY <2>1, <2>2, MergedType
  <2>6. \A s \in SyncIds : cycle[d].work[s] \in Row /\ cycle'[d].work[s] \in Row
    BY <2>2, <2>5 DEF Table
  <2>7. QED
    BY <1>2, <1>4, <2>3, <2>4, <2>6, NotBeforeTransitive DEF MergedOne
<1>5. CASE cycle'[d] = cycle[d]
  BY <1>1, <1>2, <1>5 DEF WorkNotBefore
<1>6. QED
  BY <1>1, <1>3, <1>4, <1>5, UnderLock

LEMMA WorkInit == Init => TypeOK /\ WorkNotBefore
  BY InitType DEF Init, WorkNotBefore, Idle

\* When no two sync ids have the same content, an import never takes a row back to
\* an older revision, nor to an earlier time of the same revision unless the row has
\* the stamp of a paste, however snapshots, local edits, purges and failures interleave.
THEOREM NoRollback ==
    ASSUME DistinctContent
    PROVE  Spec => ImportNeverRollsBack
<1>1. ASSUME TypeOK, WorkNotBefore, [Next]_vars PROVE TypeOK' /\ WorkNotBefore'
  BY <1>1, NextType, WorkInvariant
<1>2. ASSUME TypeOK, WorkNotBefore, [Next]_vars
      PROVE  [\A d \in Devices, s \in SyncIds : NeverRollsBack(d, s)]_vars
  <2>1. SUFFICES ASSUME NEW d \in Devices, NEW s \in SyncIds, cycle[d].pc = "merge"
                 PROVE  KeptUnlessPasted(db[d][s], db'[d][s])
    BY DEF NeverRollsBack
  <2>2. db[d][s] \in Row /\ db'[d][s] \in Row
    BY <1>2, NextType DEF TypeOK, Table
  <2>3. NotBefore(db[d][s], db'[d][s])
    BY <1>2, <2>1, <2>2, CommitsWork, NotBeforeReflexive DEF WorkNotBefore
  <2>4. QED
    BY <2>2, <2>3, NotBeforeInTime
<1>3. QED
  BY WorkInit, <1>1, <1>2, PTL DEF Spec, ImportNeverRollsBack

-----------------------------------------------------------------------------
(* Deletions *)

\* merge_item takes no row back in revision, or gives it to another sync id.
LEMMA MergedForward ==
    ASSUME NEW table \in Table, NEW t \in SyncIds, NEW v \in Item,
           NEW T \in Merged(table, t, v), NEW r \in SyncIds \ Gone(table, T)
    PROVE  table[r].rev <= T[r].rev
<1> USE DEF Table, Row, Item
<1>1. CASE T = table
  BY <1>1
<1>2. CASE T = Conflicted(table, t, v)
  BY <1>2, LargerNat DEF Conflicted
<1>3. CASE RemoteWins(table[t], v) /\ T = Updated(table, t, t, v)
  BY <1>3 DEF Updated, RemoteWins
<1>4. CASE ~Exists(table[t]) /\ T = Inserted(table, t, v)
  BY <1>4 DEF Inserted, Exists
<1>5. ASSUME NEW s \in SyncIds, ~Exists(table[t]), Exists(table[s]), T = Updated(table, s, t, v)
      PROVE  table[r].rev <= T[r].rev
  BY <1>5 DEF Updated, Exists, Gone, NoRow
<1>6. ASSUME NEW s \in SyncIds, T = Deduplicated(table, s, v)
      PROVE  table[r].rev <= T[r].rev
  BY <1>6, LargerNat DEF Deduplicated
<1>7. QED
  BY <1>1, <1>2, <1>3, <1>4, <1>5, <1>6, MergedCases

LEMMA EditForward ==
    ASSUME TypeOK, NEW d \in Devices, Edit(d), NEW s \in SyncIds
    PROVE  db[d][s].rev <= db'[d][s].rev
<1>1. /\ db \in [Devices -> [SyncIds -> Row]] /\ db[d] \in [SyncIds -> Row]
      /\ db[d][s] \in Row /\ db[d][s].rev \in Nat
  BY DEF TypeOK, Table, Row
<1>2. PICK r \in SyncIds :
        Capture(d, r) \/ Recapture(d, r) \/ Paste(d, r) \/ TogglePin(d, r) \/ Delete(d, r)
  BY DEF Edit
<1>3. CASE Capture(d, r)
  BY <1>1, <1>3 DEF Capture, Exists, Row
<1>4. CASE Recapture(d, r) \/ Paste(d, r)
  <2>1. \E u \in {Stamp, Stamp - Instants} : db' = [db EXCEPT ![d][r].upd = u]
    BY <1>4 DEF Recapture, Paste
  <2>2. PICK u \in {Stamp, Stamp - Instants} : db' = [db EXCEPT ![d][r].upd = u]
    BY <2>1
  <2>3. db'[d][s].rev = db[d][s].rev
    BY <1>1, <2>2 DEF Row
  <2>4. QED
    BY <1>1, <2>3
<1>5. CASE TogglePin(d, r)
  BY <1>1, <1>5 DEF TogglePin
<1>6. CASE Delete(d, r)
  BY <1>1, <1>6 DEF Delete
<1>7. QED
  BY <1>2, <1>3, <1>4, <1>5, <1>6

WorkForward ==
    \A d \in Devices : cycle[d].pc = "merge" =>
        \A s \in SyncIds \ cycle[d].taken : db[d][s].rev <= cycle[d].work[s].rev

LEMMA WorkForwardStep ==
    ASSUME TypeOK, WorkForward, [Next]_vars
    PROVE  WorkForward'
<1>1. SUFFICES ASSUME NEW d \in Devices, cycle'[d].pc = "merge",
                      NEW s \in SyncIds \ cycle'[d].taken
               PROVE  db'[d][s].rev <= cycle'[d].work[s].rev
  BY DEF WorkForward
<1>2. db'[d] = db[d] /\ db[d][s] \in Row /\ db[d][s].rev \in Nat
  BY <1>1, UnderLock DEF TypeOK, Table, Row
<1>3. CASE Opened(d)
  BY <1>2, <1>3 DEF Opened
<1>4. CASE MergedOne(d)
  <2>1. PICK t \in cycle[d].left :
            cycle'[d].work \in Merged(cycle[d].work, t, cycle[d].package.items[t])
    BY <1>4 DEF MergedOne
  <2>2. /\ t \in SyncIds /\ cycle[d].work \in Table /\ cycle[d].package.items[t] \in Item
        /\ s \notin cycle[d].taken /\ s \notin Gone(cycle[d].work, cycle'[d].work)
    BY <1>1, <1>4, CycleFacts DEF CycleState, MergedOne
  <2>3. cycle[d].work[s].rev <= cycle'[d].work[s].rev
    BY <2>1, <2>2, MergedForward
  <2>4. db[d][s].rev <= cycle[d].work[s].rev
    BY <1>4, <2>2 DEF WorkForward, MergedOne
  <2>5. cycle'[d].work \in Table
    BY <2>1, <2>2, MergedType
  <2>6. cycle[d].work[s].rev \in Nat /\ cycle'[d].work[s].rev \in Nat
    BY <2>2, <2>5 DEF Table, Row
  <2>7. QED
    BY <1>2, <2>3, <2>4, <2>6
<1>5. CASE cycle'[d] = cycle[d]
  BY <1>1, <1>2, <1>5 DEF WorkForward
<1>6. QED
  BY <1>1, <1>3, <1>4, <1>5, UnderLock

LEMMA ForgottenGrows ==
    ASSUME TypeOK, [Next]_vars, NEW d \in Devices
    PROVE  forgotten[d] \subseteq forgotten'[d]
<1>1. forgotten \in [Devices -> SUBSET SyncIds]
  BY DEF TypeOK
<1>2. ASSUME NEW e \in Devices, Cleanup(e) \/ Commit(e)
      PROVE  forgotten[d] \subseteq forgotten'[d]
  BY <1>1, <1>2 DEF Cleanup, Commit
<1>3. ASSUME NEW e \in Devices, Edit(e) PROVE UNCHANGED forgotten
  BY <1>3 DEF Edit, Capture, Recapture, Paste, TogglePin, Delete, LocalStep
<1>4. ASSUME NEW e \in Devices,
             \/ Begin(e) \/ Read(e) \/ Missing(e) \/ Merge(e) \/ Record(e) \/ Fail(e)
             \/ Finish(e) \/ Export(e) \/ Mark(e) \/ Prune(e)
      PROVE  UNCHANGED forgotten
  BY <1>4 DEF Begin, Read, Missing, Merge, Record, Fail, Finish, Export, Mark, Prune, history
<1>5. Pass \/ UNCHANGED vars => UNCHANGED forgotten
  BY DEF Pass, vars, history
<1>6. QED
  BY <1>2, <1>3, <1>4, <1>5 DEF Next, Sync, Import

\* A step takes a row back in revision only where its tombstone is forgotten.
LEMMA RowsForwardOrForgotten ==
    ASSUME TypeOK, WorkForward, [Next]_vars, NEW d \in Devices,
           NEW s \in SyncIds \ forgotten'[d]
    PROVE  db[d][s].rev <= db'[d][s].rev
<1>1. /\ db \in [Devices -> [SyncIds -> Row]] /\ db[d] \in [SyncIds -> Row]
      /\ db[d][s] \in Row /\ db[d][s].rev \in Nat
      /\ forgotten \in [Devices -> SUBSET SyncIds]
  BY DEF TypeOK, Table, Row
<1>2. CASE db'[d] = db[d]
  BY <1>1, <1>2
<1>3. CASE Edit(d)
  BY <1>3, EditForward
<1>4. CASE Cleanup(d)
  <2>1. ~Purgeable(d, s)
    BY <1>1, <1>4 DEF Cleanup
  <2>2. db'[d][s] = db[d][s]
    BY <1>1, <1>4, <2>1 DEF Cleanup
  <2>3. QED
    BY <1>1, <2>2
<1>5. CASE Mark(d)
  BY <1>1, <1>5 DEF Mark, Row
<1>6. CASE Commit(d)
  <2>1. db'[d] = cycle[d].work /\ s \notin cycle[d].taken
    BY <1>1, <1>6 DEF Commit
  <2>2. QED
    BY <1>6, <2>1 DEF Commit, WorkForward
<1>7. CASE \/ Fail(d) \/ Begin(d) \/ Read(d) \/ Missing(d) \/ Merge(d) \/ Record(d)
           \/ Finish(d) \/ Export(d) \/ Prune(d)
  <2>1. db' = db
    BY <1>7 DEF Fail, Begin, Read, Missing, Merge, Record, Finish, Export, Prune, tables
  <2>2. QED
    BY <1>1, <2>1
<1>8. QED
  BY <1>2, <1>3, <1>4, <1>5, <1>6, <1>7, OtherDevice DEF Sync, Import

LEMMA BuriedStep ==
    ASSUME TypeOK, [Next]_vars, NEW d \in Devices, NEW s \in SyncIds,
           buried[d][s] <= db[d][s].rev, db[d][s].rev <= db'[d][s].rev
    PROVE  buried'[d][s] <= db'[d][s].rev
<1>1. /\ buried \in [Devices -> [SyncIds -> Nat]] /\ buried[d][s] \in Nat
      /\ db \in [Devices -> [SyncIds -> Row]] /\ db[d][s].rev \in Nat
  BY DEF TypeOK, Table, Row
<1>2. db'[d][s].rev \in Nat
  BY NextType DEF TypeOK, Table, Row
<1>3. CASE buried'[d][s] = buried[d][s]
  BY <1>1, <1>2, <1>3
<1>4. ASSUME NEW e \in Devices, NEW r \in SyncIds, Delete(e, r)
      PROVE  buried'[d][s] <= db'[d][s].rev
  <2>1. CASE e = d /\ r = s
    <3>1. buried'[d][s] = db[d][s].rev + 1
      BY <1>1, <1>4, <2>1 DEF Delete
    <3>2. db'[d][s].rev = db[d][s].rev + 1
      BY <1>1, <1>4, <2>1 DEF Delete
    <3>3. QED
      BY <1>1, <3>1, <3>2
  <2>2. CASE e # d \/ r # s
    BY <1>1, <1>3, <1>4, <2>2 DEF Delete
  <2>3. QED
    BY <2>1, <2>2
<1>5. ASSUME NEW e \in Devices, Commit(e)
      PROVE  buried'[d][s] <= db'[d][s].rev
  <2>1. CASE e = d
    <3>1. db'[d][s] = cycle[d].work[s]
      BY <1>1, <1>5, <2>1 DEF Commit
    <3>2. buried'[d][s] = IF Tombstone(cycle[d].work[s])
                          THEN Larger(buried[d][s], cycle[d].work[s].rev) ELSE buried[d][s]
      BY <1>1, <1>5, <2>1 DEF Commit
    <3>3. buried[d][s] <= db'[d][s].rev
      BY <1>1, <1>2
    <3>4. QED
      BY <1>1, <1>2, <3>1, <3>2, <3>3 DEF Larger
  <2>2. CASE e # d
    BY <1>1, <1>3, <1>5, <2>2 DEF Commit
  <2>3. QED
    BY <2>1, <2>2
<1>6. ASSUME NEW e \in Devices, Cleanup(e) \/ Fail(e) \/ Finish(e) \/ Export(e) \/ Mark(e) \/ Prune(e)
      PROVE  UNCHANGED buried
  BY <1>6 DEF Cleanup, Fail, Finish, Export, Mark, Prune, history
<1>7. ASSUME NEW e \in Devices, NEW r \in SyncIds, Capture(e, r) \/ Recapture(e, r) \/ Paste(e, r)
             \/ TogglePin(e, r)
      PROVE  UNCHANGED buried
  BY <1>7 DEF Capture, Recapture, Paste, TogglePin
<1>8. ASSUME NEW e \in Devices, Begin(e) \/ Read(e) \/ Missing(e) \/ Merge(e) \/ Record(e)
      PROVE  UNCHANGED buried
  BY <1>8 DEF Begin, Read, Missing, Merge, Record, history
<1>9. Pass \/ UNCHANGED vars => UNCHANGED buried
  BY DEF Pass, vars, history
<1>10. QED
  BY <1>3, <1>4, <1>5, <1>6, <1>7, <1>8, <1>9 DEF Next, Edit, Sync, Import

\* A device that has seen a deletion shows the item again only in a revision that is
\* not older, unless it has purged the tombstone (cleanup_sync_data_at) or given its row
\* to another item of the same content (merge_item), for any contents and expiry.
THEOREM DeletionsStand == Spec => []NoReappearance
<1> DEFINE Bound == \A d \in Devices : \A s \in SyncIds \ forgotten[d] :
                        buried[d][s] <= db[d][s].rev
<1>1. Init => TypeOK /\ WorkForward /\ Bound
  <2>1. ASSUME Init PROVE WorkForward
    BY <2>1 DEF Init, WorkForward, Idle
  <2>2. ASSUME Init PROVE Bound
    <3>1. /\ buried = [d \in Devices |-> [s \in SyncIds |-> 0]]
          /\ db = [d \in Devices |-> NoRows]
      BY <2>2 DEF Init
    <3>2. \A d \in Devices, s \in SyncIds : buried[d][s] = 0 /\ db[d][s].rev = 0
      BY <3>1 DEF NoRows, NoRow
    <3>3. QED
      BY <3>2
  <2>3. QED
    BY <2>1, <2>2, InitType
<1>2. ASSUME TypeOK, WorkForward, Bound, [Next]_vars PROVE (TypeOK /\ WorkForward /\ Bound)'
  <2>1. TypeOK' /\ WorkForward'
    BY <1>2, NextType, WorkForwardStep
  <2>2. ASSUME NEW d \in Devices, NEW s \in SyncIds \ forgotten'[d]
        PROVE  buried'[d][s] <= db'[d][s].rev
    <3>1. s \in SyncIds /\ s \notin forgotten[d]
      BY <1>2, <2>2, ForgottenGrows
    <3>2. buried[d][s] <= db[d][s].rev
      BY <1>2, <3>1
    <3>3. db[d][s].rev <= db'[d][s].rev
      BY <1>2, <2>2, RowsForwardOrForgotten
    <3>4. QED
      BY <1>2, <3>1, <3>2, <3>3, BuriedStep
  <2>3. QED
    BY <2>1, <2>2
<1>3. Bound => NoReappearance
  BY DEF NoReappearance
<1>4. QED
  BY <1>1, <1>2, <1>3, PTL DEF Spec

-----------------------------------------------------------------------------
(* Snapshots, as long as nothing expires *)

\* The rows bound what was written of an item.
RowsBound ==
    /\ horizon = 0
    /\ \A d \in Devices : \A m \in remote[d] :
          m.no <= written /\ \A s \in SyncIds : m.items[s].rev <= db[d][s].rev

IInv == TypeOK /\ WorkNotBefore /\ RowsBound /\ NewestCovers

LEMMA RowsForward ==
    ASSUME IInv, [Next]_vars, NEW d \in Devices, NEW s \in SyncIds
    PROVE  db[d][s].rev <= db'[d][s].rev
<1>1. /\ db \in [Devices -> [SyncIds -> Row]] /\ db[d] \in [SyncIds -> Row]
      /\ db[d][s] \in Row /\ db[d][s].rev \in Nat
  BY DEF IInv, TypeOK, Table, Row
<1>2. CASE db'[d] = db[d]
  BY <1>1, <1>2
<1>3. CASE Edit(d)
  BY <1>3, EditForward DEF IInv
<1>4. CASE Cleanup(d)
  <2>1. \A r \in SyncIds : ~Purgeable(d, r)
    BY <1>1 DEF Purgeable, Tombstone, IInv, RowsBound, Row
  <2>2. db'[d][s] = db[d][s]
    BY <1>1, <1>4, <2>1 DEF Cleanup
  <2>3. QED
    BY <1>1, <2>2
<1>5. CASE Mark(d)
  BY <1>1, <1>5 DEF Mark, Row
<1>6. CASE Commit(d)
  <2>1. db'[d] = cycle[d].work
    BY <1>1, <1>6 DEF Commit
  <2>2. NotBefore(db[d][s], cycle[d].work[s])
    BY <1>6 DEF Commit, IInv, WorkNotBefore
  <2>3. cycle[d].work[s].rev \in Nat
    BY CycleFacts DEF IInv, Table, Row
  <2>4. QED
    BY <1>1, <2>1, <2>2, <2>3 DEF NotBefore
<1>7. CASE \/ Fail(d) \/ Begin(d) \/ Read(d) \/ Missing(d) \/ Merge(d) \/ Record(d)
           \/ Finish(d) \/ Export(d) \/ Prune(d)
  <2>1. db' = db
    BY <1>7 DEF Fail, Begin, Read, Missing, Merge, Record, Finish, Export, Prune, tables
  <2>2. QED
    BY <1>1, <2>1
<1>8. QED
  BY <1>2, <1>3, <1>4, <1>5, <1>6, <1>7, OtherDevice DEF IInv, Sync, Import

\* A snapshot covers every row while nothing expires.
LEMMA SnapshotCovers ==
    ASSUME IInv, NEW d \in Devices
    PROVE  /\ SnapshotOf(d).no = written + 1
           /\ \A s \in SyncIds : SnapshotOf(d).items[s].rev = db[d][s].rev
<1>1. ASSUME NEW s \in SyncIds PROVE SnapshotOf(d).items[s].rev = db[d][s].rev
  <2>1. db[d][s] \in Row /\ horizon = 0
    BY DEF IInv, TypeOK, RowsBound, Table
  <2>2. Exported(d, s) \/ db[d][s].rev = 0
    BY <2>1 DEF Exported, Live, Tombstone, Row
  <2>3. QED
    BY <2>2 DEF SnapshotOf, NoItem
<1>2. QED
  BY <1>1 DEF SnapshotOf

LEMMA RemoteStep ==
    ASSUME TypeOK, [Next]_vars, NEW d \in Devices
    PROVE  \/ remote'[d] \subseteq remote[d] /\ written' >= written
           \/ /\ Export(d) /\ written' = written + 1
              /\ remote'[d] = remote[d] \cup {SnapshotOf(d)}
<1>1. remote \in [Devices -> SUBSET Snapshot] /\ written \in Nat
  BY DEF TypeOK
<1>2. CASE UNCHANGED <<remote, written>>
  BY <1>1, <1>2
<1>3. ASSUME NEW e \in Devices, Export(e)
      PROVE  \/ remote'[d] \subseteq remote[d] /\ written' >= written
             \/ /\ Export(d) /\ written' = written + 1
                /\ remote'[d] = remote[d] \cup {SnapshotOf(d)}
  <2>1. remote' = [remote EXCEPT ![e] = @ \cup {SnapshotOf(e)}] /\ written' = written + 1
    BY <1>3 DEF Export
  <2>2. QED
    BY <1>1, <1>3, <2>1
<1>4. ASSUME NEW e \in Devices, Prune(e)
      PROVE  remote'[d] \subseteq remote[d] /\ written' >= written
  <2>1. PICK removed \in SUBSET Excess(e) : remote' = [remote EXCEPT ![e] = @ \ removed]
    BY <1>4 DEF Prune
  <2>2. written' = written
    BY <1>4 DEF Prune
  <2>3. QED
    BY <1>1, <2>1, <2>2
<1>5. ASSUME NEW e \in Devices, Edit(e) \/ Cleanup(e) \/ Fail(e)
      PROVE  UNCHANGED <<remote, written>>
  BY <1>5 DEF Edit, Capture, Recapture, Paste, TogglePin, Delete, LocalStep, Cleanup, Fail
<1>6. ASSUME NEW e \in Devices, Import(e) \/ Finish(e) \/ Mark(e)
      PROVE  UNCHANGED <<remote, written>>
  BY <1>6 DEF Import, Begin, Read, Missing, Merge, Commit, Record, Finish, Mark
<1>7. Pass \/ UNCHANGED vars => UNCHANGED <<remote, written>>
  BY DEF Pass, vars
<1>8. QED
  BY <1>2, <1>3, <1>4, <1>5, <1>6, <1>7 DEF Next, Sync

LEMMA RemoteInvariant ==
    ASSUME IInv, [Next]_vars, NEW d \in Devices
    PROVE  /\ \A m \in remote'[d] :
                m.no <= written' /\ \A s \in SyncIds : m.items[s].rev <= db'[d][s].rev
           /\ \A m, n \in remote'[d] : \A s \in SyncIds :
                m.no < n.no => m.items[s].rev <= n.items[s].rev
<1>1. \A m \in remote[d] :
        /\ m \in Snapshot /\ m.no \in Nat /\ m.no <= written
        /\ \A s \in SyncIds : m.items[s].rev \in Nat /\ m.items[s].rev <= db[d][s].rev
  BY DEF IInv, TypeOK, RowsBound, Snapshot, Item
<1>2. \A m, n \in remote[d] : \A s \in SyncIds :
        m.no < n.no => m.items[s].rev <= n.items[s].rev
  BY DEF IInv, NewestCovers
<1>3. TypeOK' /\ \A s \in SyncIds : db[d][s].rev <= db'[d][s].rev
  BY NextType, RowsForward DEF IInv
<1>4. \A s \in SyncIds : db[d][s].rev \in Nat /\ db'[d][s].rev \in Nat
  BY <1>3 DEF IInv, TypeOK, Table, Row
<1>5. written \in Nat /\ written' \in Nat
  BY <1>3 DEF IInv, TypeOK
<1>6. CASE remote'[d] \subseteq remote[d] /\ written' >= written
  BY <1>1, <1>2, <1>3, <1>4, <1>5, <1>6
<1>7. CASE written' = written + 1 /\ remote'[d] = remote[d] \cup {SnapshotOf(d)}
  <2>1. SnapshotOf(d).no = written + 1
    BY SnapshotCovers
  <2>2. \A s \in SyncIds : SnapshotOf(d).items[s].rev = db[d][s].rev
    BY SnapshotCovers
  <2> DEFINE new == SnapshotOf(d)
  <2>3. new.no = written + 1 /\ \A s \in SyncIds : new.items[s].rev = db[d][s].rev
    BY <2>1, <2>2
  <2>4. remote'[d] = remote[d] \cup {new}
    BY <1>7
  <2> HIDE DEF new
  <2>5. QED
    BY <1>1, <1>2, <1>3, <1>4, <1>5, <1>7, <2>3, <2>4
<1>8. QED
  BY <1>6, <1>7, RemoteStep DEF IInv

LEMMA HorizonInvariant ==
    ASSUME Expires = FALSE, IInv, [Next]_vars
    PROVE  horizon' = 0
<1>1. ASSUME NEW e \in Devices, Edit(e) \/ Cleanup(e) \/ Fail(e) PROVE horizon' = horizon
  BY <1>1 DEF Edit, Capture, Recapture, Paste, TogglePin, Delete, LocalStep, Cleanup, Fail
<1>2. ASSUME NEW e \in Devices, Import(e) PROVE horizon' = horizon
  BY <1>2 DEF Import, Begin, Read, Missing, Merge, Commit, Record
<1>3. ASSUME NEW e \in Devices, Finish(e) \/ Export(e) \/ Mark(e) \/ Prune(e)
      PROVE  horizon' = horizon
  BY <1>3 DEF Finish, Export, Mark, Prune
<1>4. ~Pass /\ (UNCHANGED vars => horizon' = horizon)
  BY DEF Pass, vars
<1>5. QED
  BY <1>1, <1>2, <1>3, <1>4 DEF IInv, RowsBound, Next, Sync

LEMMA InductiveInvariant ==
    ASSUME DistinctContent, Expires = FALSE
    PROVE  Spec => []IInv
<1>1. Init => IInv
  <2>1. SUFFICES ASSUME Init PROVE RowsBound /\ NewestCovers
    BY WorkInit DEF IInv
  <2>2. QED
    BY <2>1 DEF Init, RowsBound, NewestCovers, NoRows, NoRow
<1>2. ASSUME IInv, [Next]_vars PROVE IInv'
  <2>1. TypeOK' /\ WorkNotBefore'
    BY <1>2, NextType, WorkInvariant DEF IInv
  <2>2. RowsBound'
    BY <1>2, HorizonInvariant, RemoteInvariant DEF RowsBound
  <2>3. NewestCovers'
    BY <1>2, RemoteInvariant DEF NewestCovers
  <2>4. QED
    BY <2>1, <2>2, <2>3 DEF IInv
<1>3. QED
  BY <1>1, <1>2, PTL DEF Spec

\* As long as nothing expires, prune_device_snapshots removes nothing that the
\* newer snapshots of the device do not hold.
THEOREM NewestSuffices ==
    ASSUME DistinctContent, Expires = FALSE
    PROVE  Spec => []NewestCovers
<1>1. IInv => NewestCovers
  BY DEF IInv
<1>2. QED
  BY <1>1, InductiveInvariant, PTL

-----------------------------------------------------------------------------
(* Convergence: what a device has imported, its rows have absorbed *)

\* A row that has absorbed a version goes on having it.  p: the newest revision at which
\* the item was pasted; up to it stamps say nothing.
Keeps(old, new, p) ==
    \/ new.rev > old.rev
    \/ /\ new.rev = old.rev
       /\ new.upd >= old.upd \/ old.rev <= p
       /\ old.pin => new.pin
Absorbed(row, v, p) ==
    \/ ~Exists(v)
    \/ row.rev > v.rev
    \/ row.rev = v.rev /\ (row.upd >= v.upd \/ row.pin \/ v.rev <= p)

LEMMA KeepsReflexive ==
    ASSUME NEW a \in Row, NEW p \in Nat
    PROVE  Keeps(a, a, p)
  BY DEF Keeps, Row

LEMMA KeepsTransitive ==
    ASSUME NEW a \in Row, NEW b \in Row, NEW c \in Row, NEW p \in Nat,
           Keeps(a, b, p), Keeps(b, c, p)
    PROVE  Keeps(a, c, p)
  BY DEF Keeps, Row

LEMMA KeepsLonger ==
    ASSUME NEW a \in Row, NEW b \in Row, NEW p \in Nat, NEW q \in Nat, p <= q, Keeps(a, b, p)
    PROVE  Keeps(a, b, q)
  BY DEF Keeps, Row

LEMMA AbsorbedKept ==
    ASSUME NEW a \in Row, NEW b \in Row, NEW v \in Item, NEW p \in Nat, NEW q \in Nat, p <= q,
           Keeps(a, b, q), Absorbed(a, v, p)
    PROVE  Absorbed(b, v, q)
  BY DEF Keeps, Absorbed, Row, Item

\* Without two sync ids of the same content, merge_item finds a row by its sync id.
LEMMA MergedOwn ==
    ASSUME DistinctContent, NEW table \in Table, NEW t \in SyncIds, NEW v \in Item,
           NEW T \in Merged(table, t, v)
    PROVE  \/ Exists(table[t]) /\ ~RemoteWins(table[t], v) /\ T = table
           \/ IsConflict(table, t, v) /\ T = Conflicted(table, t, v)
           \/ Exists(table[t]) /\ RemoteWins(table[t], v) /\ T = Updated(table, t, t, v)
           \/ ~Exists(table[t]) /\ T = Inserted(table, t, v)
  BY DEF Merged, FoundByHash, SameContent, DistinctContent

LEMMA MergedKeeps ==
    ASSUME DistinctContent, NEW table \in Table, NEW t \in SyncIds, NEW v \in Item,
           Exists(v), NEW T \in Merged(table, t, v), NEW r \in SyncIds, NEW p \in Nat
    PROVE  /\ Keeps(table[r], T[r], p)
           /\ r = t => Absorbed(T[r], v, p)
<1> table[r] \in Row /\ table \in [SyncIds -> Row] /\ v.rev \in Nat /\ v.upd \in Nat
  BY DEF Table, Item
<1> table[r].rev \in Nat /\ table[r].upd \in Nat
  BY DEF Row
<1>1. CASE r # t
  <2>1. T[r] = table[r]
    <3>1. CASE T = Conflicted(table, t, v)
      BY <1>1, <3>1 DEF Conflicted
    <3>2. CASE T = Updated(table, t, t, v)
      BY <1>1, <3>2 DEF Updated
    <3>3. CASE T = Inserted(table, t, v)
      BY <1>1, <3>3 DEF Inserted
    <3>4. QED
      BY <3>1, <3>2, <3>3, MergedOwn
  <2>2. QED
    BY <1>1, <2>1, KeepsReflexive
<1>2. CASE r = t
  <2>1. CASE Exists(table[t]) /\ ~RemoteWins(table[t], v) /\ T = table
    <3>1. Absorbed(T[r], v, p)
      BY <1>2, <2>1 DEF RemoteWins, Absorbed, Row
    <3>2. QED
      BY <2>1, <3>1, KeepsReflexive
  <2>2. CASE IsConflict(table, t, v) /\ T = Conflicted(table, t, v)
    <3>1. /\ T[r].rev = Larger(table[r].rev, v.rev) /\ T[r].upd = table[r].upd
          /\ T[r].pin = table[r].pin
      BY <1>2, <2>2 DEF Conflicted, Row
    <3>2. v.rev >= table[r].rev
      BY <1>2, <2>2 DEF IsConflict, RemoteWins
    <3>3. T[r].rev = v.rev
      BY <3>1, <3>2 DEF Larger
    <3>4. T[r].pin
      BY <1>2, <2>2, <3>1, Zenon DEF IsConflict
    <3>5. Keeps(table[r], T[r], p)
      <4>1. T[r].rev > table[r].rev \/ T[r].rev = table[r].rev
        BY <3>2, <3>3
      <4>2. T[r].upd >= table[r].upd
        BY <3>1
      <4>3. QED
        BY <3>4, <4>1, <4>2, Zenon DEF Keeps
    <3>6. Absorbed(T[r], v, p)
      BY <3>3, <3>4 DEF Absorbed
    <3>7. QED
      BY <3>5, <3>6
  <2>3. CASE RemoteWins(table[t], v) /\ T = Updated(table, t, t, v)
    <3>1. /\ T[r].rev = v.rev /\ T[r].upd = v.upd
          /\ T[r].pin = (table[t].pin \/ v.pin)
      BY <1>2, <2>3 DEF Updated
    <3>2. table[r].pin => T[r].pin
      BY <1>2, <3>1, Zenon
    <3>3. QED
      BY <1>2, <2>3, <3>1, <3>2 DEF Keeps, Absorbed, RemoteWins, Row
  <2>4. CASE ~Exists(table[t]) /\ T = Inserted(table, t, v)
    BY <1>2, <2>4 DEF Inserted, Exists, Keeps, Absorbed, Row
  <2>5. QED
    BY <2>1, <2>2, <2>3, <2>4, MergedOwn
<1>3. QED
  BY <1>1, <1>2

\* The stamp and the deletion of a row are those of one of the two versions.
LEMMA MergedDates ==
    ASSUME DistinctContent, NEW table \in Table, NEW t \in SyncIds, NEW v \in Item,
           NEW T \in Merged(table, t, v), NEW r \in SyncIds
    PROVE  \/ T[r].upd = table[r].upd /\ T[r].del = table[r].del
           \/ r = t /\ T[r].upd = v.upd /\ T[r].del = v.del
<1> table \in [SyncIds -> Row] /\ table[r] \in Row
  BY DEF Table
<1>1. CASE T = Conflicted(table, t, v)
  BY <1>1 DEF Conflicted, Row
<1>2. CASE T = Updated(table, t, t, v)
  BY <1>2 DEF Updated
<1>3. CASE T = Inserted(table, t, v)
  BY <1>3 DEF Inserted
<1>4. QED
  BY <1>1, <1>2, <1>3, MergedOwn

-----------------------------------------------------------------------------

\* The snapshots on the remote have different numbers, and none is to come that
\* a device has imported.
Numbered ==
    /\ \A m \in Snapshots : m.no <= written
    /\ \A m, n \in Snapshots : m.no = n.no => m = n
    /\ \A d \in Devices : \A n \in imported[d] : n <= written

ImportsAbsorbed ==
    \A d \in Devices, m \in Snapshots, s \in SyncIds :
        m.no \in imported[d] => Absorbed(db[d][s], m.items[s], pasted[s])

\* The snapshot that a device is importing, or has just written.
InHand(d) ==
    /\ cycle[d].pc \in {"merge", "merged", "written", "marked"} =>
          /\ cycle[d].package.no <= written
          /\ \A m \in Snapshots : m.no = cycle[d].package.no => m = cycle[d].package
    /\ cycle[d].pc = "merge" => \A s \in SyncIds :
          /\ Keeps(db[d][s], cycle[d].work[s], pasted[s])
          /\ s \notin cycle[d].left =>
                Absorbed(cycle[d].work[s], cycle[d].package.items[s], pasted[s])
    /\ cycle[d].pc \in {"merged", "written", "marked"} => \A s \in SyncIds :
          Absorbed(db[d][s], cycle[d].package.items[s], pasted[s])

\* Two versions of an item that have the same stamp agree whether it is deleted.
Dated(v, u, x) == v.upd = u /\ v.del = x
Seen(s, u, x) ==
    \/ u = 0 /\ x = 0
    \/ \E d \in Devices : \/ Dated(db[d][s], u, x)
                          \/ Dated(cycle[d].work[s], u, x)
                          \/ Dated(cycle[d].package.items[s], u, x)
    \/ \E m \in Snapshots : Dated(m.items[s], u, x)
OneDeletion ==
    \A s \in SyncIds, u, x, y \in Nat :
        /\ Seen(s, u, x) => Time(u) <= now
        /\ Seen(s, u, x) /\ Seen(s, u, y) => x = y

ConvInv ==
    IInv /\ Numbered /\ ImportsAbsorbed /\ OneDeletion /\ \A d \in Devices : InHand(d)

\* What a step does to the snapshots.
LEMMA SnapshotsStep ==
    ASSUME TypeOK, [Next]_vars
    PROVE  \/ Snapshots' \subseteq Snapshots /\ written' = written
           \/ \E e \in Devices : /\ Export(e) /\ written' = written + 1
                                 /\ Snapshots' = Snapshots \cup {SnapshotOf(e)}
<1>1. remote \in [Devices -> SUBSET Snapshot]
  BY DEF TypeOK
<1>2. CASE UNCHANGED <<remote, written>>
  BY <1>2 DEF Snapshots
<1>3. ASSUME NEW e \in Devices, Export(e)
      PROVE  written' = written + 1 /\ Snapshots' = Snapshots \cup {SnapshotOf(e)}
  <2>1. remote' = [remote EXCEPT ![e] = @ \cup {SnapshotOf(e)}] /\ written' = written + 1
    BY <1>3 DEF Export
  <2> DEFINE new == SnapshotOf(e)
  <2> HIDE DEF new
  <2>2. remote' = [remote EXCEPT ![e] = @ \cup {new}]
    BY <2>1 DEF new
  <2>3. /\ remote'[e] = remote[e] \cup {new}
        /\ \A d \in Devices : d # e => remote'[d] = remote[d]
    BY <1>1, <2>2
  <2>4. UNION {remote'[d] : d \in Devices} = (UNION {remote[d] : d \in Devices}) \cup {new}
    BY <2>3
  <2>5. QED
    BY <2>1, <2>4 DEF Snapshots, new
<1>4. ASSUME NEW e \in Devices, Prune(e)
      PROVE  Snapshots' \subseteq Snapshots /\ written' = written
  <2>1. PICK removed \in SUBSET Excess(e) : remote' = [remote EXCEPT ![e] = @ \ removed]
    BY <1>4 DEF Prune
  <2>2. \A d \in Devices : remote'[d] \subseteq remote[d]
    BY <1>1, <2>1
  <2>3. QED
    BY <1>4, <2>2 DEF Snapshots, Prune
<1>5. ASSUME NEW e \in Devices, Edit(e) \/ Cleanup(e) \/ Fail(e)
      PROVE  UNCHANGED <<remote, written>>
  BY <1>5 DEF Edit, Capture, Recapture, Paste, TogglePin, Delete, LocalStep, Cleanup, Fail
<1>6. ASSUME NEW e \in Devices, Import(e) \/ Finish(e) \/ Mark(e)
      PROVE  UNCHANGED <<remote, written>>
  BY <1>6 DEF Import, Begin, Read, Missing, Merge, Commit, Record, Finish, Mark
<1>7. Pass \/ UNCHANGED vars => UNCHANGED <<remote, written>>
  BY DEF Pass, vars
<1>8. QED
  BY <1>2, <1>3, <1>4, <1>5, <1>6, <1>7 DEF Next, Sync

\* What a step does to the import or export that a device has under way.
LEMMA CycleSteps ==
    ASSUME TypeOK, [Next]_vars, NEW d \in Devices,
           cycle'[d].pc \in {"merge", "merged", "written", "marked"}
    PROVE  \/ cycle'[d] = cycle[d]
           \/ cycle'[d].pc = "merge" /\ (Opened(d) \/ MergedOne(d))
           \/ /\ Commit(d) /\ cycle'[d].pc = "merged" /\ db'[d] = cycle[d].work
              /\ cycle'[d].package = cycle[d].package
           \/ /\ Export(d) /\ cycle'[d].pc = "written"
              /\ cycle'[d].package = SnapshotOf(d)
           \/ /\ Mark(d) /\ cycle'[d].pc = "marked" /\ cycle'[d].package = cycle[d].package
<1>1. db \in [Devices -> Table] /\ cycle \in [Devices -> CycleState] /\ cycle[d] \in CycleState
  BY DEF TypeOK
<1>2. CASE cycle'[d].pc = "merge"
  BY <1>2, UnderLock
<1>3. CASE cycle'[d] = cycle[d]
  BY <1>3
<1>4. CASE cycle'[d].pc # "merge" /\ cycle'[d] # cycle[d]
  <2>1. ~Edit(d) /\ ~Cleanup(d)
    BY <1>4 DEF Edit, Capture, Recapture, Paste, TogglePin, Delete, LocalStep, Cleanup
  <2>2. ~Fail(d) /\ ~Missing(d) /\ ~Finish(d) /\ ~Prune(d)
    BY <1>1 DEF Fail, Missing, Finish, Prune, Idle
  <2>3. ~Record(d) /\ ~Read(d) /\ ~Merge(d)
    <3>1. ~Record(d)
      BY <1>1 DEF Record, CycleState
    <3>2. ~Read(d)
      <4>1. SUFFICES ASSUME Read(d) PROVE FALSE
        OBVIOUS
      <4>2. PICK m \in Snapshots :
                cycle' = [cycle EXCEPT ![d] =
                  [cycle[d] EXCEPT !.pc = "merge", !.todo = cycle[d].todo \ {m.no},
                                   !.package = m, !.work = db[d],
                                   !.left = {s \in SyncIds : Exists(m.items[s])}]]
        BY <4>1 DEF Read
      <4>3. cycle'[d].pc = "merge"
        BY <1>1, <4>2 DEF CycleState
      <4>4. QED
        BY <1>4, <4>3
    <3>3. ~Merge(d)
      BY <1>1, <1>4 DEF Merge, CycleState
    <3>4. QED
      BY <3>1, <3>2, <3>3
  <2>4. ~Begin(d)
    <3>1. SUFFICES ASSUME Begin(d) PROVE FALSE
      OBVIOUS
    <3>2. PICK mode \in Modes :
              cycle' = [cycle EXCEPT ![d] =
                [Idle EXCEPT !.pc = "import", !.empty = (Names = {}),
                             !.todo = IF mode = "auto" THEN Names \ imported[d] ELSE Names]]
      BY <3>1 DEF Begin
    <3>3. cycle'[d].pc = "import"
      BY <1>1, <3>2 DEF Idle
    <3>4. QED
      BY <3>3
  <2>5. CASE Commit(d)
    <3>1. db'[d] = cycle[d].work
      BY <1>1, <2>5 DEF Commit
    <3>2. cycle'[d].pc = "merged" /\ cycle'[d].package = cycle[d].package
      BY <1>1, <2>5 DEF Commit, CycleState
    <3>3. QED
      BY <2>5, <3>1, <3>2
  <2>6. CASE Export(d)
    <3>1. cycle'[d] = [Idle EXCEPT !.pc = "written", !.package = SnapshotOf(d)]
      BY <1>1, <2>6 DEF Export
    <3>2. cycle'[d].pc = "written" /\ cycle'[d].package = SnapshotOf(d)
      BY <3>1 DEF Idle
    <3>3. QED
      BY <2>6, <3>2
  <2>7. CASE Mark(d)
    <3>1. cycle'[d].pc = "marked" /\ cycle'[d].package = cycle[d].package
      BY <1>1, <2>7 DEF Mark, CycleState
    <3>2. QED
      BY <2>7, <3>1
  <2>8. QED
    BY <1>4, <2>1, <2>2, <2>3, <2>4, <2>5, <2>6, <2>7, OtherDevice DEF Sync, Import
<1>5. QED
  BY <1>2, <1>3, <1>4

\* A step that records an import records the snapshot in hand.
LEMMA ImportedStep ==
    ASSUME TypeOK, [Next]_vars, NEW d \in Devices
    PROVE  \/ imported'[d] = imported[d]
           \/ /\ cycle[d].pc \in {"merged", "marked"}
              /\ imported'[d] = imported[d] \cup {cycle[d].package.no}
<1>1. imported \in [Devices -> SUBSET Nat]
  BY DEF TypeOK
<1>2. ASSUME NEW e \in Devices, Record(e) \/ Prune(e)
      PROVE  /\ cycle[e].pc \in {"merged", "marked"}
             /\ imported' = [imported EXCEPT ![e] = @ \cup {cycle[e].package.no}]
  BY <1>2 DEF Record, Prune
<1>3. ASSUME NEW e \in Devices, Edit(e) \/ Cleanup(e) \/ Fail(e)
      PROVE  UNCHANGED imported
  BY <1>3 DEF Edit, Capture, Recapture, Paste, TogglePin, Delete, LocalStep, Cleanup, Fail
<1>4. ASSUME NEW e \in Devices,
             \/ Begin(e) \/ Read(e) \/ Missing(e) \/ Merge(e) \/ Commit(e)
             \/ Finish(e) \/ Export(e) \/ Mark(e)
      PROVE  UNCHANGED imported
  BY <1>4 DEF Begin, Read, Missing, Merge, Commit, Finish, Export, Mark
<1>5. Pass \/ UNCHANGED vars => UNCHANGED imported
  BY DEF Pass, vars
<1>6. QED
  BY <1>1, <1>2, <1>3, <1>4, <1>5 DEF Next, Sync, Import

LEMMA PastedGrows ==
    ASSUME TypeOK, [Next]_vars, NEW s \in SyncIds
    PROVE  pasted[s] \in Nat /\ pasted'[s] \in Nat /\ pasted[s] <= pasted'[s]
<1>1. pasted \in [SyncIds -> Nat] /\ db \in [Devices -> [SyncIds -> Row]]
  BY DEF TypeOK, Table
<1>2. CASE UNCHANGED pasted
  BY <1>1, <1>2
<1>3. ASSUME NEW e \in Devices, NEW r \in SyncIds, Paste(e, r)
      PROVE  pasted'[s] \in Nat /\ pasted[s] <= pasted'[s]
  <2>1. db[e][r].rev \in Nat
    BY <1>1 DEF Row
  <2>2. pasted' = [pasted EXCEPT ![r] = Larger(pasted[r], db[e][r].rev)]
    BY <1>3 DEF Paste
  <2>3. CASE r = s
    BY <1>1, <2>1, <2>2, <2>3, LargerNat
  <2>4. CASE r # s
    BY <1>1, <2>2, <2>4
  <2>5. QED
    BY <2>3, <2>4
<1>4. ASSUME NEW e \in Devices, NEW r \in SyncIds,
             Capture(e, r) \/ Recapture(e, r) \/ TogglePin(e, r) \/ Delete(e, r)
      PROVE  UNCHANGED pasted
  BY <1>4 DEF Capture, Recapture, TogglePin, Delete
<1>5. ASSUME NEW e \in Devices,
             \/ Cleanup(e) \/ Fail(e) \/ Finish(e) \/ Export(e) \/ Mark(e) \/ Prune(e)
             \/ Begin(e) \/ Read(e) \/ Missing(e) \/ Merge(e) \/ Commit(e) \/ Record(e)
      PROVE  UNCHANGED pasted
  BY <1>5 DEF Cleanup, Fail, Finish, Export, Mark, Prune, Begin, Read, Missing, Merge, Commit,
              Record, history
<1>6. Pass \/ UNCHANGED vars => UNCHANGED pasted
  BY DEF Pass, vars, history
<1>7. QED
  BY <1>1, <1>2, <1>3, <1>4, <1>5, <1>6 DEF Next, Edit, Sync, Import

\* No step makes a row forget what it has absorbed.
LEMMA RowsKeep ==
    ASSUME ConvInv, [Next]_vars, NEW d \in Devices, NEW s \in SyncIds
    PROVE  Keeps(db[d][s], db'[d][s], pasted'[s])
<1>1. /\ db \in [Devices -> [SyncIds -> Row]] /\ db[d] \in [SyncIds -> Row]
      /\ db[d][s] \in Row
  BY DEF ConvInv, IInv, TypeOK, Table
<1>2. /\ db[d][s].rev \in Nat /\ db[d][s].upd \in Nat /\ now \in Nat
      /\ pasted[s] \in Nat /\ pasted'[s] \in Nat /\ pasted[s] <= pasted'[s]
      /\ Stamp \in Nat /\ Stamp > now
  BY <1>1, PastedGrows, StampFacts DEF Row, ConvInv, IInv, TypeOK
<1>3. CASE db'[d][s] = db[d][s]
  BY <1>1, <1>2, <1>3, KeepsReflexive
<1>4. CASE Edit(d)
  <2>1. PICK r \in SyncIds : Capture(d, r) \/ Recapture(d, r) \/ Paste(d, r) \/ TogglePin(d, r) \/ Delete(d, r)
    BY <1>4 DEF Edit
  <2>2. CASE r # s
    <3>1. db'[d][s] = db[d][s]
      BY <1>1, <2>1, <2>2 DEF Capture, Recapture, Paste, TogglePin, Delete
    <3>2. QED
      BY <1>3, <3>1
  <2>3. CASE r = s /\ (Capture(d, r) \/ TogglePin(d, r) \/ Delete(d, r))
    <3>1. db'[d][s].rev > db[d][s].rev
      <4>1. CASE Capture(d, r)
        BY <1>1, <1>2, <2>3, <4>1 DEF Capture, Exists
      <4>2. CASE TogglePin(d, r)
        BY <1>1, <1>2, <2>3, <4>2 DEF TogglePin
      <4>3. CASE Delete(d, r)
        BY <1>1, <1>2, <2>3, <4>3 DEF Delete
      <4>4. QED
        BY <2>3, <4>1, <4>2, <4>3
    <3>2. QED
      BY <3>1 DEF Keeps
  <2>4. CASE r = s /\ Recapture(d, r)
    <3>1. db'[d][s] = [db[d][s] EXCEPT !.upd = Stamp]
      BY <1>1, <2>4 DEF Recapture
    <3>2. db'[d][s].rev = db[d][s].rev /\ db'[d][s].upd = Stamp /\ db'[d][s].pin = db[d][s].pin
      BY <1>1, <3>1 DEF Row
    <3>3. Time(db[d][s].upd) <= now
      BY <1>1, <1>2 DEF ConvInv, OneDeletion, Seen, Dated, Row
    <3>4. Stamp >= db[d][s].upd
      BY <1>2, <3>3, TimeFacts
    <3>5. QED
      BY <3>2, <3>4, Zenon DEF Keeps
  <2>5. CASE r = s /\ Paste(d, r)
    <3>1. /\ db'[d][s] = [db[d][s] EXCEPT !.upd = Stamp - Instants]
          /\ pasted'[s] = Larger(pasted[s], db[d][s].rev)
      BY <1>1, <2>5 DEF Paste, ConvInv, IInv, TypeOK
    <3>2. db'[d][s].rev = db[d][s].rev /\ db'[d][s].pin = db[d][s].pin
      BY <1>1, <3>1 DEF Row
    <3>3. db[d][s].rev <= pasted'[s]
      BY <1>2, <3>1, LargerNat
    <3>4. QED
      BY <3>2, <3>3, Zenon DEF Keeps
  <2>6. QED
    BY <2>1, <2>2, <2>3, <2>4, <2>5
<1>5. CASE Cleanup(d)
  <2>1. \A r \in SyncIds : ~Purgeable(d, r)
    BY <1>1 DEF Purgeable, Tombstone, ConvInv, IInv, RowsBound, Row
  <2>2. db'[d][s] = db[d][s]
    BY <1>1, <1>5, <2>1 DEF Cleanup
  <2>3. QED
    BY <1>3, <2>2
<1>6. CASE Mark(d)
  <2>1. \/ db'[d][s] = db[d][s]
        \/ db'[d][s] = [db[d][s] EXCEPT !.status = "synced"]
    BY <1>1, <1>6 DEF Mark
  <2>2. /\ db'[d][s].rev = db[d][s].rev /\ db'[d][s].upd = db[d][s].upd
        /\ db'[d][s].pin = db[d][s].pin
    BY <1>1, <2>1 DEF Row
  <2>3. db'[d][s].upd >= db[d][s].upd
    BY <1>2, <2>2
  <2>4. QED
    BY <2>2, <2>3, Zenon DEF Keeps
<1>7. CASE Commit(d)
  <2>1. db'[d] = cycle[d].work
    BY <1>1, <1>7 DEF Commit
  <2>2. Keeps(db[d][s], cycle[d].work[s], pasted[s]) /\ cycle[d].work[s] \in Row
    BY <1>7, CycleFacts DEF Commit, ConvInv, IInv, InHand, Table
  <2>3. QED
    BY <1>1, <1>2, <2>1, <2>2, KeepsLonger
<1>8. CASE \/ Fail(d) \/ Begin(d) \/ Read(d) \/ Missing(d) \/ Merge(d) \/ Record(d)
           \/ Finish(d) \/ Export(d) \/ Prune(d)
  <2>1. db' = db
    BY <1>8 DEF Fail, Begin, Read, Missing, Merge, Record, Finish, Export, Prune, tables
  <2>2. QED
    BY <1>3, <2>1
<1>9. QED
  BY <1>3, <1>4, <1>5, <1>6, <1>7, <1>8, OtherDevice DEF ConvInv, IInv, Sync, Import

LEMMA ConvTypes ==
    ASSUME ConvInv, [Next]_vars
    PROVE  /\ TypeOK /\ TypeOK' /\ written \in Nat
           /\ \A d \in Devices, s \in SyncIds : db[d][s] \in Row /\ db'[d][s] \in Row
           /\ \A d \in Devices : /\ cycle[d].package \in Snapshot
                                 /\ cycle[d].work \in Table /\ cycle'[d].work \in Table
           /\ \A d \in Devices, s \in SyncIds : cycle[d].package.items[s] \in Item
           /\ \A m \in Snapshots : m.no \in Nat /\ \A s \in SyncIds : m.items[s] \in Item
<1>1. TypeOK /\ TypeOK'
  BY NextType DEF ConvInv, IInv
<1>2. \A d \in Devices, s \in SyncIds : db[d][s] \in Row /\ db'[d][s] \in Row
  BY <1>1 DEF TypeOK, Table
<1>3. \A m \in Snapshots : m.no \in Nat /\ \A s \in SyncIds : m.items[s] \in Item
  BY <1>1 DEF TypeOK, Snapshots, Snapshot
<1>4. \A d \in Devices : cycle'[d].work \in Table
  BY <1>1 DEF TypeOK, CycleState
<1>5. QED
  BY <1>1, <1>2, <1>3, <1>4, CycleFacts DEF TypeOK

LEMMA NumberedStep ==
    ASSUME ConvInv, [Next]_vars
    PROVE  Numbered'
<1> USE ConvTypes
<1>1. ASSUME NEW d \in Devices, NEW n \in imported'[d] PROVE n <= written
  BY <1>1, ImportedStep DEF ConvInv, Numbered, InHand
<1>2. ASSUME NEW d \in Devices, NEW n \in imported'[d] PROVE n \in Nat
  BY <1>2 DEF TypeOK
<1>3. CASE Snapshots' \subseteq Snapshots /\ written' = written
  BY <1>1, <1>3 DEF ConvInv, Numbered
<1>4. ASSUME NEW e \in Devices, written' = written + 1,
             Snapshots' = Snapshots \cup {SnapshotOf(e)}
      PROVE  Numbered'
  <2> DEFINE new == SnapshotOf(e)
  <2>1. new.no = written + 1
    BY DEF SnapshotOf
  <2> HIDE DEF new
  <2>2. Snapshots' = Snapshots \cup {new}
    BY <1>4 DEF new
  <2>3. \A m \in Snapshots : m.no \in Nat /\ m.no <= written
    BY DEF ConvInv, Numbered
  <2>4. \A m \in Snapshots' : m.no <= written'
    BY <1>4, <2>1, <2>2, <2>3
  <2>5. \A m, n \in Snapshots' : m.no = n.no => m = n
    BY <2>1, <2>2, <2>3 DEF ConvInv, Numbered
  <2>6. \A d \in Devices : \A n \in imported'[d] : n <= written'
    BY <1>1, <1>2, <1>4
  <2>7. QED
    BY <2>4, <2>5, <2>6 DEF Numbered
<1>5. QED
  BY <1>3, <1>4, SnapshotsStep

\* A snapshot that is on the remote after a step was there before, or is new.
LEMMA OldOrNew ==
    ASSUME ConvInv, [Next]_vars, NEW m \in Snapshots'
    PROVE  m \in Snapshots \/ m.no > written
<1> USE ConvTypes
<1>1. ASSUME NEW e \in Devices PROVE SnapshotOf(e).no = written + 1
  BY DEF SnapshotOf
<1>2. written + 1 > written
  OBVIOUS
<1>3. QED
  BY <1>1, <1>2, SnapshotsStep

LEMMA ImportsStep ==
    ASSUME ConvInv, [Next]_vars
    PROVE  ImportsAbsorbed'
<1>1. SUFFICES ASSUME NEW d \in Devices, NEW m \in Snapshots', NEW s \in SyncIds,
                      m.no \in imported'[d]
               PROVE  Absorbed(db'[d][s], m.items[s], pasted'[s])
  BY DEF ImportsAbsorbed
<1>2. m.no \in imported[d] \/ (/\ cycle[d].pc \in {"merged", "marked"}
                               /\ m.no = cycle[d].package.no)
  BY <1>1, ConvTypes, ImportedStep
<1>3. m \in Snapshots
  <2>1. m.no <= written
    BY <1>2 DEF ConvInv, Numbered, InHand
  <2>2. m \in Snapshots => m.no \in Nat
    BY ConvTypes
  <2>3. m.no \in Nat
    BY ConvTypes DEF TypeOK, Snapshots, Snapshot
  <2>4. QED
    BY <2>1, <2>3, ConvTypes, OldOrNew
<1>4. Absorbed(db[d][s], m.items[s], pasted[s])
  BY <1>2, <1>3 DEF ConvInv, ImportsAbsorbed, InHand
<1>5. QED
  BY <1>3, <1>4, ConvTypes, PastedGrows, RowsKeep, AbsorbedKept

\* A snapshot says what the rows of its device are, and they have absorbed it.
LEMMA OwnAbsorbed ==
    ASSUME ConvInv, NEW d \in Devices, NEW s \in SyncIds, NEW p \in Nat
    PROVE  Absorbed(db[d][s], SnapshotOf(d).items[s], p)
<1>1. db[d][s] \in Row
  BY DEF ConvInv, IInv, TypeOK, Table
<1>2. CASE Exported(d, s)
  <2>1. /\ SnapshotOf(d).items[s].rev = db[d][s].rev
        /\ SnapshotOf(d).items[s].upd = db[d][s].upd
    BY <1>2 DEF SnapshotOf
  <2>2. QED
    BY <1>1, <2>1 DEF Absorbed, Row
<1>3. CASE ~Exported(d, s)
  <2>1. SnapshotOf(d).items[s].rev = 0
    BY <1>3 DEF SnapshotOf, NoItem
  <2>2. QED
    BY <2>1 DEF Absorbed, Exists
<1>4. QED
  BY <1>2, <1>3

LEMMA InHandStep ==
    ASSUME DistinctContent, ConvInv, [Next]_vars, NEW d \in Devices
    PROVE  InHand(d)'
<1> USE ConvTypes, PastedGrows
<1>1. ASSUME cycle'[d].pc \in {"merge", "merged", "written", "marked"}
      PROVE  /\ cycle'[d].package.no <= written'
             /\ \A m \in Snapshots' : m.no = cycle'[d].package.no => m = cycle'[d].package
  <2>1. CASE Export(d) /\ cycle'[d].package = SnapshotOf(d)
    <3>1. cycle'[d].package.no = written + 1 /\ written' = written + 1
      BY <2>1 DEF SnapshotOf, Export
    <3>2. SnapshotOf(d) \in remote'[d]
      BY <2>1 DEF Export, TypeOK
    <3>3. SnapshotOf(d) \in Snapshots'
      BY <3>2 DEF Snapshots
    <3>4. Numbered'
      BY NumberedStep
    <3>5. \A m \in Snapshots' : m.no = SnapshotOf(d).no => m = SnapshotOf(d)
      BY <3>3, <3>4 DEF Numbered
    <3>6. written + 1 <= written + 1
      OBVIOUS
    <3>7. QED
      BY <2>1, <3>1, <3>5, <3>6
  <2>2. CASE ~(Export(d) /\ cycle'[d].package = SnapshotOf(d))
    <3>1. \/ /\ cycle[d].pc \in {"merge", "merged", "written", "marked"}
             /\ cycle'[d].package = cycle[d].package
          \/ cycle'[d].package \in Snapshots
      BY <1>1, <2>2, CycleSteps DEF Opened, MergedOne, Commit, Mark
    <3>2. /\ cycle'[d].package.no <= written /\ cycle'[d].package.no \in Nat
          /\ \A m \in Snapshots : m.no = cycle'[d].package.no => m = cycle'[d].package
      <4>1. CASE /\ cycle[d].pc \in {"merge", "merged", "written", "marked"}
                 /\ cycle'[d].package = cycle[d].package
        BY <4>1 DEF ConvInv, InHand, Snapshot
      <4>2. CASE cycle'[d].package \in Snapshots
        BY <4>2 DEF ConvInv, Numbered
      <4>3. QED
        BY <3>1, <4>1, <4>2
    <3>3. written' = written \/ written' = written + 1
      BY SnapshotsStep
    <3>4. cycle'[d].package.no <= written'
      BY <3>2, <3>3
    <3>5. \A m \in Snapshots' : m.no = cycle'[d].package.no => m \in Snapshots
      BY <3>2, OldOrNew
    <3>6. QED
      BY <3>2, <3>4, <3>5
  <2>3. QED
    BY <2>1, <2>2
<1>2. ASSUME cycle'[d].pc = "merge", NEW s \in SyncIds
      PROVE  /\ Keeps(db'[d][s], cycle'[d].work[s], pasted'[s])
             /\ s \notin cycle'[d].left =>
                   Absorbed(cycle'[d].work[s], cycle'[d].package.items[s], pasted'[s])
  <2>1. db'[d] = db[d]
    BY <1>2, UnderLock
  <2>2. CASE Opened(d)
    <3>1. Keeps(db'[d][s], cycle'[d].work[s], pasted'[s])
      BY <2>1, <2>2, KeepsReflexive DEF Opened
    <3>2. ASSUME s \notin cycle'[d].left
          PROVE  Absorbed(cycle'[d].work[s], cycle'[d].package.items[s], pasted'[s])
      <4>1. ~Exists(cycle'[d].package.items[s])
        BY <2>2, <3>2 DEF Opened
      <4>2. QED
        BY <4>1 DEF Absorbed
    <3>3. QED
      BY <3>1, <3>2
  <2>3. CASE MergedOne(d)
    <3>1. PICK t \in cycle[d].left :
             /\ cycle'[d].left = cycle[d].left \ {t}
             /\ cycle'[d].work \in Merged(cycle[d].work, t, cycle[d].package.items[t])
      BY <2>3 DEF MergedOne
    <3>2. /\ cycle[d].pc = "merge" /\ cycle'[d].package = cycle[d].package
          /\ t \in SyncIds /\ Exists(cycle[d].package.items[t])
      BY <2>3 DEF MergedOne, ConvInv, IInv, WorkNotBefore, TypeOK, CycleState
    <3>3. cycle[d].work[s] \in Row /\ cycle'[d].work[s] \in Row
      BY DEF Table
    <3>4. /\ Keeps(cycle[d].work[s], cycle'[d].work[s], pasted'[s])
          /\ s = t => Absorbed(cycle'[d].work[s], cycle[d].package.items[t], pasted'[s])
      BY <3>1, <3>2, MergedKeeps
    <3>5. /\ Keeps(db[d][s], cycle[d].work[s], pasted'[s])
          /\ s \notin cycle[d].left =>
                Absorbed(cycle[d].work[s], cycle[d].package.items[s], pasted[s])
      BY <3>2, <3>3, KeepsLonger DEF ConvInv, InHand
    <3>6. Keeps(db'[d][s], cycle'[d].work[s], pasted'[s])
      BY <2>1, <3>3, <3>4, <3>5, KeepsTransitive
    <3>7. s \notin cycle[d].left =>
             Absorbed(cycle'[d].work[s], cycle[d].package.items[s], pasted'[s])
      BY <3>3, <3>4, <3>5, AbsorbedKept
    <3>8. QED
      BY <3>1, <3>2, <3>4, <3>6, <3>7
  <2>4. CASE cycle'[d] = cycle[d]
    <3>1. cycle[d].work[s] \in Row
      BY DEF Table
    <3>2. /\ Keeps(db[d][s], cycle[d].work[s], pasted[s])
          /\ s \notin cycle[d].left =>
                Absorbed(cycle[d].work[s], cycle[d].package.items[s], pasted[s])
      BY <1>2, <2>4 DEF ConvInv, InHand
    <3>3. Keeps(db[d][s], cycle[d].work[s], pasted'[s])
      BY <3>1, <3>2, KeepsLonger
    <3>4. s \notin cycle[d].left =>
             Absorbed(cycle[d].work[s], cycle[d].package.items[s], pasted'[s])
      BY <3>1, <3>2, KeepsReflexive, AbsorbedKept
    <3>5. QED
      BY <2>1, <2>4, <3>3, <3>4
  <2>5. QED
    BY <1>2, <2>2, <2>3, <2>4, UnderLock
<1>3. ASSUME cycle'[d].pc \in {"merged", "written", "marked"}, NEW s \in SyncIds
      PROVE  Absorbed(db'[d][s], cycle'[d].package.items[s], pasted'[s])
  <2>1. CASE cycle'[d] = cycle[d] \/ (Mark(d) /\ cycle'[d].package = cycle[d].package)
    <3>1. cycle[d].pc \in {"merged", "written", "marked"} /\ cycle'[d].package = cycle[d].package
      BY <1>3, <2>1 DEF Mark
    <3>2. Absorbed(db[d][s], cycle[d].package.items[s], pasted[s])
      BY <3>1 DEF ConvInv, InHand
    <3>3. QED
      BY <3>1, <3>2, RowsKeep, AbsorbedKept
  <2>2. CASE Commit(d) /\ db'[d] = cycle[d].work /\ cycle'[d].package = cycle[d].package
    <3>1. Absorbed(cycle[d].work[s], cycle[d].package.items[s], pasted[s])
      BY <2>2 DEF Commit, ConvInv, InHand
    <3>2. UNCHANGED pasted
      BY <2>2 DEF Commit
    <3>3. QED
      BY <2>2, <3>1, <3>2
  <2>3. CASE Export(d) /\ cycle'[d].package = SnapshotOf(d)
    <3>1. db'[d] = db[d]
      BY <2>3 DEF Export, tables
    <3>2. QED
      BY <2>3, <3>1, OwnAbsorbed
  <2>4. QED
    BY <1>3, <2>1, <2>2, <2>3, CycleSteps
<1>4. QED
  BY <1>1, <1>2, <1>3 DEF InHand

\* Where the rows and the package of a cycle come from.
LEMMA CycleSources ==
    ASSUME TypeOK, [Next]_vars, NEW d \in Devices
    PROVE  /\ \/ cycle'[d].work = cycle[d].work \/ cycle'[d].work = NoRows
              \/ cycle'[d].work = db[d] \/ MergedOne(d)
           /\ \/ cycle'[d].package = cycle[d].package \/ cycle'[d].package = NoSnapshot
              \/ cycle'[d].package = SnapshotOf(d) \/ cycle'[d].package \in Snapshots
<1>1. db \in [Devices -> Table] /\ cycle \in [Devices -> CycleState] /\ cycle[d] \in CycleState
  BY DEF TypeOK
<1>2. CASE cycle'[d] = cycle[d]
  BY <1>2
<1>3. CASE cycle'[d] = Idle
  BY <1>3 DEF Idle
<1>4. CASE Begin(d)
  <2>1. PICK mode \in Modes :
            cycle' = [cycle EXCEPT ![d] =
              [Idle EXCEPT !.pc = "import", !.empty = (Names = {}),
                           !.todo = IF mode = "auto" THEN Names \ imported[d] ELSE Names]]
    BY <1>4 DEF Begin
  <2>2. cycle'[d].work = NoRows /\ cycle'[d].package = NoSnapshot
    BY <1>1, <2>1 DEF Idle
  <2>3. QED
    BY <2>2
<1>5. CASE Read(d)
  <2>1. PICK m \in Snapshots :
            cycle' = [cycle EXCEPT ![d] =
              [cycle[d] EXCEPT !.pc = "merge", !.todo = cycle[d].todo \ {m.no},
                               !.package = m, !.work = db[d],
                               !.left = {s \in SyncIds : Exists(m.items[s])}]]
    BY <1>5 DEF Read
  <2>2. cycle'[d].work = db[d] /\ cycle'[d].package = m
    BY <1>1, <2>1 DEF CycleState
  <2>3. QED
    BY <2>2
<1>6. CASE Merge(d)
  <2>1. PICK t \in cycle[d].left :
          \E table \in Merged(cycle[d].work, t, cycle[d].package.items[t]) :
            cycle' = [cycle EXCEPT ![d] =
              [cycle[d] EXCEPT !.left = cycle[d].left \ {t}, !.work = table,
                               !.taken = cycle[d].taken \cup Gone(cycle[d].work, table),
                               !.conflicts = cycle[d].conflicts \cup
                                 ConflictEvents(cycle[d].work, t, cycle[d].package.items[t])]]
    BY <1>6 DEF Merge
  <2>2. /\ cycle'[d].left = cycle[d].left \ {t}
        /\ cycle'[d].work \in Merged(cycle[d].work, t, cycle[d].package.items[t])
        /\ cycle'[d].package = cycle[d].package
        /\ cycle'[d].taken = cycle[d].taken \cup Gone(cycle[d].work, cycle'[d].work)
    BY <1>1, <2>1 DEF CycleState
  <2>3. QED
    BY <1>6, <2>2 DEF Merge, MergedOne
<1>7. CASE Commit(d)
  <2>1. cycle'[d].work = NoRows /\ cycle'[d].package = cycle[d].package
    BY <1>1, <1>7 DEF Commit, CycleState
  <2>2. QED
    BY <2>1
<1>8. CASE Record(d)
  <2>1. cycle'[d].work = cycle[d].work /\ cycle'[d].package = NoSnapshot
    BY <1>1, <1>8 DEF Record, CycleState
  <2>2. QED
    BY <2>1
<1>9. CASE Export(d)
  <2>1. cycle'[d] = [Idle EXCEPT !.pc = "written", !.package = SnapshotOf(d)]
    BY <1>1, <1>9 DEF Export
  <2>2. cycle'[d].work = NoRows /\ cycle'[d].package = SnapshotOf(d)
    BY <2>1 DEF Idle
  <2>3. QED
    BY <2>2
<1>10. CASE Mark(d)
  <2>1. cycle'[d].work = cycle[d].work /\ cycle'[d].package = cycle[d].package
    BY <1>1, <1>10 DEF Mark, CycleState
  <2>2. QED
    BY <2>1
<1>11. CASE Missing(d) \/ Finish(d) \/ Prune(d) \/ Fail(d)
  <2>1. cycle'[d] = Idle
    BY <1>1, <1>11 DEF Missing, Finish, Prune, Fail
  <2>2. QED
    BY <1>3, <2>1
<1>12. CASE Edit(d) \/ Cleanup(d)
  <2>1. cycle' = cycle
    BY <1>12 DEF Edit, Capture, Recapture, Paste, TogglePin, Delete, LocalStep, Cleanup
  <2>2. QED
    BY <2>1
<1>13. QED
  BY <1>2, <1>4, <1>5, <1>6, <1>7, <1>8, <1>9, <1>10, <1>11, <1>12, OtherDevice DEF Sync, Import

\* The step of another actor than a user writes no new stamp.
LEMMA RowDates ==
    ASSUME ConvInv, [Next]_vars, NEW d \in Devices, NEW s \in SyncIds, ~Edit(d)
    PROVE  Seen(s, db'[d][s].upd, db'[d][s].del)
<1>1. /\ db \in [Devices -> [SyncIds -> Row]] /\ db[d] \in [SyncIds -> Row]
      /\ db[d][s] \in Row
  BY DEF ConvInv, IInv, TypeOK, Table
<1>2. CASE db'[d][s].upd = db[d][s].upd /\ db'[d][s].del = db[d][s].del
  BY <1>2 DEF Seen, Dated
<1>3. CASE Cleanup(d)
  <2>1. \A r \in SyncIds : ~Purgeable(d, r)
    BY <1>1 DEF Purgeable, Tombstone, ConvInv, IInv, RowsBound, Row
  <2>2. db'[d][s] = db[d][s]
    BY <1>1, <1>3, <2>1 DEF Cleanup
  <2>3. QED
    BY <1>2, <2>2
<1>4. CASE Mark(d)
  <2>1. \/ db'[d][s] = db[d][s]
        \/ db'[d][s] = [db[d][s] EXCEPT !.status = "synced"]
    BY <1>1, <1>4 DEF Mark
  <2>2. db'[d][s].upd = db[d][s].upd /\ db'[d][s].del = db[d][s].del
    BY <1>1, <2>1 DEF Row
  <2>3. QED
    BY <1>2, <2>2
<1>5. CASE Commit(d)
  <2>1. db'[d] = cycle[d].work
    BY <1>1, <1>5 DEF Commit
  <2>2. QED
    BY <2>1 DEF Seen, Dated
<1>6. CASE \/ Fail(d) \/ Begin(d) \/ Read(d) \/ Missing(d) \/ Merge(d) \/ Record(d)
           \/ Finish(d) \/ Export(d) \/ Prune(d)
  <2>1. db' = db
    BY <1>6 DEF Fail, Begin, Read, Missing, Merge, Record, Finish, Export, Prune, tables
  <2>2. QED
    BY <1>2, <2>1
<1>7. CASE db'[d] = db[d]
  BY <1>2, <1>7
<1>8. QED
  BY <1>3, <1>4, <1>5, <1>6, <1>7, OtherDevice DEF ConvInv, IInv, Sync, Import

LEMMA SnapshotDates ==
    ASSUME TypeOK, NEW d \in Devices, NEW s \in SyncIds
    PROVE  Seen(s, SnapshotOf(d).items[s].upd, SnapshotOf(d).items[s].del)
<1>1. CASE Exported(d, s)
  <2>1. /\ SnapshotOf(d).items[s].upd = db[d][s].upd
        /\ SnapshotOf(d).items[s].del = db[d][s].del
    BY <1>1 DEF SnapshotOf
  <2>2. QED
    BY <2>1 DEF Seen, Dated
<1>2. CASE ~Exported(d, s)
  <2>1. SnapshotOf(d).items[s].upd = 0 /\ SnapshotOf(d).items[s].del = 0
    BY <1>2 DEF SnapshotOf, NoItem
  <2>2. QED
    BY <2>1 DEF Seen
<1>3. QED
  BY <1>1, <1>2

LEMMA CycleDates ==
    ASSUME DistinctContent, ConvInv, [Next]_vars, NEW d \in Devices, NEW s \in SyncIds
    PROVE  /\ Seen(s, cycle'[d].work[s].upd, cycle'[d].work[s].del)
           /\ Seen(s, cycle'[d].package.items[s].upd, cycle'[d].package.items[s].del)
<1> USE ConvTypes
<1>1. Seen(s, cycle'[d].work[s].upd, cycle'[d].work[s].del)
  <2>1. CASE cycle'[d].work = cycle[d].work
    BY <2>1 DEF Seen, Dated
  <2>2. CASE cycle'[d].work = NoRows
    BY <2>2 DEF Seen, NoRows, NoRow
  <2>3. CASE cycle'[d].work = db[d]
    BY <2>3 DEF Seen, Dated
  <2>4. CASE MergedOne(d)
    <3>1. PICK t \in cycle[d].left :
             cycle'[d].work \in Merged(cycle[d].work, t, cycle[d].package.items[t])
      BY <2>4 DEF MergedOne
    <3>2. t \in SyncIds /\ cycle[d].work \in Table /\ cycle[d].package.items[t] \in Item
      BY DEF TypeOK, CycleState
    <3>3. \/ /\ cycle'[d].work[s].upd = cycle[d].work[s].upd
             /\ cycle'[d].work[s].del = cycle[d].work[s].del
          \/ /\ s = t
             /\ cycle'[d].work[s].upd = cycle[d].package.items[t].upd
             /\ cycle'[d].work[s].del = cycle[d].package.items[t].del
      <4>1. \A T \in Merged(cycle[d].work, t, cycle[d].package.items[t]) :
               \/ T[s].upd = cycle[d].work[s].upd /\ T[s].del = cycle[d].work[s].del
               \/ /\ s = t /\ T[s].upd = cycle[d].package.items[t].upd
                  /\ T[s].del = cycle[d].package.items[t].del
        BY <3>2, MergedDates
      <4>2. QED
        BY <3>1, <4>1
    <3>4. QED
      BY <3>3 DEF Seen, Dated
  <2>5. QED
    BY <2>1, <2>2, <2>3, <2>4, CycleSources
<1>2. Seen(s, cycle'[d].package.items[s].upd, cycle'[d].package.items[s].del)
  <2>1. CASE cycle'[d].package = cycle[d].package
    BY <2>1 DEF Seen, Dated
  <2>2. CASE cycle'[d].package = NoSnapshot
    BY <2>2 DEF Seen, NoSnapshot, NoItem
  <2>3. CASE cycle'[d].package = SnapshotOf(d)
    BY <2>3, SnapshotDates
  <2>4. CASE cycle'[d].package \in Snapshots
    BY <2>4 DEF Seen, Dated
  <2>5. QED
    BY <2>1, <2>2, <2>3, <2>4, CycleSources
<1>3. QED
  BY <1>1, <1>2

LEMMA SeenStep ==
    ASSUME DistinctContent, ConvInv, [Next]_vars, NEW s \in SyncIds,
           \A d \in Devices : ~Edit(d), NEW u \in Nat, NEW x \in Nat, Seen(s, u, x)'
    PROVE  Seen(s, u, x)
<1>1. CASE u = 0 /\ x = 0
  BY <1>1 DEF Seen
<1>2. ASSUME NEW d \in Devices, Dated(db'[d][s], u, x) PROVE Seen(s, u, x)
  BY <1>2, RowDates DEF Dated
<1>3. ASSUME NEW d \in Devices,
             \/ Dated(cycle'[d].work[s], u, x)
             \/ Dated(cycle'[d].package.items[s], u, x)
      PROVE  Seen(s, u, x)
  BY <1>3, CycleDates DEF Dated
<1>4. ASSUME NEW m \in Snapshots', Dated(m.items[s], u, x) PROVE Seen(s, u, x)
  <2>1. CASE m \in Snapshots
    BY <1>4, <2>1 DEF Seen
  <2>2. ASSUME NEW e \in Devices, m = SnapshotOf(e) PROVE Seen(s, u, x)
    BY <1>4, <2>2, SnapshotDates, ConvTypes DEF Dated
  <2>3. QED
    BY <2>1, <2>2, SnapshotsStep, ConvTypes
<1>5. QED
  BY <1>1, <1>2, <1>3, <1>4 DEF Seen

\* A user writes a stamp that nobody has seen.
LEMMA EditDates ==
    ASSUME ConvInv, NEW d \in Devices, Edit(d), NEW s \in SyncIds
    PROVE  /\ now' = Stamp
           /\ \A u, x \in Nat : Seen(s, u, x)' =>
                 Seen(s, u, x) \/ (u \in {Stamp, Stamp - Instants} /\ x = db'[d][s].del)
<1>1. PICK r \in SyncIds : Capture(d, r) \/ Recapture(d, r) \/ Paste(d, r) \/ TogglePin(d, r) \/ Delete(d, r)
  BY DEF Edit
<1>2. /\ db \in [Devices -> [SyncIds -> Row]] /\ db[d] \in [SyncIds -> Row]
      /\ db[d][r] \in Row
  BY DEF ConvInv, IInv, TypeOK, Table
<1>3. now' = Stamp /\ UNCHANGED <<remote, cycle>>
  BY <1>1 DEF Capture, Recapture, Paste, TogglePin, Delete, LocalStep
<1>4. \A e \in Devices : e # d => db'[e][s] = db[e][s]
  BY <1>1, <1>2 DEF Capture, Recapture, Paste, TogglePin, Delete
<1>5. db'[d][s] = db[d][s] \/ db'[d][s].upd \in {Stamp, Stamp - Instants}
  <2>1. CASE s # r
    BY <1>1, <1>2, <2>1 DEF Capture, Recapture, Paste, TogglePin, Delete
  <2>2. CASE s = r /\ (Capture(d, r) \/ TogglePin(d, r) \/ Delete(d, r))
    <3>1. CASE Capture(d, r)
      BY <1>2, <2>2, <3>1 DEF Capture
    <3>2. CASE TogglePin(d, r)
      BY <1>2, <2>2, <3>2 DEF TogglePin
    <3>3. CASE Delete(d, r)
      BY <1>2, <2>2, <3>3 DEF Delete
    <3>4. QED
      BY <2>2, <3>1, <3>2, <3>3
  <2>3. CASE s = r /\ (Recapture(d, r) \/ Paste(d, r))
    BY <1>2, <2>3 DEF Recapture, Paste, Row
  <2>4. QED
    BY <1>1, <2>1, <2>2, <2>3
<1>6. ASSUME NEW u \in Nat, NEW x \in Nat, Seen(s, u, x)'
      PROVE  Seen(s, u, x) \/ (u \in {Stamp, Stamp - Instants} /\ x = db'[d][s].del)
  BY <1>3, <1>4, <1>5, <1>6 DEF Seen, Dated, Snapshots
<1>7. QED
  BY <1>3, <1>6

LEMMA NowForward ==
    ASSUME TypeOK, [Next]_vars, \A d \in Devices : ~Edit(d)
    PROVE  now' = now
<1>1. ASSUME NEW e \in Devices, Cleanup(e) \/ Fail(e) PROVE now' = now
  BY <1>1 DEF Cleanup, Fail
<1>2. ASSUME NEW e \in Devices, Import(e) PROVE now' = now
  BY <1>2 DEF Import, Begin, Read, Missing, Merge, Commit, Record
<1>3. ASSUME NEW e \in Devices, Finish(e) \/ Export(e) \/ Mark(e) \/ Prune(e)
      PROVE  now' = now
  BY <1>3 DEF Finish, Export, Mark, Prune
<1>4. Pass \/ UNCHANGED vars => now' = now
  BY DEF Pass, vars
<1>5. QED
  BY <1>1, <1>2, <1>3, <1>4 DEF Next, Sync

LEMMA OneDeletionStep ==
    ASSUME DistinctContent, ConvInv, [Next]_vars
    PROVE  OneDeletion'
<1>1. SUFFICES ASSUME NEW s \in SyncIds, NEW u \in Nat, NEW x \in Nat, NEW y \in Nat
               PROVE  /\ Seen(s, u, x)' => Time(u) <= now'
                      /\ Seen(s, u, x)' /\ Seen(s, u, y)' => x = y
  BY DEF OneDeletion
<1>2. /\ now \in Nat /\ Stamp \in Nat /\ Stamp > now /\ Stamp - Instants \in Nat
      /\ Time(u) \in Nat
  BY ConvTypes, StampFacts, TimeFacts DEF TypeOK
<1>3. /\ Seen(s, u, x) => Time(u) <= now
      /\ Seen(s, u, y) => Time(u) <= now
      /\ Seen(s, u, x) /\ Seen(s, u, y) => x = y
  BY DEF ConvInv, OneDeletion
<1>4. CASE \A d \in Devices : ~Edit(d)
  BY <1>3, <1>4, SeenStep, NowForward, ConvTypes
<1>5. ASSUME NEW d \in Devices, Edit(d)
      PROVE  /\ Seen(s, u, x)' => Time(u) <= now'
             /\ Seen(s, u, x)' /\ Seen(s, u, y)' => x = y
  <2>1. now' = Stamp
    BY <1>5, EditDates
  <2>2. /\ Seen(s, u, x)' =>
             Seen(s, u, x) \/ (u \in {Stamp, Stamp - Instants} /\ x = db'[d][s].del)
        /\ Seen(s, u, y)' =>
             Seen(s, u, y) \/ (u \in {Stamp, Stamp - Instants} /\ y = db'[d][s].del)
    BY <1>5, EditDates
  <2>3. u \in {Stamp, Stamp - Instants} => Time(u) = Stamp
    <3>1. Time(Stamp) = Stamp
      BY ConvTypes, StampIsNoPaste DEF Time
    <3>2. Stamp >= Instants /\ Instants \in Nat
      BY ConvTypes, StampFacts, MergeAssumption
    <3>3. IsPaste(Stamp - Instants)
      BY <1>2, <3>2, ConvTypes, StampIsNoPaste, StampFormats
    <3>4. Time(Stamp - Instants) = Stamp
      BY <1>2, <3>2, <3>3 DEF Time
    <3>5. QED
      BY <3>1, <3>4
  <2>4. QED
    BY <1>2, <1>3, <2>1, <2>2, <2>3
<1>6. QED
  BY <1>4, <1>5

LEMMA ConvInductive ==
    ASSUME DistinctContent, Expires = FALSE
    PROVE  Spec => []ConvInv
<1>1. Init => Numbered /\ ImportsAbsorbed /\ OneDeletion /\ \A d \in Devices : InHand(d)
  <2>1. SUFFICES ASSUME Init
                 PROVE  Numbered /\ ImportsAbsorbed /\ OneDeletion /\ \A d \in Devices : InHand(d)
    OBVIOUS
  <2>2. Snapshots = {}
    BY <2>1 DEF Init, Snapshots
  <2>3. Numbered /\ ImportsAbsorbed
    BY <2>1, <2>2 DEF Numbered, ImportsAbsorbed, Init
  <2>4. \A d \in Devices : InHand(d)
    BY <2>1 DEF InHand, Init, Idle
  <2>5. \A s \in SyncIds, u, x \in Nat : Seen(s, u, x) => u = 0 /\ x = 0
    BY <2>1, <2>2 DEF Seen, Dated, Init, Idle, NoRows, NoRow, NoSnapshot, NoItem
  <2>6. OneDeletion
    <3>1. now = Instants /\ Instants \in Nat /\ (Time(0) = 0 \/ Time(0) = Instants)
      BY <2>1, MergeAssumption DEF Init, Time
    <3>2. QED
      BY <2>5, <3>1 DEF OneDeletion
  <2>7. QED
    BY <2>3, <2>4, <2>6
<1>2. ASSUME ConvInv, [Next]_vars
      PROVE  (Numbered /\ ImportsAbsorbed /\ OneDeletion /\ \A d \in Devices : InHand(d))'
  BY <1>2, NumberedStep, ImportsStep, OneDeletionStep, InHandStep
<1>3. QED
  BY <1>1, <1>2, InductiveInvariant, PTL DEF Spec, ConvInv

\* Once every device has published its row of an item and imported what the others
\* published, they hold the same revision, and agree whether the item is deleted if it
\* was not pasted in that revision, unless a pin protects it (remote_wins,
\* mark_conflict and record_imported_snapshot), as long as nothing expires and no two
\* sync ids have the same content.
THEOREM Convergence ==
    ASSUME DistinctContent, Expires = FALSE
    PROVE  Spec => []Converged
<1>1. ASSUME ConvInv PROVE Converged
  <2>1. SUFFICES ASSUME NEW s \in SyncIds, \A d \in Devices : Settled(d, s) /\ ~db[d][s].pin,
                        NEW d \in Devices, NEW e \in Devices
                 PROVE  /\ db[d][s].rev = db[e][s].rev
                        /\ db[d][s].rev > pasted[s] => Live(db[d][s]) = Live(db[e][s])
    BY DEF Converged
  <2>2. pasted[s] \in Nat /\ \A f \in Devices : db[f][s] \in Row
    BY <1>1 DEF ConvInv, IInv, TypeOK, Table
  <2>3. ASSUME NEW f \in Devices, NEW g \in Devices
        PROVE  \/ db[f][s].rev = 0
               \/ db[g][s].rev > db[f][s].rev
               \/ /\ db[g][s].rev = db[f][s].rev
                  /\ db[g][s].upd >= db[f][s].upd \/ db[f][s].rev <= pasted[s]
    <3>1. PICK m \in Newest(f) : m.items[s] = Version(db[f][s])
      BY <2>1 DEF Settled
    <3>2. m \in Snapshots
      BY <3>1 DEF Newest, Snapshots
    <3>3. m.no \in imported[g]
      BY <2>1, <3>2 DEF Settled, Names
    <3>4. Absorbed(db[g][s], m.items[s], pasted[s])
      BY <1>1, <3>2, <3>3 DEF ConvInv, ImportsAbsorbed
    <3>5. m.items[s].rev = db[f][s].rev /\ m.items[s].upd = db[f][s].upd
      BY <3>1 DEF Version
    <3>6. ~db[g][s].pin
      BY <2>1
    <3>7. \/ ~(db[f][s].rev > 0)
          \/ db[g][s].rev > db[f][s].rev
          \/ /\ db[g][s].rev = db[f][s].rev
             /\ db[g][s].upd >= db[f][s].upd \/ db[f][s].rev <= pasted[s]
      BY <3>4, <3>5, <3>6, Zenon DEF Absorbed, Exists
    <3>8. db[f][s].rev \in Nat
      BY <2>2 DEF Row
    <3>9. QED
      BY <3>7, <3>8
  <2>4. /\ db[d][s].rev \in Nat /\ db[d][s].upd \in Nat /\ db[d][s].del \in Nat
        /\ db[e][s].rev \in Nat /\ db[e][s].upd \in Nat /\ db[e][s].del \in Nat
    BY <2>2 DEF Row
  <2>5. db[d][s].rev = db[e][s].rev
    BY <2>3, <2>4
  <2>6. db[d][s].rev > pasted[s] => db[d][s].del = db[e][s].del
    <3>1. db[d][s].rev > pasted[s] => db[d][s].upd = db[e][s].upd
      BY <2>2, <2>3, <2>4, <2>5
    <3>2. /\ Seen(s, db[d][s].upd, db[d][s].del)
          /\ Seen(s, db[e][s].upd, db[e][s].del)
      BY DEF Seen, Dated
    <3>3. QED
      BY <1>1, <2>4, <3>1, <3>2 DEF ConvInv, OneDeletion
  <2>7. db[d][s].rev > pasted[s] => Live(db[d][s]) = Live(db[e][s])
    BY <2>4, <2>5, <2>6 DEF Live
  <2>8. QED
    BY <2>5, <2>7
<1>2. QED
  BY <1>1, ConvInductive, PTL

=============================================================================
