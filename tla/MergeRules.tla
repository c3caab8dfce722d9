----------------------------- MODULE MergeRules -----------------------------
(***************************************************************************)
(* How sync_merge_service merges one item of a sync package into the rows  *)
(* of a device.  A row is found by its sync id, else by the hash of its    *)
(* content; revision and updated_at decide which version wins; a local pin *)
(* is never taken away.                                                    *)
(*                                                                         *)
(* A table is a function from sync ids to rows (sync_id is UNIQUE).  Title,*)
(* formats and tags follow the version that wins and are left out; the     *)
(* content of a sync id never changes, so its hash is a constant.          *)
(***************************************************************************)
EXTENDS Naturals

CONSTANTS
    SyncIds,     \* values of clipboard_items.sync_id
    HashOf,      \* HashOf[s]: hash of the content that was captured under s
    Instants     \* bound on the changes the clock tells apart in one day

ASSUME MergeAssumption == Instants \in Nat \ {0}

(***************************************************************************)
(* updated_at is a string, and most stamps are RFC 3339, with a T between  *)
(* date and time.  A paste writes datetime('now'), with a space: as a      *)
(* string it is smaller than every RFC 3339 stamp of its day.  A stamp is  *)
(* its place in the order of the strings: a day has Instants places for    *)
(* the pastes, then as many for the other stamps.  SQLite's datetime() and *)
(* julianday() read the time off either format.                            *)
(***************************************************************************)
IsPaste(stamp) == stamp % (2 * Instants) < Instants

Time(stamp) == IF IsPaste(stamp) THEN stamp + Instants ELSE stamp

\* A version of an item; rev = 0: there is none, del = 0: it is not deleted.
Item == [rev : Nat, upd : Nat, pin : BOOLEAN, del : Nat]
Row == [rev : Nat, upd : Nat, pin : BOOLEAN, del : Nat,
        status : {"none", "pending", "synced", "conflicted"}]
Table == [SyncIds -> Row]

NoItem == [rev |-> 0, upd |-> 0, pin |-> FALSE, del |-> 0]
NoRow == [rev |-> 0, upd |-> 0, pin |-> FALSE, del |-> 0, status |-> "none"]

Exists(v) == v.rev > 0
Live(v) == v.rev > 0 /\ v.del = 0
Tombstone(v) == v.rev > 0 /\ v.del > 0

Larger(a, b) == IF a > b THEN a ELSE b

\* remote_wins compares the strings.
MutRemoteWins(local, remote) == remote.upd > local.upd

RemoteWins(local, remote) ==
    \/ remote.rev > local.rev
    \/ remote.rev = local.rev /\ remote.upd > local.upd

-----------------------------------------------------------------------------

\* update_existing_item: the row of sync id s becomes the version v of sync id
\* t, and stays pinned if it was.
Updated(table, s, t, v) ==
    [table EXCEPT ![s] = NoRow,
                  ![t] = [rev |-> v.rev, upd |-> v.upd, pin |-> table[s].pin \/ v.pin,
                          del |-> v.del, status |-> "pending"]]

\* insert_remote_item.
MutInserted(table, t, v) == [table EXCEPT ![t] = v]

MutInsertedLive(table, t, v) ==
    [table EXCEPT ![t] = [rev |-> v.rev, upd |-> v.upd, pin |-> v.pin,
                          del |-> 0, status |-> "pending"]]

Inserted(table, t, v) ==
    [table EXCEPT ![t] = [rev |-> v.rev, upd |-> v.upd, pin |-> v.pin,
                          del |-> v.del, status |-> "pending"]]

\* merge_deleted_at.
MutMergedDeletion(row, v) == Larger(row.del, v.del)

MergedDeletion(row, v) ==
    IF row.pin /\ v.del > 0 THEN 0 ELSE Larger(row.del, v.del)

\* merge_duplicate_by_hash: row s keeps its identity and content.
Deduplicated(table, s, v) ==
    [table EXCEPT ![s] = [rev |-> Larger(table[s].rev, v.rev),
                          upd |-> Larger(table[s].upd, v.upd),
                          pin |-> table[s].pin \/ v.pin,
                          del |-> MergedDeletion(table[s], v),
                          status |-> "pending"]]

\* mark_conflict (its event is the caller's).
Conflicted(table, t, v) ==
    [table EXCEPT ![t].status = "conflicted", ![t].rev = Larger(@, v.rev)]

\* merge_item: a remote tombstone meets a row that is pinned here.
MutIsConflict(table, t, v) == FALSE

IsConflict(table, t, v) ==
    /\ Exists(table[t]) /\ RemoteWins(table[t], v)
    /\ v.del > 0 /\ table[t].pin

\* find_local_item_by_hash: live rows first, then the newest by datetime().
SameContent(table, t) == {s \in SyncIds : Exists(table[s]) /\ HashOf[s] = HashOf[t]}

FoundByHash(table, t) ==
    {s \in SameContent(table, t) :
        \A r \in SameContent(table, t) :
            \/ Live(table[s]) /\ ~Live(table[r])
            \/ /\ Live(table[s]) = Live(table[r])
               /\ Time(table[s].upd) >= Time(table[r].upd)}

\* merge_item: the tables that merging version v of sync id t may lead to.
Merged(table, t, v) ==
    IF Exists(table[t])
    THEN {IF ~RemoteWins(table[t], v) THEN table
          ELSE IF IsConflict(table, t, v) THEN Conflicted(table, t, v)
          ELSE Updated(table, t, t, v)}
    ELSE IF SameContent(table, t) = {} THEN {Inserted(table, t, v)}
    ELSE {IF Tombstone(table[s]) /\ v.del = 0 THEN Updated(table, s, t, v)
          ELSE Deduplicated(table, s, v) : s \in FoundByHash(table, t)}

=============================================================================
