------------------------------ MODULE History ------------------------------
(***************************************************************************)
(* The clipboard history of one device: the rows of clipboard_items with   *)
(* their formats and their full-text index, and everything that writes     *)
(* them: the clipboard worker (clipboard_service ingest), the commands of  *)
(* the user, the import of a package, the retention that the worker, the   *)
(* settings command and the start of the program run, and the cleanup of   *)
(* files, which takes the paths of deleted rows.                           *)
(*                                                                         *)
(* An ingest is a series of autocommitted statements, one step each; any   *)
(* of them may fail, which ends the ingest but not the program, and a      *)
(* crash may fall between any two.  Clear and retention are deferred       *)
(* transactions that read before they write: SQLite refuses the write      *)
(* (SQLITE_BUSY_SNAPSHOT) once any other connection has committed since    *)
(* the read.  Everything else is one write transaction.                    *)
(*                                                                         *)
(* Contents are abstract: two texts with one normal form are one content.  *)
(* sync columns, events and blobs are in SyncQueue, files in BlobFiles.    *)
(***************************************************************************)
EXTENDS Integers, FiniteSets

CONSTANTS
    Ids,          \* row ids (fresh UUIDs)
    Texts,        \* text contents
    Images,       \* image contents
    Limits,       \* values of max_history_items the user may set; 0: no limit
    MaxAge,       \* auto_delete_days, in clock ticks; 0: never
    Throttle,     \* RETENTION_MIN_INTERVAL_SECS, in clock ticks
    RemoteStamps, \* copied_at of rows of other devices, whose clocks may differ
    MaxTime,      \* bound on the clock
    MaxEdits,     \* bound on the commands of the user and the imported rows
    NoId,
    NoContent

ASSUME HistoryAssumption ==
    /\ IsFiniteSet(Ids) /\ NoId \notin Ids /\ NoContent \notin Texts \cup Images
    /\ Texts \cap Images = {}
    /\ Limits \subseteq Nat /\ Limits # {}
    /\ MaxAge \in Nat /\ Throttle \in Nat \ {0} /\ MaxTime \in Nat
    /\ MaxEdits \in Nat /\ RemoteStamps \subseteq Int

VARIABLES
    row,          \* clipboard_items with their payload format
    indexed,      \* item ids in clipboard_items_fts
    limit,        \* max_history_items in force
    dedup,        \* ignore_duplicate in force
    worker,       \* the clipboard worker and the locals of its ingest
    cleaner,      \* the settings command that enforces retention
    clearing,     \* clear_clipboard_history: "idle", or what it has selected
    outdated,     \* open read transactions that another commit has overtaken
    lastRetention,\* LAST_RETENTION_AT; -Throttle: not in this run of the program
    clock,
    edits,        \* commands and imported rows so far
    dead,         \* deleted rows whose data_path run_blob_cleanup has still to clear
    torn,         \* history: rows whose ingest was cut off by a failure or a crash
    revived,      \* history: rows that a merge of two deletions made live again
    cleared       \* history: rows whose data_path the cleanup cleared

db == <<row, indexed>>
settings == <<limit, dedup>>
history == <<torn, revived, cleared>>
vars == <<db, settings, worker, cleaner, clearing, outdated, lastRetention, clock, edits, dead,
          history>>

Contents == Texts \cup Images

\* copied: copied_at; body: a format row holds the text or the image's path.
Row == [state : {"none", "live", "deleted"}, content : Contents \cup {NoContent},
        pinned : BOOLEAN, copied : Int, body : BOOLEAN, origin : {"copy", "again", "import"}]
Absent == [state |-> "none", content |-> NoContent, pinned |-> FALSE,
           copied |-> 0, body |-> FALSE, origin |-> "copy"]

Phases == {"idle", "search", "touch", "insert", "formats", "index", "load", "retain"}
Ingest == [pc : Phases, content : Contents \cup {NoContent}, id : Ids \cup {NoId},
           at : Int, limit : Limits, dedup : BOOLEAN, doomed : SUBSET Ids]
Cleaner == [pc : {"idle", "retain"}, limit : Limits, doomed : SUBSET Ids]
Readers == {"worker", "settings", "clear"}

TypeOK ==
    /\ row \in [Ids -> Row]
    /\ indexed \subseteq Ids
    /\ limit \in Limits /\ dedup \in BOOLEAN
    /\ worker \in Ingest
    /\ cleaner \in Cleaner
    /\ clearing \in {"idle", "unpinned", "all"}
    /\ outdated \subseteq Readers
    /\ lastRetention \in Int
    /\ clock \in 0..MaxTime
    /\ edits \in 0..MaxEdits
    /\ dead \subseteq Ids
    /\ torn \subseteq Ids /\ revived \subseteq Ids /\ cleared \subseteq Ids

Idle == [pc |-> "idle", content |-> NoContent, id |-> NoId, at |-> 0,
         limit |-> limit, dedup |-> dedup, doomed |-> {}]

Init ==
    /\ row = [i \in Ids |-> Absent]
    /\ indexed = {}
    /\ limit \in Limits /\ dedup \in BOOLEAN
    /\ worker = Idle
    /\ cleaner = [pc |-> "idle", limit |-> limit, doomed |-> {}]
    /\ clearing = "idle"
    /\ outdated = {}
    /\ lastRetention = -Throttle
    /\ clock = 0
    /\ edits = 0
    /\ dead = {}
    /\ torn = {} /\ revived = {} /\ cleared = {}

Live == {i \in Ids : row[i].state = "live"}
Unpinned == {i \in Live : ~row[i].pinned}
Unused == {i \in Ids : row[i].state = "none"} \ {worker.id}   \* a UUID is fresh
Of(c) == {i \in Live : row[i].content = c}          \* find_existing_item_id

-----------------------------------------------------------------------------
(* What the user reads *)

\* search_items: a phrase is found in the columns of the row (LIKE), words that
\* stand apart only through the index.
FoundByPhrase(c) == Of(c)
FoundByWords(c) == {i \in Of(c) : i \in indexed}

\* The clipboard content a paste writes: the text format, for want of it the
\* row's normalized text; an image only from its file format.
Payload(i) == IF row[i].body \/ row[i].content \in Texts
              THEN row[i].content ELSE NoContent

-----------------------------------------------------------------------------
(* Transactions *)

Reading == (IF worker.pc = "retain" THEN {"worker"} ELSE {})
           \cup (IF cleaner.pc = "retain" THEN {"settings"} ELSE {})
           \cup (IF clearing # "idle" THEN {"clear"} ELSE {})

\* A commit of anybody but r overtakes every other open read transaction.
Commit(r) == outdated' = (outdated \cup Reading) \ {r}

Deleted(S) == [i \in Ids |-> IF i \in S THEN [row[i] EXCEPT !.state = "deleted"] ELSE row[i]]

Expired == IF MaxAge = 0 THEN {} ELSE {i \in Unpinned : row[i].copied < clock - MaxAge}

\* Beyond the newest max of the unpinned rows; the ids break ties.
Beyond(max, S) ==
    /\ S \subseteq Unpinned
    /\ IF max = 0 \/ Cardinality(Unpinned) <= max THEN S = {}
       ELSE /\ Cardinality(Unpinned \ S) = max
            /\ \A i \in S, j \in Unpinned \ S : row[i].copied <= row[j].copied

Selected(max, S) == \E T \in SUBSET Unpinned : Beyond(max, T) /\ S = Expired \cup T

\* The updates name the selected rows that are still live and not pinned.
Retained(S) == /\ row' = Deleted(S \cap Unpinned)
               /\ indexed' = indexed \ (S \cap Unpinned)

-----------------------------------------------------------------------------
(* The clipboard worker *)

At(pc) == worker.pc = pc
Go(w) == worker' = w

\* ingest_current_clipboard: a non-empty content, and the settings in force.
Read(c) ==
    /\ At("idle")
    /\ Go([Idle EXCEPT !.pc = "search", !.content = c])
    /\ UNCHANGED <<db, settings, cleaner, clearing, outdated, lastRetention, clock, history,
                   edits, dead>>

\* The stamp, then find_existing_item_id unless duplicates are kept.
MutSearchDuplicate ==
    /\ At("search")
    /\ \E i \in Unused : Go([worker EXCEPT !.pc = "insert", !.id = i, !.at = clock])
    /\ UNCHANGED <<db, settings, cleaner, clearing, outdated, lastRetention, clock, edits,
                   history, dead>>

SearchDuplicate ==
    /\ At("search")
    /\ IF worker.dedup /\ Of(worker.content) # {}
       THEN \E i \in Of(worker.content) :
                Go([worker EXCEPT !.pc = "touch", !.id = i, !.at = clock])
       ELSE \E i \in Unused :
                Go([worker EXCEPT !.pc = "insert", !.id = i, !.at = clock])
    /\ UNCHANGED <<db, settings, cleaner, clearing, outdated, lastRetention, clock, history,
                   edits, dead>>

\* The update names the row only while it is live; load_item follows.
Touch ==
    /\ At("touch")
    /\ IF worker.id \in Live
       THEN /\ row' = [row EXCEPT ![worker.id].copied = worker.at]
            /\ Commit("worker")
       ELSE UNCHANGED <<row, outdated>>
    /\ Go([worker EXCEPT !.pc = "load"])
    /\ UNCHANGED <<indexed, settings, cleaner, clearing, lastRetention, clock, history, edits,
                   dead>>

MutInsert ==
    /\ At("insert")
    /\ row' = [row EXCEPT ![worker.id] =
                 [state |-> "live", content |-> worker.content, pinned |-> FALSE,
                  copied |-> worker.at, body |-> FALSE,
                  origin |-> IF worker.dedup THEN "copy" ELSE "again"]]
    /\ Go([worker EXCEPT !.pc = "index"])
    /\ Commit("worker")
    /\ UNCHANGED <<indexed, settings, cleaner, clearing, lastRetention, clock, history, edits,
                   dead>>

Insert ==
    /\ At("insert")
    /\ row' = [row EXCEPT ![worker.id] =
                 [state |-> "live", content |-> worker.content, pinned |-> FALSE,
                  copied |-> worker.at, body |-> FALSE,
                  origin |-> IF worker.dedup THEN "copy" ELSE "again"]]
    /\ Go([worker EXCEPT !.pc = "formats"])
    /\ Commit("worker")
    /\ UNCHANGED <<indexed, settings, cleaner, clearing, lastRetention, clock, history, edits,
                   dead>>

\* clipboard_formats, whatever has become of the row.
MutAddFormats ==
    /\ At("formats")
    /\ row' = [row EXCEPT ![worker.id].body = TRUE]
    /\ Go([worker EXCEPT !.pc = "index", !.id = NoId])
    /\ Commit("worker")
    /\ UNCHANGED <<indexed, settings, cleaner, clearing, lastRetention, clock, history, edits,
                   dead>>

AddFormats ==
    /\ At("formats")
    /\ row' = [row EXCEPT ![worker.id].body = TRUE]
    /\ Go([worker EXCEPT !.pc = "index"])
    /\ Commit("worker")
    /\ UNCHANGED <<indexed, settings, cleaner, clearing, lastRetention, clock, history, edits,
                   dead>>

\* upsert_fts, whatever has become of the row; the event and the blobs follow.
Index ==
    /\ At("index")
    /\ indexed' = indexed \cup {worker.id}
    /\ Go([worker EXCEPT !.pc = "load"])
    /\ Commit("worker")
    /\ UNCHANGED <<row, settings, cleaner, clearing, lastRetention, clock, history, edits, dead>>

\* load_item fails when the row is gone: the worker reports an error.
LoadFails ==
    /\ At("load") /\ worker.id \notin Live
    /\ Go(Idle)
    /\ UNCHANGED <<db, settings, cleaner, clearing, outdated, lastRetention, clock, history,
                   edits, dead>>

\* maybe_enforce_history_retention within the throttle: the copy is reported.
Throttled ==
    /\ At("load") /\ worker.id \in Live
    /\ clock - lastRetention < Throttle
    /\ Go(Idle)
    /\ UNCHANGED <<db, settings, cleaner, clearing, outdated, lastRetention, clock, history,
                   edits, dead>>

\* Otherwise it stamps and selects.
StartRetention ==
    /\ At("load") /\ worker.id \in Live
    /\ clock - lastRetention >= Throttle
    /\ lastRetention' = clock
    /\ \E S \in SUBSET Ids : /\ Selected(worker.limit, S)
                             /\ Go([worker EXCEPT !.pc = "retain", !.doomed = S])
    /\ outdated' = outdated \ {"worker"}
    /\ UNCHANGED <<db, settings, cleaner, clearing, clock, history, edits, dead>>

\* The write phase: nothing to delete; refused because another commit came
\* between (the worker reports an error for a copy that is stored); or done.
MutFinishRetention ==
    /\ At("retain")
    /\ Retained(worker.doomed) /\ Commit("worker")
    /\ Go(Idle)
    /\ UNCHANGED <<settings, cleaner, clearing, lastRetention, clock, history, edits, dead>>

FinishRetention ==
    /\ At("retain")
    /\ IF worker.doomed = {} \/ "worker" \in outdated
       THEN UNCHANGED <<db, outdated>>
       ELSE Retained(worker.doomed) /\ Commit("worker")
    /\ Go(Idle)
    /\ UNCHANGED <<settings, cleaner, clearing, lastRetention, clock, history, edits, dead>>

\* A row without all its formats and its index entry is left behind.
CutOff == IF worker.pc \in {"formats", "index"} THEN torn \cup {worker.id} ELSE torn

\* A statement fails (the database is locked, the disk is full): ? returns the
\* error, and the worker waits for the next copy.
StatementFails ==
    /\ worker.pc # "idle"
    /\ torn' = CutOff
    /\ Go(Idle)
    /\ UNCHANGED <<db, settings, cleaner, clearing, outdated, lastRetention, clock, edits, dead,
                   revived, cleared>>

-----------------------------------------------------------------------------
(* The commands of the user *)

Edit == edits < MaxEdits /\ edits' = edits + 1

TogglePin(i) ==
    /\ Edit
    /\ i \in Live
    /\ row' = [row EXCEPT ![i].pinned = ~@]
    /\ Commit("pin")
    /\ UNCHANGED <<indexed, settings, worker, cleaner, clearing, lastRetention, clock, history,
                   dead>>

Delete(i) ==
    /\ Edit
    /\ i \in Live
    /\ row' = Deleted({i})
    /\ indexed' = indexed \ {i}
    /\ Commit("delete")
    /\ UNCHANGED <<settings, worker, cleaner, clearing, lastRetention, clock, history, dead>>

\* clear_clipboard_history reads the ids,
StartClear(what) ==
    /\ Edit
    /\ clearing = "idle"
    /\ clearing' = what
    /\ outdated' = outdated \ {"clear"}
    /\ UNCHANGED <<db, settings, worker, cleaner, lastRetention, clock, history, dead>>

\* and deletes them; it fails when another commit came between.
FinishClear ==
    /\ clearing # "idle"
    /\ clearing' = "idle"
    /\ LET S == IF clearing = "all" THEN Live ELSE Unpinned
       IN IF "clear" \in outdated \/ S = {}
          THEN UNCHANGED <<db, outdated>>
          ELSE row' = Deleted(S) /\ indexed' = indexed \ S /\ Commit("clear")
    /\ UNCHANGED <<settings, worker, cleaner, lastRetention, clock, history, edits, dead>>

\* update_cliply_settings: saved first, then enforced without the throttle.
SaveSettings(max, unique) ==
    /\ Edit
    /\ cleaner.pc = "idle"
    /\ limit' = max /\ dedup' = unique
    /\ lastRetention' = clock
    /\ \E S \in SUBSET Ids :
          /\ Selected(max, S)
          /\ cleaner' = [pc |-> "retain", limit |-> max, doomed |-> S]
    /\ outdated' = (outdated \cup Reading) \ {"settings"}
    /\ UNCHANGED <<db, worker, clearing, clock, history, dead>>

Enforce ==
    /\ cleaner.pc = "retain"
    /\ IF cleaner.doomed = {} \/ "settings" \in outdated
       THEN UNCHANGED <<db, outdated>>
       ELSE Retained(cleaner.doomed) /\ Commit("settings")
    /\ cleaner' = [cleaner EXCEPT !.pc = "idle", !.doomed = {}]
    /\ UNCHANGED <<settings, worker, clearing, lastRetention, clock, history, edits, dead>>

-----------------------------------------------------------------------------
(* A package is imported: one transaction per item stands for the whole one *)

\* The text is in the package if the sender has it; the files of images are not.
Sent(c) == IF c \in Texts THEN BOOLEAN ELSE {FALSE}

\* insert_remote_item: no row has this content.
ImportNew(i, c, state, t, pin) ==
    /\ Edit
    /\ i \in Unused
    /\ \A j \in Ids : row[j].content # c
    /\ \E sent \in Sent(c) :
         row' = [row EXCEPT ![i] = [state |-> state, content |-> c, pinned |-> pin,
                                    copied |-> t, body |-> sent, origin |-> "import"]]
    /\ indexed' = IF state = "live" THEN indexed \cup {i} ELSE indexed
    /\ Commit("import")
    /\ UNCHANGED <<settings, worker, cleaner, clearing, lastRetention, clock, history, dead>>

\* update_existing_item, by sync id or over a deleted row of this content.
MutImportUpdate(i, state, t, pin) ==
    /\ Edit
    /\ row[i].state # "none"
    /\ ~(state = "deleted" /\ row[i].pinned)
    /\ \E sent \in IF row[i].content \in Texts THEN BOOLEAN ELSE {row[i].body} :
         row' = [row EXCEPT ![i].state = state, ![i].copied = t, ![i].origin = "import",
                            ![i].pinned = @ \/ pin, ![i].body = sent]
    /\ indexed' = indexed \ {i}
    /\ Commit("import")
    /\ UNCHANGED <<settings, worker, cleaner, clearing, lastRetention, clock, history, dead>>

ImportUpdate(i, state, t, pin) ==
    /\ Edit
    /\ row[i].state # "none"
    /\ ~(state = "deleted" /\ row[i].pinned)
    /\ \E sent \in IF row[i].content \in Texts THEN BOOLEAN ELSE {row[i].body} :
         row' = [row EXCEPT ![i].state = state, ![i].copied = t, ![i].origin = "import",
                            ![i].pinned = @ \/ pin, ![i].body = sent]
    /\ indexed' = IF state = "live" THEN indexed \cup {i} ELSE indexed \ {i}
    /\ Commit("import")
    /\ UNCHANGED <<settings, worker, cleaner, clearing, lastRetention, clock, history, dead>>

\* merge_duplicate_by_hash with a copy of another sync id, live or deleted: the
\* index is left as it is, and a row that is pinned is live after a tombstone, even
\* if it was deleted.  (A live copy of a deleted row is an update.)
ImportDuplicate(i, state, pin) ==
    /\ Edit
    /\ IF state = "live" THEN i \in Live
       ELSE row[i].state # "none" /\ (row[i].state = "deleted" => Of(row[i].content) = {})
    /\ row' = [row EXCEPT ![i].pinned = @ \/ pin,
                          ![i].state = IF row[i].pinned THEN "live" ELSE state]
    /\ revived' = IF row[i].state = "deleted" /\ row[i].pinned
                  THEN revived \cup {i} ELSE revived
    /\ Commit("import")
    /\ UNCHANGED <<indexed, settings, worker, cleaner, clearing, lastRetention, clock,
                   torn, cleared, dead>>

-----------------------------------------------------------------------------
(* The cleanup of files, after every start: remove_deleted_item_files *)

\* It lists the image files of deleted rows (a list of none changes nothing; a start
\* may come at any time, so that the runs are not counted),
ListDeleted ==
    /\ dead = {}
    /\ dead' = {i \in Ids : row[i].state = "deleted" /\ row[i].content \in Images /\ row[i].body}
    /\ dead' # {}
    /\ UNCHANGED <<db, settings, worker, cleaner, clearing, outdated, lastRetention, clock,
                   edits, history>>

\* and clears each path by a statement of its own, whatever has become of the row.
ClearPath(i) ==
    /\ i \in dead
    /\ dead' = dead \ {i}
    /\ row' = [row EXCEPT ![i].body = FALSE]
    /\ cleared' = cleared \cup {i}
    /\ Commit("cleanup")
    /\ UNCHANGED <<indexed, settings, worker, cleaner, clearing, lastRetention, clock, edits, torn,
                   revived>>

-----------------------------------------------------------------------------
Tick ==
    /\ clock < MaxTime
    /\ clock' = clock + 1
    /\ UNCHANGED <<db, settings, worker, cleaner, clearing, outdated, lastRetention, history,
                   edits, dead>>

\* The program ends at any point; when it starts it enforces the retention
\* before any other thread runs.
Restart ==
    /\ torn' = CutOff
    /\ worker' = Idle
    /\ cleaner' = [pc |-> "idle", limit |-> limit, doomed |-> {}]
    /\ clearing' = "idle" /\ outdated' = {}
    /\ lastRetention' = clock
    /\ \E S \in SUBSET Ids : Selected(limit, S) /\ Retained(S)
    /\ dead' = {}
    /\ UNCHANGED <<settings, clock, edits, revived, cleared>>

WorkerStep ==
    \/ \E c \in Contents : Read(c)
    \/ SearchDuplicate \/ Touch \/ Insert \/ AddFormats \/ Index
    \/ LoadFails \/ Throttled \/ StartRetention \/ FinishRetention \/ StatementFails

UserStep ==
    \/ \E i \in Ids : TogglePin(i) \/ Delete(i)
    \/ \E what \in {"unpinned", "all"} : StartClear(what)
    \/ FinishClear
    \/ \E max \in Limits, unique \in BOOLEAN : SaveSettings(max, unique)
    \/ Enforce

ImportStep ==
    \E i \in Ids, state \in {"live", "deleted"}, pin \in BOOLEAN :
        \/ \E c \in Contents, t \in RemoteStamps : ImportNew(i, c, state, t, pin)
        \/ \E t \in RemoteStamps : ImportUpdate(i, state, t, pin)
        \/ ImportDuplicate(i, state, pin)

CleanupStep == ListDeleted \/ \E i \in Ids : ClearPath(i)

Next == WorkerStep \/ UserStep \/ ImportStep \/ CleanupStep \/ Tick \/ Restart

Spec == Init /\ [][Next]_vars

-----------------------------------------------------------------------------
(* Properties *)

\* A live row whose payload is missing is being ingested, was cut off by a failing
\* statement or a crash, is a row whose payload another device still has to send,
\* or was revived by a merge of deletions around the cleanup that took its path; and
\* of those only images cannot be pasted (ingest_text_snapshot, paste_item).
PayloadMissingOnlyWhenCut ==
    \A i \in Live :
        /\ ~row[i].body => \/ i \in torn \/ row[i].origin = "import"
                           \/ (worker.id = i /\ At("formats"))
                           \/ i \in revived \cap cleared
        /\ Payload(i) # row[i].content => row[i].content \in Images

\* Every live row is found by its words, except while it is ingested, when a failing
\* statement or a crash cut its ingest off, or when a merge of two deletions revived it.
WordsFindRow ==
    \A i \in Live :
        \/ i \in FoundByWords(row[i].content)
        \/ i \in torn \cup revived
        \/ (worker.id = i /\ worker.pc \in {"formats", "index"})

\* Two live rows have one content only if one was copied while duplicates
\* were kept, came from another device, or was revived by a merge.
DuplicatesExplained ==
    \A i, j \in Live :
        i # j /\ row[i].content = row[j].content =>
            \E k \in {i, j} : row[k].origin # "copy" \/ k \in revived

\* When retention deletes, then the rows it leaves are within the limit it was
\* run with, what it deletes is expired or not newer than anything it leaves,
\* and no pinned row is touched: as if it had selected at that instant.
Gone == {i \in Live : row'[i].state = "deleted"}
Left == {i \in Unpinned : row'[i].state = "live"}
Exact(max) ==
    Gone # {} =>
        /\ Gone \subseteq Unpinned
        /\ max = 0 \/ Cardinality(Left) <= max
        /\ \A i \in Gone, j \in Left :
              (MaxAge # 0 /\ row[i].copied < clock - MaxAge) \/ row[i].copied <= row[j].copied
RetentionIsExact ==
    [][/\ FinishRetention => Exact(worker.limit)
       /\ Enforce => Exact(cleaner.limit)]_vars
=============================================================================
