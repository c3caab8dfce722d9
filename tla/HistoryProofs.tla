---------------------------- MODULE HistoryProofs -----------------------------
(***************************************************************************)
(* What an ingest, a command of the user, an import, a crash and the       *)
(* retention may not do to the history in whatever order their statements  *)
(* fall, for every finite set of rows, all contents and limits, and        *)
(* without a bound on what happens.                                        *)
(***************************************************************************)
EXTENDS History, FiniteSetTheorems, TLAPS

(* Types *)

\* The worker knows the row it writes to.
Named == worker.pc \notin {"idle", "search"} => worker.id \in Ids

Typed == TypeOK /\ Named

LEMMA TypedStart == Init => Typed
<1> SUFFICES ASSUME Init PROVE Typed
  OBVIOUS
<1>1. row \in [Ids -> Row]
  BY DEF Init, Row, Absent
<1>2. worker \in Ingest /\ cleaner \in Cleaner /\ Named
  BY DEF Init, Ingest, Cleaner, Phases, Idle, Named
<1> QED BY <1>1, <1>2, HistoryAssumption DEF Typed, TypeOK, Init

\* Deleting rows and reading the settings keep the types.
LEMMA DeletedType == ASSUME TypeOK, NEW S PROVE Deleted(S) \in [Ids -> Row]
BY DEF Deleted, TypeOK, Row

\* The fields of a row that a statement sets.
LEMMA RowField ==
    ASSUME NEW r \in Row
    PROVE  /\ \A b \in BOOLEAN : [r EXCEPT !.body = b] \in Row /\ [r EXCEPT !.pinned = b] \in Row
           /\ \A t \in Int : [r EXCEPT !.copied = t] \in Row
           /\ \A x \in {"none", "live", "deleted"} : [r EXCEPT !.state = x] \in Row
           /\ [r EXCEPT !.origin = "import"] \in Row
BY Zenon DEF Row

LEMMA IdleType == TypeOK => Idle \in Ingest /\ Idle.pc = "idle"
BY HistoryAssumption DEF TypeOK, Idle, Ingest, Phases

LEMMA CommitType == ASSUME TypeOK, NEW r, Commit(r) PROVE outdated' \subseteq Readers
BY DEF TypeOK, Commit, Reading, Readers

\* Retention selects rows.
LEMMA SelectedType == ASSUME NEW max, NEW S, Selected(max, S) PROVE S \subseteq Unpinned
BY DEF Selected, Expired, Beyond

LEMMA TypedWorker == Typed /\ WorkerStep => Typed'
<1> SUFFICES ASSUME TypeOK, Named, WorkerStep PROVE TypeOK' /\ Named'
  BY DEF Typed
<1> USE HistoryAssumption
<1> DEFINE Same == UNCHANGED <<row, indexed, outdated, settings, cleaner, clearing, lastRetention, clock, edits, history>>
<1>1. ASSUME NEW c \in Contents, Read(c) PROVE TypeOK' /\ Named'
  <2>1. worker' \in Ingest /\ Named'
    BY <1>1, IdleType DEF Read, At, Go, Named, Ingest, Phases
  <2> QED BY <1>1, <2>1 DEF Read, TypeOK, db, settings, history
<1>2. CASE SearchDuplicate
  <2>1. PICK pc \in {"touch", "insert"}, i \in Ids :
          worker' = [worker EXCEPT !.pc = pc, !.id = i, !.at = clock]
    BY <1>2 DEF SearchDuplicate, Go, Of, Live, Unused
  <2>2. worker' \in Ingest
    <3>1. \A p \in Phases, j \in Ids \cup {NoId}, t \in Int :
             [worker EXCEPT !.pc = p, !.id = j, !.at = t] \in Ingest
      BY Zenon DEF TypeOK, Ingest
    <3>2. pc \in Phases /\ clock \in Int
      BY DEF Phases, TypeOK
    <3> QED BY <2>1, <3>1, <3>2
  <2>3. Named'
    BY <2>1 DEF TypeOK, Named, Ingest
  <2> QED BY <1>2, <2>2, <2>3 DEF SearchDuplicate, TypeOK, db, settings, history
<1>3. ASSUME NEW pc \in Phases, worker.pc \notin {"idle", "search"},
             worker' = [worker EXCEPT !.pc = pc]
      PROVE  worker' \in Ingest /\ Named'
  BY <1>3 DEF TypeOK, Named, Ingest
<1>4. CASE Touch
  <2>1. worker' \in Ingest /\ Named'
    BY <1>3, <1>4 DEF Touch, At, Go, Phases
  <2>2. row' \in [Ids -> Row] /\ outdated' \subseteq Readers
    BY <1>4, CommitType DEF Touch, TypeOK, Row, Ingest, Live
  <2> QED BY <1>4, <2>1, <2>2 DEF Touch, TypeOK, settings, history
<1>5. CASE Insert
  <2>1. worker' \in Ingest /\ Named'
    BY <1>3, <1>5 DEF Insert, At, Go, Phases
  <2>2. row' \in [Ids -> Row] /\ outdated' \subseteq Readers
    BY <1>5, CommitType DEF Insert, TypeOK, Row, Ingest
  <2> QED BY <1>5, <2>1, <2>2 DEF Insert, TypeOK, settings, history
<1>6. CASE AddFormats
  <2>1. worker' \in Ingest /\ Named'
    BY <1>3, <1>6 DEF AddFormats, At, Go, Phases
  <2>2. row' \in [Ids -> Row] /\ outdated' \subseteq Readers
    <3>1. \A i \in Ids : [row[i] EXCEPT !.body = TRUE] \in Row
      BY RowField DEF TypeOK
    <3> QED BY <1>6, <3>1, CommitType DEF AddFormats, TypeOK
  <2> QED BY <1>6, <2>1, <2>2 DEF AddFormats, TypeOK, settings, history
<1>7. CASE Index
  <2>1. worker' \in Ingest /\ Named'
    BY <1>3, <1>7 DEF Index, At, Go, Phases
  <2>2. indexed' \subseteq Ids /\ outdated' \subseteq Readers
    BY <1>7, CommitType DEF Index, At, Named, TypeOK
  <2> QED BY <1>7, <2>1, <2>2 DEF Index, TypeOK, settings, history
<1>8. ASSUME Go(Idle), UNCHANGED <<settings, cleaner, clearing, clock, edits, dead, revived, cleared>>,
             torn' \subseteq Ids, lastRetention' \in Int, row' \in [Ids -> Row], indexed' \subseteq Ids,
             outdated' \subseteq Readers
      PROVE  TypeOK' /\ Named'
  BY <1>8, IdleType DEF Go, TypeOK, Named, settings
<1>9. CASE LoadFails \/ Throttled
  BY <1>8, <1>9 DEF LoadFails, Throttled, TypeOK, db, history
<1>10. CASE StartRetention
  <2>1. PICK S \in SUBSET Ids : worker' = [worker EXCEPT !.pc = "retain", !.doomed = S]
    BY <1>10 DEF StartRetention, Go
  <2>2. worker' \in Ingest /\ Named'
    BY <1>10, <2>1 DEF StartRetention, At, TypeOK, Named, Ingest, Phases
  <2> QED BY <1>10, <2>2 DEF StartRetention, TypeOK, db, settings, history
<1>11. CASE FinishRetention
  <2>1. row' \in [Ids -> Row] /\ indexed' \subseteq Ids /\ outdated' \subseteq Readers
    BY <1>11, CommitType, DeletedType DEF FinishRetention, Retained, TypeOK, db
  <2> QED BY <1>8, <1>11, <2>1 DEF FinishRetention, TypeOK, history
<1>12. CASE StatementFails
  <2>1. torn' \subseteq Ids
    BY <1>12 DEF StatementFails, CutOff, TypeOK, Named
  <2> QED BY <1>8, <1>12, <2>1 DEF StatementFails, TypeOK, db
<1> QED
  BY <1>1, <1>2, <1>4, <1>5, <1>6, <1>7, <1>9, <1>10, <1>11, <1>12 DEF WorkerStep

LEMMA EditType == TypeOK /\ Edit => edits' \in 0..MaxEdits
BY HistoryAssumption DEF TypeOK, Edit

LEMMA TypedUser == Typed /\ UserStep => Typed'
<1> SUFFICES ASSUME TypeOK, Named, UserStep PROVE TypeOK' /\ Named'
  BY DEF Typed
<1> USE HistoryAssumption
<1>1. ASSUME NEW i \in Ids, TogglePin(i) PROVE TypeOK' /\ Named'
  <2>1. row' \in [Ids -> Row] /\ outdated' \subseteq Readers
    <3>1. (~row[i].pinned) \in BOOLEAN
      OBVIOUS
    <3>2. [row[i] EXCEPT !.pinned = ~@] \in Row
      BY <3>1, RowField DEF TypeOK
    <3> QED BY <1>1, <3>2, CommitType DEF TogglePin, TypeOK
  <2> QED BY <1>1, <2>1, EditType DEF TogglePin, TypeOK, Named, settings, history
<1>2. ASSUME NEW i \in Ids, Delete(i) PROVE TypeOK' /\ Named'
  <2>1. row' \in [Ids -> Row] /\ outdated' \subseteq Readers
    BY <1>2, CommitType, DeletedType DEF Delete
  <2> QED BY <1>2, <2>1, EditType DEF Delete, TypeOK, Named, settings, history
<1>3. ASSUME NEW what \in {"unpinned", "all"}, StartClear(what) PROVE TypeOK' /\ Named'
  BY <1>3, EditType DEF StartClear, TypeOK, Named, db, settings, history
<1>4. CASE FinishClear
  <2>1. row' \in [Ids -> Row] /\ indexed' \subseteq Ids /\ outdated' \subseteq Readers
    BY <1>4, CommitType, DeletedType DEF FinishClear, TypeOK, db
  <2> QED BY <1>4, <2>1 DEF FinishClear, TypeOK, Named, settings, history
<1>5. ASSUME NEW max \in Limits, NEW unique \in BOOLEAN, SaveSettings(max, unique)
      PROVE  TypeOK' /\ Named'
  <2>1. cleaner' \in Cleaner
    BY <1>5 DEF SaveSettings, Cleaner
  <2>2. outdated' \subseteq Readers
    BY <1>5 DEF SaveSettings, Reading, Readers, TypeOK
  <2> QED BY <1>5, <2>1, <2>2, EditType DEF SaveSettings, TypeOK, Named, db, history
<1>6. CASE Enforce
  <2>1. row' \in [Ids -> Row] /\ indexed' \subseteq Ids /\ outdated' \subseteq Readers
    BY <1>6, CommitType, DeletedType DEF Enforce, Retained, TypeOK, db
  <2>2. cleaner' \in Cleaner
    BY <1>6 DEF Enforce, TypeOK, Cleaner
  <2> QED BY <1>6, <2>1, <2>2 DEF Enforce, TypeOK, Named, settings, history
<1> QED BY <1>1, <1>2, <1>3, <1>4, <1>5, <1>6 DEF UserStep

LEMMA TypedImport == Typed /\ ImportStep => Typed'
<1> SUFFICES ASSUME TypeOK, Named, ImportStep PROVE TypeOK' /\ Named'
  BY DEF Typed
<1> USE HistoryAssumption
<1>1. PICK i \in Ids, state \in {"live", "deleted"}, pin \in BOOLEAN :
        \/ \E c \in Contents, t \in RemoteStamps : ImportNew(i, c, state, t, pin)
        \/ \E t \in RemoteStamps : ImportUpdate(i, state, t, pin)
        \/ ImportDuplicate(i, state, pin)
  BY DEF ImportStep
<1>2. RemoteStamps \subseteq Int
  OBVIOUS
<1>3. ASSUME NEW c \in Contents, NEW t \in RemoteStamps, ImportNew(i, c, state, t, pin) PROVE TypeOK' /\ Named'
  <2>1. row' \in [Ids -> Row] /\ outdated' \subseteq Readers
    <3>1. PICK sent \in BOOLEAN :
            row' = [row EXCEPT ![i] = [state |-> state, content |-> c, pinned |-> pin,
                                       copied |-> t, body |-> sent, origin |-> "import"]]
      BY <1>3 DEF ImportNew, Sent
    <3>2. [state |-> state, content |-> c, pinned |-> pin,
           copied |-> t, body |-> sent, origin |-> "import"] \in Row
      BY <1>2, Zenon DEF Row
    <3> QED BY <1>3, <3>1, <3>2, CommitType DEF ImportNew, TypeOK
  <2> QED BY <1>3, <2>1, EditType DEF ImportNew, TypeOK, Named, settings, history
<1>4. ASSUME NEW t \in RemoteStamps, ImportUpdate(i, state, t, pin) PROVE TypeOK' /\ Named'
  <2>1. PICK sent \in BOOLEAN :
          row' = [row EXCEPT ![i].state = state, ![i].copied = t, ![i].origin = "import",
                             ![i].pinned = @ \/ pin, ![i].body = sent]
    BY <1>4 DEF ImportUpdate, TypeOK, Row
  <2>2. row' \in [Ids -> Row] /\ outdated' \subseteq Readers
    <3> DEFINE new == [row[i] EXCEPT !.state = state, !.copied = t, !.origin = "import",
                                     !.pinned = row[i].pinned \/ pin, !.body = sent]
    <3>1. new \in Row
      BY <1>2, RowField DEF TypeOK
    <3>2. row' = [row EXCEPT ![i] = new]
      BY <2>1 DEF TypeOK
    <3> HIDE DEF new
    <3> QED BY <1>4, <3>1, <3>2, CommitType DEF ImportUpdate, TypeOK
  <2> QED BY <1>4, <2>2, EditType DEF ImportUpdate, TypeOK, Named, settings, history
<1>5. CASE ImportDuplicate(i, state, pin)
  <2>1. row' \in [Ids -> Row] /\ outdated' \subseteq Readers
    <3> DEFINE new == [row[i] EXCEPT !.pinned = row[i].pinned \/ pin,
                                     !.state = IF row[i].pinned THEN "live" ELSE state]
    <3>1. (row[i].pinned \/ pin) \in BOOLEAN
          /\ (IF row[i].pinned THEN "live" ELSE state) \in {"none", "live", "deleted"}
      OBVIOUS
    <3>2. [row[i] EXCEPT !.pinned = row[i].pinned \/ pin] \in Row
      BY <3>1, RowField DEF TypeOK
    <3>3. new \in Row
      BY <3>1, <3>2, RowField
    <3>4. row' = [row EXCEPT ![i] = new]
      BY <1>5 DEF ImportDuplicate, TypeOK
    <3> HIDE DEF new
    <3> QED BY <1>5, <3>3, <3>4, CommitType DEF ImportDuplicate, TypeOK
  <2> QED BY <1>5, <2>1, EditType DEF ImportDuplicate, TypeOK, Named, settings
<1> QED BY <1>1, <1>3, <1>4, <1>5

LEMMA TypedStep == Typed /\ [Next]_vars => Typed'
<1> SUFFICES ASSUME TypeOK, Named, [Next]_vars PROVE TypeOK' /\ Named'
  BY DEF Typed
<1> USE HistoryAssumption
<1>1. CASE UNCHANGED vars
  BY <1>1 DEF vars, db, settings, history, TypeOK, Named
<1>2. CASE Tick
  BY <1>2 DEF Tick, db, settings, history, TypeOK, Named
<1>3. CASE Restart
  <2>1. row' \in [Ids -> Row] /\ indexed' \subseteq Ids
    BY <1>3, DeletedType DEF Restart, Retained, TypeOK
  <2>2. torn' \subseteq Ids
    BY <1>3 DEF Restart, CutOff, TypeOK, Named
  <2>3. worker' \in Ingest /\ Named'
    BY <1>3, IdleType DEF Restart, Named
  <2>4. cleaner' \in Cleaner
    BY <1>3 DEF Restart, TypeOK, Cleaner
  <2> QED BY <1>3, <2>1, <2>2, <2>3, <2>4 DEF Restart, TypeOK, settings
<1>4. CASE CleanupStep
  <2>1. CASE ListDeleted
    BY <2>1 DEF ListDeleted, db, settings, history, TypeOK, Named
  <2>2. ASSUME NEW i \in Ids, ClearPath(i) PROVE TypeOK' /\ Named'
    <3>1. [row[i] EXCEPT !.body = FALSE] \in Row
      BY RowField DEF TypeOK
    <3>2. outdated' \subseteq Readers
      BY <2>2, CommitType DEF ClearPath
    <3> QED BY <2>2, <3>1, <3>2 DEF ClearPath, settings, TypeOK, Named
  <2> QED BY <1>4, <2>1, <2>2 DEF CleanupStep
<1> QED BY <1>1, <1>2, <1>3, <1>4, TypedWorker, TypedUser, TypedImport DEF Next, Typed

\* Every variable keeps its type, and the worker names the row it writes to.
THEOREM TypeCorrect == Spec => []TypeOK
<1>1. Typed => TypeOK
  BY DEF Typed
<1> QED BY <1>1, TypedStart, TypedStep, PTL DEF Spec

-----------------------------------------------------------------------------
(* Payloads, index and duplicates *)

\* Rows keep these facts when they are deleted, so that they hold again when an
\* import makes them live.
Covered ==
    \A i \in Ids : row[i].state # "none" /\ ~row[i].body =>
        \/ i \in torn \/ row[i].origin = "import" \/ (worker.id = i /\ worker.pc = "formats")
        \/ i \in cleared

\* The cleanup takes the paths of deleted rows; those that are live again came back
\* by an import or a merge of deletions.
Taken ==
    /\ \A i \in dead \cup cleared :
          /\ row[i].state # "none"
          /\ row[i].state = "live" => row[i].origin = "import" \/ i \in revived
    /\ worker.pc = "insert" => row[worker.id].state = "none"

\* Who holds another row of this content, and why.
Searched ==
    worker.pc = "insert" /\ worker.dedup =>
        \A j \in Live : row[j].content = worker.content => row[j].origin # "copy" \/ j \in revived

Told == Covered /\ Taken /\ WordsFindRow /\ DuplicatesExplained /\ Searched

LEMMA ToldStart == Init => Told
BY DEF Init, Told, Covered, Taken, WordsFindRow, DuplicatesExplained, Searched, Live, Idle, Absent

\* Most steps make no row live, change no content and no origin, and lose a
\* payload or a word only of rows that are gone.
LEMMA Tame ==
    ASSUME Typed, Typed', Told,
           \A i \in Ids : /\ row'[i].state = "live" => row[i].state = "live"
                          /\ row'[i].state # "none" <=> row[i].state # "none"
                          /\ row'[i].content = row[i].content
                          /\ row'[i].origin = row[i].origin
                          /\ row[i].body => row'[i].body
                          /\ row'[i].state = "live" /\ i \in indexed => i \in indexed',
           torn \subseteq torn', revived \subseteq revived', cleared' = cleared, dead' \subseteq dead,
           worker'.pc = "insert" => worker' = worker,
           worker.pc = "formats" => \/ worker' = worker
                                    \/ row'[worker.id].body \/ worker.id \in torn',
           worker.pc \in {"formats", "index"} =>
               \/ worker'.id = worker.id /\ worker'.pc \in {"formats", "index"}
               \/ worker.id \in indexed' \cup torn'
    PROVE  Told'
<1>1. Covered'
  BY DEF Told, Covered
<1>2. WordsFindRow'
  BY DEF Told, WordsFindRow, FoundByWords, Of, Live
<1>3. DuplicatesExplained'
  BY DEF Told, DuplicatesExplained, Live
<1>4. Searched'
  BY DEF Told, Searched, Live
<1>5. Taken'
  <2>1. worker.pc = "insert" => worker.id \in Ids
    BY DEF Typed, Named
  <2>2. dead \cup cleared \subseteq Ids
    BY DEF Typed, TypeOK
  <2>3. \A i \in dead' \cup cleared' :
          /\ row'[i].state # "none"
          /\ row'[i].state = "live" => row'[i].origin = "import" \/ i \in revived'
    BY <2>2 DEF Told, Taken
  <2> QED BY <2>1, <2>3 DEF Told, Taken
<1> QED BY <1>1, <1>2, <1>3, <1>4, <1>5 DEF Told

\* What a deletion leaves of the rows.
LEMMA DeletedFields ==
    ASSUME Typed, NEW S, \A i \in S : row[i].state # "none", row' = Deleted(S), NEW i \in Ids
    PROVE  /\ row'[i].state = "live" => row[i].state = "live" /\ i \notin S
           /\ row'[i].state # "none" <=> row[i].state # "none"
           /\ row'[i].content = row[i].content
           /\ row'[i].origin = row[i].origin
           /\ row'[i].body = row[i].body
<1>1. row[i] \in Row
  BY DEF Typed, TypeOK
<1>2. row'[i] = IF i \in S THEN [row[i] EXCEPT !.state = "deleted"] ELSE row[i]
  BY DEF Deleted
<1>3. CASE i \in S
  BY <1>1, <1>2, <1>3 DEF Row
<1>4. CASE i \notin S
  BY <1>2, <1>4
<1> QED BY <1>3, <1>4

\* Deleting rows together with their index entries is tame.
LEMMA TameDelete ==
    ASSUME Typed, Typed', Told, NEW S, \A i \in S : row[i].state # "none",
           row' = Deleted(S), indexed' = indexed \ S,
           UNCHANGED history, dead' = dead,
           \/ worker' = worker
           \/ worker.pc \notin {"formats", "index"} /\ worker'.pc # "insert"
    PROVE  Told'
BY DeletedFields, Tame DEF history

\* Nothing is deleted.
LEMMA TameSame ==
    ASSUME Typed, Typed', Told, UNCHANGED <<row, indexed>>, UNCHANGED history, dead' = dead,
           \/ worker' = worker
           \/ worker.pc \notin {"formats", "index"} /\ worker'.pc # "insert"
    PROVE  Told'
BY Tame DEF history

LEMMA ToldWorker == Typed /\ Typed' /\ Told /\ WorkerStep => Told'
<1> SUFFICES ASSUME Typed, Typed', Told, WorkerStep PROVE Told'
  OBVIOUS
<1> USE DEF At, Go
<1>1. ASSUME NEW c \in Contents, Read(c) PROVE Told'
  BY <1>1, TameSame DEF Read, db, Idle, Typed, TypeOK, Ingest
<1>2. CASE SearchDuplicate
  <2>1. UNCHANGED <<row, indexed, torn, revived, cleared, dead>>
    BY <1>2 DEF SearchDuplicate, db, history
  <2>2. worker \in Ingest /\ worker.pc = "search"
    BY <1>2 DEF SearchDuplicate, Typed, TypeOK
  <2>3. CASE worker.dedup /\ Of(worker.content) # {}
    BY <1>2, <2>1, <2>2, <2>3, TameSame DEF SearchDuplicate, history, Ingest
  <2>4. CASE ~(worker.dedup /\ Of(worker.content) # {})
    <3>1. PICK i \in Unused : worker' = [worker EXCEPT !.pc = "insert", !.id = i, !.at = clock]
      BY <1>2, <2>4 DEF SearchDuplicate
    <3>2. worker'.pc = "insert" /\ worker'.dedup = worker.dedup /\ worker'.content = worker.content
      BY <2>2, <3>1 DEF Ingest
    <3>3. Searched'
      BY <2>1, <2>4, <3>2 DEF Searched, Of, Live
    <3>4. Covered' /\ WordsFindRow' /\ DuplicatesExplained'
      BY <2>1, <2>2 DEF Told, Covered, WordsFindRow, DuplicatesExplained, FoundByWords, Of, Live
    <3>5. Taken'
      <4>1. worker'.id = i /\ row[i].state = "none"
        BY <2>2, <3>1 DEF Ingest, Unused
      <4> QED BY <2>1, <4>1 DEF Told, Taken
    <3> QED BY <3>3, <3>4, <3>5 DEF Told
  <2> QED BY <2>3, <2>4
<1>3. CASE Touch
  <2>1. worker'.pc = "load"
    BY <1>3 DEF Touch, Typed, TypeOK, Ingest
  <2>2. CASE worker.id \in Live
    <3>1. \A i \in Ids : /\ row'[i].state = row[i].state /\ row'[i].content = row[i].content
                         /\ row'[i].origin = row[i].origin /\ row'[i].body = row[i].body
      BY <1>3, <2>2 DEF Touch, Typed, TypeOK, Row
    <3> QED BY <1>3, <2>1, <3>1, Tame DEF Touch, history
  <2> QED BY <1>3, <2>1, <2>2, TameSame DEF Touch
<1>4. CASE Insert
  <2> DEFINE i0 == worker.id
  <2>1. /\ worker.pc = "insert" /\ worker'.pc = "formats" /\ worker'.id = i0 /\ i0 \in Ids
        /\ UNCHANGED <<indexed, torn, revived, cleared, dead>>
    BY <1>4 DEF Insert, Typed, TypeOK, Named, Ingest, history
  <2>2. /\ row'[i0].state = "live" /\ row'[i0].content = worker.content
        /\ row'[i0].origin = IF worker.dedup THEN "copy" ELSE "again"
        /\ \A i \in Ids : i # i0 => row'[i] = row[i]
    BY <1>4, <2>1 DEF Insert, Typed, TypeOK
  <2> HIDE DEF i0
  <2>3. Covered' /\ Searched'
    BY <2>1, <2>2 DEF Told, Covered, Searched
  <2>4. WordsFindRow'
    BY <2>1, <2>2 DEF Told, WordsFindRow, FoundByWords, Of, Live
  <2>5. DuplicatesExplained'
    <3> SUFFICES ASSUME NEW i \in Live', NEW j \in Live', i # j, row'[i].content = row'[j].content
                 PROVE  \E k \in {i, j} : row'[k].origin # "copy" \/ k \in revived'
      BY DEF DuplicatesExplained
    <3>1. CASE i # i0 /\ j # i0
      BY <2>1, <2>2, <3>1 DEF Told, DuplicatesExplained, Live
    <3>2. ASSUME NEW k \in Live', k # i0, row'[k].content = row'[i0].content
          PROVE  \/ row'[k].origin # "copy" \/ k \in revived'
                 \/ row'[i0].origin # "copy"
      <4>1. row'[k] = row[k] /\ k \in Live /\ row[k].content = worker.content
        BY <2>1, <2>2, <3>2 DEF Live
      <4>2. CASE worker.dedup
        BY <2>1, <4>1, <4>2 DEF Told, Searched
      <4>3. CASE ~worker.dedup
        BY <2>2, <4>3
      <4> QED BY <4>2, <4>3
    <3>3. i0 \in Live' /\ Live' \subseteq Ids
      BY <2>1, <2>2 DEF Live
    <3>4. CASE i = i0
      BY <3>2, <3>4
    <3>5. CASE j = i0
      BY <3>2, <3>5
    <3> QED BY <3>1, <3>4, <3>5
  <2>6. Taken'
    <3>1. i0 \notin dead \cup cleared /\ dead \cup cleared \subseteq Ids
      BY <2>1, <2>2 DEF Told, Taken, Typed, TypeOK, i0
    <3> QED BY <2>1, <2>2, <3>1 DEF Told, Taken
  <2> QED BY <2>3, <2>4, <2>5, <2>6 DEF Told
<1>5. CASE AddFormats
  <2>1. /\ worker.pc = "formats" /\ worker'.pc = "index" /\ worker'.id = worker.id
        /\ worker.id \in Ids
    BY <1>5 DEF AddFormats, Typed, TypeOK, Named, Ingest
  <2>2. /\ row'[worker.id].body
        /\ \A i \in Ids : /\ row'[i].state = row[i].state /\ row'[i].content = row[i].content
                          /\ row'[i].origin = row[i].origin /\ (row[i].body => row'[i].body)
    BY <1>5, <2>1 DEF AddFormats, Typed, TypeOK, Row
  <2> QED BY <1>5, <2>1, <2>2, Tame DEF AddFormats, history
<1>6. CASE Index
  <2>1. worker'.pc = "load" /\ worker.pc = "index" /\ indexed' = indexed \cup {worker.id}
    BY <1>6 DEF Index, Typed, TypeOK, Ingest
  <2> QED BY <1>6, <2>1, Tame DEF Index, history
<1>7. CASE LoadFails \/ Throttled
  BY <1>7, TameSame DEF LoadFails, Throttled, db, Idle
<1>8. CASE StartRetention
  BY <1>8, TameSame DEF StartRetention, db, Typed, TypeOK, Ingest
<1>9. CASE FinishRetention
  <2>1. worker.pc = "retain" /\ worker'.pc = "idle" /\ UNCHANGED <<history, dead>>
    BY <1>9 DEF FinishRetention, Idle
  <2>2. CASE UNCHANGED <<row, indexed>>
    BY <2>1, <2>2, TameSame
  <2>3. CASE Retained(worker.doomed)
    BY <2>1, <2>3, TameDelete DEF Retained, Unpinned, Live, history
  <2> QED BY <1>9, <2>2, <2>3 DEF FinishRetention, db
<1>10. CASE StatementFails
  <2>1. worker'.pc = "idle" /\ torn \subseteq torn'
        /\ (worker.pc \in {"formats", "index"} => worker.id \in torn')
    BY <1>10 DEF StatementFails, Idle, CutOff
  <2> QED BY <1>10, <2>1, Tame DEF StatementFails, db
<1> QED BY <1>1, <1>2, <1>3, <1>4, <1>5, <1>6, <1>7, <1>8, <1>9, <1>10 DEF WorkerStep

LEMMA ToldUser == Typed /\ Typed' /\ Told /\ UserStep => Told'
<1> SUFFICES ASSUME Typed, Typed', Told, UserStep PROVE Told'
  OBVIOUS
<1>1. ASSUME NEW i \in Ids, TogglePin(i) PROVE Told'
  <2>1. \A j \in Ids : /\ row'[j].state = row[j].state /\ row'[j].content = row[j].content
                       /\ row'[j].origin = row[j].origin /\ row'[j].body = row[j].body
    BY <1>1 DEF TogglePin, Typed, TypeOK, Row
  <2> QED BY <1>1, <2>1, Tame DEF TogglePin, history
<1>2. ASSUME NEW i \in Ids, Delete(i) PROVE Told'
  BY <1>2, TameDelete DEF Delete, Live, history
<1>3. ASSUME NEW what \in {"unpinned", "all"}, StartClear(what) PROVE Told'
  BY <1>3, TameSame DEF StartClear, db
<1>4. CASE FinishClear
  <2>1. CASE UNCHANGED <<row, indexed>>
    BY <1>4, <2>1, TameSame DEF FinishClear
  <2>2. PICK S \in {Live, Unpinned} : UNCHANGED <<row, indexed>> \/ (row' = Deleted(S) /\ indexed' = indexed \ S)
    BY <1>4 DEF FinishClear, db
  <2>3. \A i \in S : row[i].state # "none"
    BY <2>2 DEF Live, Unpinned
  <2> QED BY <1>4, <2>1, <2>2, <2>3, TameDelete DEF FinishClear, history
<1>5. ASSUME NEW max \in Limits, NEW unique \in BOOLEAN, SaveSettings(max, unique) PROVE Told'
  BY <1>5, TameSame DEF SaveSettings, db
<1>6. CASE Enforce
  <2>1. CASE UNCHANGED <<row, indexed>>
    BY <1>6, <2>1, TameSame DEF Enforce
  <2>2. CASE Retained(cleaner.doomed)
    BY <1>6, <2>2, TameDelete DEF Enforce, Retained, Unpinned, Live, history
  <2> QED BY <1>6, <2>1, <2>2 DEF Enforce, db
<1> QED BY <1>1, <1>2, <1>3, <1>4, <1>5, <1>6 DEF UserStep

LEMMA ToldImport == Typed /\ Typed' /\ Told /\ ImportStep => Told'
<1> SUFFICES ASSUME Typed, Typed', Told, ImportStep PROVE Told'
  OBVIOUS
<1>1. PICK i \in Ids, state \in {"live", "deleted"}, pin \in BOOLEAN :
        \/ \E c \in Contents, t \in RemoteStamps : ImportNew(i, c, state, t, pin)
        \/ \E t \in RemoteStamps : ImportUpdate(i, state, t, pin)
        \/ ImportDuplicate(i, state, pin)
  BY DEF ImportStep
<1>2. ASSUME row'[i].origin = "import", row'[i].state = "live" => i \in indexed',
             indexed \ {i} = indexed' \ {i},
             \A j \in Ids : j # i => row'[j] = row[j],
             row'[i].content = row[i].content \/ row[i].state = "none",
             row'[i].state # "none", worker.pc = "insert" => worker.id # i,
             UNCHANGED <<worker, torn, revived, cleared, dead>>
      PROVE  Told'
  <2>1. Covered'
    BY <1>2 DEF Told, Covered
  <2>2. WordsFindRow'
    BY <1>2 DEF Told, WordsFindRow, FoundByWords, Of, Live
  <2>3. DuplicatesExplained'
    BY <1>2 DEF Told, DuplicatesExplained, Live
  <2>4. Searched'
    BY <1>2 DEF Told, Searched, Live
  <2>5. Taken'
    BY <1>2 DEF Told, Taken, Typed, TypeOK, Named
  <2> QED BY <2>1, <2>2, <2>3, <2>4, <2>5 DEF Told
<1>3. ASSUME NEW c \in Contents, NEW t \in RemoteStamps, ImportNew(i, c, state, t, pin) PROVE Told'
  BY <1>2, <1>3 DEF ImportNew, Unused, Typed, TypeOK, history
<1>4. ASSUME NEW t \in RemoteStamps, ImportUpdate(i, state, t, pin) PROVE Told'
  <2>1. PICK sent :
          row' = [row EXCEPT ![i].state = state, ![i].copied = t, ![i].origin = "import",
                             ![i].pinned = @ \/ pin, ![i].body = sent]
    BY <1>4 DEF ImportUpdate
  <2>2. /\ row'[i].origin = "import" /\ row'[i].state = state /\ row'[i].content = row[i].content
        /\ \A j \in Ids : j # i => row'[j] = row[j]
    BY <2>1 DEF Typed, TypeOK, Row
  <2>3. (state = "live" => i \in indexed') /\ indexed \ {i} = indexed' \ {i}
        /\ UNCHANGED <<worker, torn, revived, cleared, dead>>
    BY <1>4 DEF ImportUpdate, history
  <2>4. row[i].state # "none" /\ (worker.pc = "insert" => worker.id # i)
    BY <1>4 DEF ImportUpdate, Told, Taken
  <2> QED BY <1>2, <2>2, <2>3, <2>4
<1>5. CASE ImportDuplicate(i, state, pin)
  <2>1. /\ \A j \in Ids : j # i => row'[j] = row[j]
        /\ row'[i].state = IF row[i].pinned THEN "live" ELSE state
        /\ row'[i].content = row[i].content /\ row'[i].origin = row[i].origin
        /\ row'[i].body = row[i].body
        /\ row[i].state # "none"
        /\ UNCHANGED <<worker, torn, indexed, cleared, dead>>
    BY <1>5 DEF ImportDuplicate, Live, Typed, TypeOK, Row
  <2>2. CASE row[i].state = "deleted" /\ row[i].pinned
    <3>1. revived' = revived \cup {i}
      BY <1>5, <2>2 DEF ImportDuplicate
    <3>2. Covered'
      BY <2>1, <3>1 DEF Told, Covered
    <3>3. WordsFindRow' /\ Searched'
      BY <2>1, <3>1 DEF Told, WordsFindRow, Searched, FoundByWords, Of, Live
    <3>4. DuplicatesExplained'
      BY <2>1, <3>1 DEF Told, DuplicatesExplained, Live
    <3>5. Taken'
      BY <2>1, <3>1 DEF Told, Taken, Typed, TypeOK, Named
    <3> QED BY <3>2, <3>3, <3>4, <3>5 DEF Told
  <2>3. CASE ~(row[i].state = "deleted" /\ row[i].pinned)
    <3>1. revived' = revived
      BY <1>5, <2>3 DEF ImportDuplicate
    <3>2. row[i].state = "live" \/ row'[i].state = "deleted"
      BY <1>5, <2>1, <2>3 DEF ImportDuplicate, Live, Typed, TypeOK, Row
    <3> QED BY <2>1, <3>1, <3>2, Tame
  <2> QED BY <2>2, <2>3
<1> QED BY <1>1, <1>3, <1>4, <1>5

\* A crash in the middle of an ingest is remembered in torn.
LEMMA ToldStep == Typed /\ Typed' /\ Told /\ [Next]_vars => Told'
<1> SUFFICES ASSUME Typed, Typed', Told, [Next]_vars PROVE Told'
  OBVIOUS
<1>1. CASE UNCHANGED vars \/ Tick
  BY <1>1, TameSame DEF vars, db, Tick
<1>2. CASE Restart
  <2>1. worker'.pc = "idle" /\ revived' = revived /\ cleared' = cleared /\ dead' = {}
        /\ torn \subseteq torn'
        /\ (worker.pc \in {"formats", "index"} => worker.id \in torn')
    BY <1>2 DEF Restart, CutOff, Idle
  <2>2. PICK S : row' = Deleted(S \cap Unpinned) /\ indexed' = indexed \ (S \cap Unpinned)
    BY <1>2 DEF Restart, Retained
  <2>3. \A i \in S \cap Unpinned : row[i].state # "none"
    BY DEF Unpinned, Live
  <2> QED BY <2>1, <2>2, <2>3, DeletedFields, Tame
<1>3. CASE CleanupStep
  <2>1. CASE ListDeleted
    <3>1. Taken'
      BY <2>1 DEF ListDeleted, db, history, Told, Taken
    <3>2. Covered' /\ WordsFindRow' /\ DuplicatesExplained' /\ Searched'
      BY <2>1 DEF ListDeleted, db, history, Told, Covered, WordsFindRow, DuplicatesExplained,
           Searched, FoundByWords, Of, Live
    <3> QED BY <3>1, <3>2 DEF Told
  <2>2. ASSUME NEW i \in Ids, ClearPath(i) PROVE Told'
    <3>1. /\ \A j \in Ids : /\ row'[j].state = row[j].state /\ row'[j].content = row[j].content
                            /\ row'[j].origin = row[j].origin
                            /\ j # i => row'[j] = row[j]
          /\ cleared' = cleared \cup {i} /\ dead' = dead \ {i} /\ i \in dead
          /\ UNCHANGED <<indexed, worker, torn, revived>>
      BY <2>2 DEF ClearPath, Typed, TypeOK, Row
    <3>2. Covered'
      BY <3>1 DEF Told, Covered
    <3>3. Taken'
      BY <3>1 DEF Told, Taken, Typed, TypeOK, Named
    <3>4. WordsFindRow' /\ DuplicatesExplained' /\ Searched'
      BY <3>1 DEF Told, WordsFindRow, DuplicatesExplained, Searched, FoundByWords, Of, Live
    <3> QED BY <3>2, <3>3, <3>4 DEF Told
  <2> QED BY <1>3, <2>1, <2>2 DEF CleanupStep
<1> QED BY <1>1, <1>2, <1>3, ToldWorker, ToldUser, ToldImport DEF Next

LEMMA ToldHolds == Spec => [](Typed /\ Told)
BY TypedStart, TypedStep, ToldStart, ToldStep, PTL DEF Spec

\* No order of the statements of an ingest, of their failures, of crashes and of imports leaves a
\* live row without its payload but for the known reasons, and no text at all
\* (clipboard_service.rs ingest_text_snapshot, paste_service.rs load_item_payload).
THEOREM PayloadsKept == Spec => []PayloadMissingOnlyWhenCut
<1>1. Typed /\ Told => PayloadMissingOnlyWhenCut
  <2> SUFFICES ASSUME Typed, Told, NEW i \in Live
               PROVE  /\ ~row[i].body => \/ i \in torn \/ row[i].origin = "import"
                                         \/ (worker.id = i /\ At("formats"))
                                         \/ i \in revived \cap cleared
                      /\ Payload(i) # row[i].content => row[i].content \in Images
    BY DEF PayloadMissingOnlyWhenCut
  <2>1. i \in Ids /\ row[i].state = "live" /\ row[i].content \in Texts \cup Images \cup {NoContent}
    BY DEF Live, Typed, TypeOK, Row, Contents
  <2> QED BY <2>1 DEF Told, Covered, Taken, Payload, At
<1> QED BY <1>1, ToldHolds, PTL

\* Every live row is found by its words but for the known reasons: whoever makes
\* a row live also indexes it (upsert_fts).
THEOREM WordsAlwaysFindRow == Spec => []WordsFindRow
<1>1. Told => WordsFindRow
  BY DEF Told
<1> QED BY <1>1, ToldHolds, PTL

\* Two live rows have one content only for the known reasons, although the search
\* for a duplicate and the insert are two statements (find_existing_item_id).
THEOREM DuplicatesAlwaysExplained == Spec => []DuplicatesExplained
<1>1. Told => DuplicatesExplained
  BY DEF Told
<1> QED BY <1>1, ToldHolds, PTL

-----------------------------------------------------------------------------
(* Retention *)

\* What a selection promises: rows that may go, so many that the rest is within
\* the limit, and none that is newer than a row which stays unless it is too old.
TooOld(i) == MaxAge # 0 /\ row[i].copied < clock - MaxAge
Chosen(max, S) ==
    /\ S \subseteq Unpinned
    /\ max = 0 \/ Cardinality(Unpinned \ S) <= max
    /\ \A i \in S, j \in Unpinned \ S : TooOld(i) \/ row[i].copied <= row[j].copied

\* The selection of a transaction that no commit has overtaken still holds.
InForce ==
    /\ worker.pc = "retain" /\ "worker" \notin outdated => Chosen(worker.limit, worker.doomed)
    /\ cleaner.pc = "retain" /\ "settings" \notin outdated => Chosen(cleaner.limit, cleaner.doomed)

LEMMA SelectedIsChosen ==
    ASSUME Typed, NEW max \in Nat, NEW S, Selected(max, S)
    PROVE  Chosen(max, S)
<1>1. PICK T \in SUBSET Unpinned : Beyond(max, T) /\ S = Expired \cup T
  BY DEF Selected
<1>2. IsFiniteSet(Unpinned)
  BY FS_Subset, HistoryAssumption DEF Unpinned, Live
<1>3. /\ IsFiniteSet(Unpinned \ T) /\ Cardinality(Unpinned \ S) <= Cardinality(Unpinned \ T)
      /\ Cardinality(Unpinned \ S) \in Nat /\ Cardinality(Unpinned \ T) \in Nat
      /\ Cardinality(Unpinned) \in Nat
  <2>1. Unpinned \ S \subseteq Unpinned \ T /\ Unpinned \ T \subseteq Unpinned
    BY <1>1
  <2> QED BY <1>2, <2>1, FS_Subset, FS_CardinalityType
<1>4. max = 0 \/ Cardinality(Unpinned \ T) <= max
  <2>1. CASE T = {}
    <3>1. Unpinned \ T = Unpinned
      BY <2>1
    <3>2. max = 0 \/ Cardinality(Unpinned) <= max \/ Cardinality(Unpinned \ T) = max
      BY <1>1 DEF Beyond
    <3> QED BY <1>3, <3>1, <3>2
  <2>2. CASE T # {}
    BY <1>1, <1>3, <2>2 DEF Beyond
  <2> QED BY <2>1, <2>2
<1>5. ASSUME NEW i \in S, NEW j \in Unpinned \ S PROVE TooOld(i) \/ row[i].copied <= row[j].copied
  <2>1. CASE i \in T
    BY <1>1, <1>5, <2>1 DEF Beyond
  <2>2. CASE i \in Expired
    BY <2>2 DEF Expired, TooOld
  <2> QED BY <1>1, <2>1, <2>2
<1>6. max = 0 \/ Cardinality(Unpinned \ S) <= max
  BY <1>3, <1>4
<1>7. S \subseteq Unpinned
  BY <1>1 DEF Expired
<1> QED BY <1>5, <1>6, <1>7 DEF Chosen

\* The clock alone does not undo a selection.
LEMMA ChosenLasts ==
    ASSUME Typed, row' = row, clock' \in Int, clock <= clock', NEW max, NEW S, Chosen(max, S)
    PROVE  Chosen(max, S)'
<1>1. Unpinned' = Unpinned /\ Unpinned \subseteq Ids
  BY DEF Unpinned, Live
<1>2. ASSUME NEW i \in S, TooOld(i) PROVE TooOld(i)'
  <2>1. i \in Ids /\ row[i].copied \in Int /\ clock \in Int
    BY <1>1 DEF Chosen, Typed, TypeOK, Row
  <2> QED BY <1>2, <2>1, HistoryAssumption DEF TooOld
<1> QED BY <1>1, <1>2 DEF Chosen

\* A deletion of what is chosen is as exact as the selection.
LEMMA ChosenIsExact ==
    ASSUME Typed, NEW max, NEW S, Chosen(max, S), row' = Deleted(S \cap Unpinned)
    PROVE  Exact(max)
<1>1. S \cap Unpinned = S /\ Unpinned \subseteq Live /\ Live \subseteq Ids
  BY DEF Chosen, Unpinned, Live
<1>2. ASSUME NEW i \in Live PROVE row'[i].state = (IF i \in S THEN "deleted" ELSE "live")
  <2>1. row[i] \in Row /\ row[i].state = "live" /\ i \in Ids
    BY DEF Typed, TypeOK, Live
  <2>2. row'[i] = IF i \in S THEN [row[i] EXCEPT !.state = "deleted"] ELSE row[i]
    BY <1>1, <2>1 DEF Deleted
  <2> QED BY <2>1, <2>2 DEF Row
<1>3. Gone = S /\ Left = Unpinned \ S
  BY <1>1, <1>2 DEF Gone, Left
<1> QED BY <1>3 DEF Exact, Chosen, TooOld

LEMMA InForceStart == Init => InForce
BY DEF Init, InForce, Idle

\* A transaction that goes on has been overtaken, or the rows are what it read.
LEMMA InForceKept ==
    ASSUME Typed, InForce, clock' \in Int, clock <= clock',
           worker'.pc = "retain" =>
               worker' = worker /\ ("worker" \in outdated' \/ (row' = row /\ "worker" \notin outdated)),
           cleaner'.pc = "retain" =>
               cleaner' = cleaner /\ ("settings" \in outdated' \/ (row' = row /\ "settings" \notin outdated))
    PROVE  InForce'
<1>1. ASSUME worker'.pc = "retain", "worker" \notin outdated'
      PROVE  Chosen(worker.limit, worker.doomed)' 
  <2>1. worker' = worker /\ row' = row /\ Chosen(worker.limit, worker.doomed)
    BY <1>1 DEF InForce
  <2>2. Chosen(worker'.limit, worker'.doomed)
    BY <2>1
  <2> QED BY <2>1, ChosenLasts DEF Chosen, TooOld, Unpinned, Live
<1>2. ASSUME cleaner'.pc = "retain", "settings" \notin outdated'
      PROVE  Chosen(cleaner.limit, cleaner.doomed)'
  <2>1. cleaner' = cleaner /\ row' = row /\ Chosen(cleaner.limit, cleaner.doomed)
    BY <1>2 DEF InForce
  <2> QED BY <2>1, ChosenLasts DEF Chosen, TooOld, Unpinned, Live
<1> QED BY <1>1, <1>2 DEF InForce

LEMMA InForceWorker == Typed /\ InForce /\ WorkerStep => InForce'
<1> SUFFICES ASSUME Typed, InForce, WorkerStep PROVE InForce'
  OBVIOUS
<1>1. clock' = clock /\ clock \in Int /\ cleaner' = cleaner
  <2>1. clock \in Int
    BY DEF Typed, TypeOK
  <2>2. CASE \E c \in Contents : Read(c)
    BY <2>1, <2>2 DEF Read
  <2>3. CASE SearchDuplicate \/ Touch \/ Insert \/ AddFormats \/ Index
    BY <2>1, <2>3 DEF SearchDuplicate, Touch, Insert, AddFormats, Index
  <2>4. CASE LoadFails \/ Throttled \/ StartRetention \/ FinishRetention \/ StatementFails
    BY <2>1, <2>4 DEF LoadFails, Throttled, StartRetention, FinishRetention, StatementFails
  <2> QED BY <2>2, <2>3, <2>4 DEF WorkerStep
<1>2. CASE StartRetention
  <2>1. PICK S \in SUBSET Ids : /\ Selected(worker.limit, S)
                                /\ worker' = [worker EXCEPT !.pc = "retain", !.doomed = S]
    BY <1>2 DEF StartRetention, Go
  <2>2. worker.limit \in Nat /\ worker'.limit = worker.limit /\ worker'.doomed = S
    BY <2>1, HistoryAssumption DEF Typed, TypeOK, Ingest
  <2>3. row' = row /\ outdated' = outdated \ {"worker"}
    BY <1>2 DEF StartRetention, db
  <2>4. Chosen(worker'.limit, worker'.doomed)
    BY <2>1, <2>2, SelectedIsChosen
  <2>5. Chosen(worker.limit, worker.doomed)'
    BY <1>1, <2>3, <2>4, ChosenLasts DEF Chosen, TooOld, Unpinned, Live
  <2>6. cleaner.pc = "retain" /\ "settings" \notin outdated => Chosen(cleaner.limit, cleaner.doomed)'
    BY <1>1, <2>3, ChosenLasts DEF InForce, Chosen, TooOld, Unpinned, Live
  <2> QED BY <1>1, <2>3, <2>5, <2>6 DEF InForce
<1>3. CASE ~StartRetention
  <2>1. worker'.pc # "retain"
    <3> USE DEF At, Go, Idle, Typed, TypeOK, Ingest
    <3>1. CASE \E c \in Contents : Read(c)
      BY <3>1 DEF Read
    <3>2. CASE SearchDuplicate
      BY <3>2 DEF SearchDuplicate
    <3>3. CASE Touch \/ Insert \/ AddFormats \/ Index
      BY <3>3 DEF Touch, Insert, AddFormats, Index
    <3>4. CASE LoadFails \/ Throttled \/ FinishRetention \/ StatementFails
      BY <3>4 DEF LoadFails, Throttled, FinishRetention, StatementFails
    <3> QED BY <1>3, <3>1, <3>2, <3>3, <3>4 DEF WorkerStep
  <2>2. Commit("worker") \/ (row' = row /\ outdated' = outdated)
    BY <1>3 DEF WorkerStep, Read, SearchDuplicate, Touch, Insert, AddFormats, Index, LoadFails,
         Throttled, FinishRetention, StatementFails, db
  <2>3. cleaner.pc = "retain" => "settings" \in outdated' \/ (row' = row /\ "settings" \notin outdated)
    BY <2>2 DEF Commit, Reading
  <2> QED BY <1>1, <2>1, <2>3, InForceKept
<1> QED BY <1>2, <1>3

LEMMA InForceUser == Typed /\ InForce /\ UserStep => InForce'
<1> SUFFICES ASSUME Typed, InForce, UserStep PROVE InForce'
  OBVIOUS
<1>1. clock' = clock /\ clock \in Int /\ worker' = worker
  <2>1. clock \in Int
    BY DEF Typed, TypeOK
  <2>2. CASE \E i \in Ids : TogglePin(i) \/ Delete(i)
    BY <2>1, <2>2 DEF TogglePin, Delete
  <2>3. CASE \E max \in Limits, unique \in BOOLEAN : SaveSettings(max, unique)
    BY <2>1, <2>3 DEF SaveSettings
  <2>4. CASE (\E what \in {"unpinned", "all"} : StartClear(what)) \/ FinishClear \/ Enforce
    BY <2>1, <2>4 DEF StartClear, FinishClear, Enforce
  <2> QED BY <2>2, <2>3, <2>4 DEF UserStep
<1>2. ASSUME NEW r, r \notin {"worker", "settings"}, cleaner' = cleaner,
             Commit(r) \/ (row' = row /\ outdated' \in {outdated, outdated \ {"clear"}})
      PROVE  InForce'
  <2>1. worker.pc = "retain" => "worker" \in outdated' \/ (row' = row /\ "worker" \notin outdated)
    BY <1>2 DEF Commit, Reading
  <2>2. cleaner.pc = "retain" => "settings" \in outdated' \/ (row' = row /\ "settings" \notin outdated)
    BY <1>2 DEF Commit, Reading
  <2> QED BY <1>1, <1>2, <2>1, <2>2, InForceKept
<1>3. ASSUME NEW i \in Ids, TogglePin(i) \/ Delete(i) PROVE InForce'
  BY <1>2, <1>3 DEF TogglePin, Delete
<1>4. ASSUME NEW what \in {"unpinned", "all"}, StartClear(what) \/ FinishClear PROVE InForce'
  BY <1>2, <1>4 DEF StartClear, FinishClear, db
<1>5. ASSUME NEW max \in Limits, NEW unique \in BOOLEAN, SaveSettings(max, unique) PROVE InForce'
  <2>1. PICK S \in SUBSET Ids : /\ Selected(max, S)
                                /\ cleaner' = [pc |-> "retain", limit |-> max, doomed |-> S]
    BY <1>5 DEF SaveSettings
  <2>2. row' = row /\ (worker.pc = "retain" => "worker" \in outdated')
    BY <1>5 DEF SaveSettings, db, Reading
  <2>3. Chosen(cleaner'.limit, cleaner'.doomed)
    BY <2>1, SelectedIsChosen, HistoryAssumption
  <2>4. Chosen(cleaner.limit, cleaner.doomed)'
    BY <1>1, <2>2, <2>3, ChosenLasts DEF Chosen, TooOld, Unpinned, Live
  <2> QED BY <1>1, <2>2, <2>4 DEF InForce
<1>6. CASE Enforce
  <2>1. cleaner'.pc = "idle"
    BY <1>6 DEF Enforce, Typed, TypeOK, Cleaner
  <2>2. worker.pc = "retain" => "worker" \in outdated' \/ (row' = row /\ "worker" \notin outdated)
    BY <1>6 DEF Enforce, Commit, Reading, db
  <2> QED BY <1>1, <2>1, <2>2, InForceKept
<1> QED BY <1>3, <1>4, <1>5, <1>6 DEF UserStep

LEMMA InForceStep == Typed /\ InForce /\ [Next]_vars => InForce'
<1> SUFFICES ASSUME Typed, InForce, [Next]_vars PROVE InForce'
  OBVIOUS
<1>1. CASE UNCHANGED vars \/ Tick
  BY <1>1, InForceKept DEF vars, db, Tick, Typed, TypeOK
<1>2. CASE Restart
  BY <1>2, InForceKept DEF Restart, Idle, Typed, TypeOK
<1>3. CASE ImportStep
  <2>1. clock' = clock /\ worker' = worker /\ cleaner' = cleaner /\ Commit("import")
    <3>1. PICK i \in Ids, state \in {"live", "deleted"}, pin \in BOOLEAN :
             \/ \E c \in Contents, t \in RemoteStamps : ImportNew(i, c, state, t, pin)
             \/ \E t \in RemoteStamps : ImportUpdate(i, state, t, pin)
             \/ ImportDuplicate(i, state, pin)
      BY <1>3 DEF ImportStep
    <3>2. ASSUME NEW c, NEW t, ImportNew(i, c, state, t, pin)
          PROVE  clock' = clock /\ worker' = worker /\ cleaner' = cleaner /\ Commit("import")
      BY <3>2 DEF ImportNew
    <3>3. ASSUME NEW t, ImportUpdate(i, state, t, pin)
          PROVE  clock' = clock /\ worker' = worker /\ cleaner' = cleaner /\ Commit("import")
      BY <3>3 DEF ImportUpdate
    <3>4. CASE ImportDuplicate(i, state, pin)
      BY <3>4 DEF ImportDuplicate
    <3> QED BY <3>1, <3>2, <3>3, <3>4
  <2>2. /\ worker.pc = "retain" => "worker" \in outdated'
        /\ cleaner.pc = "retain" => "settings" \in outdated'
    BY <2>1 DEF Commit, Reading
  <2> QED BY <2>1, <2>2, InForceKept DEF Typed, TypeOK
<1>4. CASE CleanupStep
  <2>1. CASE ListDeleted
    BY <2>1, InForceKept DEF ListDeleted, db, Typed, TypeOK
  <2>2. ASSUME NEW i \in Ids, ClearPath(i) PROVE InForce'
    <3>1. /\ worker.pc = "retain" => "worker" \in outdated'
          /\ cleaner.pc = "retain" => "settings" \in outdated'
      BY <2>2 DEF ClearPath, Commit, Reading
    <3> QED BY <2>2, <3>1, InForceKept DEF ClearPath, Typed, TypeOK
  <2> QED BY <1>4, <2>1, <2>2 DEF CleanupStep
<1> QED BY <1>1, <1>2, <1>3, <1>4, InForceWorker, InForceUser DEF Next

\* Retention deletes what it would select at that instant, though it selected
\* before and the user, an import or an ingest may have come between: then the
\* database refuses its write (clipboard_service.rs enforce_history_retention).
THEOREM RetentionExact == Spec => RetentionIsExact
<1>1. Typed /\ InForce => [/\ FinishRetention => Exact(worker.limit)
                           /\ Enforce => Exact(cleaner.limit)]_vars
  <2> SUFFICES ASSUME Typed, InForce
               PROVE  (FinishRetention => Exact(worker.limit)) /\ (Enforce => Exact(cleaner.limit))
    OBVIOUS
  <2>1. ASSUME row' = row, NEW max PROVE Exact(max)
    BY <2>1 DEF Exact, Gone, Live
  <2>2. ASSUME FinishRetention PROVE Exact(worker.limit)
    <3>1. row' = row \/ (/\ "worker" \notin outdated /\ worker.pc = "retain"
                         /\ row' = Deleted(worker.doomed \cap Unpinned))
      BY <2>2 DEF FinishRetention, At, Retained, db
    <3>2. CASE row' # row
      <4>1. Chosen(worker.limit, worker.doomed)
        BY <3>1, <3>2 DEF InForce
      <4>2. Exact(worker.limit)
        BY <3>1, <3>2, <4>1, ChosenIsExact
      <4> QED BY <4>2
    <3> QED BY <2>1, <3>2
  <2>3. ASSUME Enforce PROVE Exact(cleaner.limit)
    <3>1. row' = row \/ (/\ "settings" \notin outdated /\ cleaner.pc = "retain"
                         /\ row' = Deleted(cleaner.doomed \cap Unpinned))
      BY <2>3 DEF Enforce, Retained, db
    <3>2. CASE row' # row
      <4>1. Chosen(cleaner.limit, cleaner.doomed)
        BY <3>1, <3>2 DEF InForce
      <4>2. Exact(cleaner.limit)
        BY <3>1, <3>2, <4>1, ChosenIsExact
      <4> QED BY <4>2
    <3> QED BY <2>1, <3>2
  <2> QED BY <2>2, <2>3
<1> QED BY <1>1, TypedStart, TypedStep, InForceStart, InForceStep, PTL DEF Spec, RetentionIsExact

=============================================================================
