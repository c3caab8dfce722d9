------------------------------- MODULE StartUp -------------------------------
(***************************************************************************)
(* The start of the program brings the database up to date before anything *)
(* else happens (database_service initialize): columns, the identity of    *)
(* the device, the rows of older versions, sample rows, and the default    *)
(* palette.  Every statement commits by itself and there is no record of   *)
(* how far a start came: one that is cut off is simply repeated.           *)
(*                                                                         *)
(* What follows the start is in Settings and Desktop.  Left out: tables    *)
(* and indexes (IF NOT EXISTS), the removal of placeholder rows of an old  *)
(* version, and the weekly PRAGMA optimize.                                *)
(***************************************************************************)
EXTENDS Desktop

CONSTANTS
    Legacy,       \* rows that an older version left
    SampleCount,  \* number of sample rows
    DeviceIds,    \* fresh UUIDs
    MaxPicks      \* bound on the palettes that the user picks

ASSUME StartUpAssumption ==
    /\ SampleCount \in Nat \ {0} /\ MaxPicks \in Nat \ {0}
    /\ DeviceIds # {} /\ "none" \notin DeviceIds

VARIABLES
    columns,   \* the columns that were added to the first schema
    device,    \* device_id in sync_state, or "none"
    owner,     \* clipboard_items.device_id of the older rows; "none": NULL
    samples,   \* statements of the sample rows that were executed
    palette,   \* theme_name and accent_color
    marked,    \* theme_default_migrated_v1 ..
    opening,   \* how far a start has come
    expected,  \* history: the palette that the user or an undisturbed migration chose
    cut,       \* history: what a start was cut off in the middle of
    picks      \* what is left of MaxPicks

base == <<columns, device, owner, samples, palette, marked, opening>>
startVars == <<allVars, base, expected, cut, picks>>

Columns == <<"sync_id", "device_id", "revision", "deleted_at", "sync_status",
             "last_synced_at", "abandoned_at">>
AllColumns == {Columns[n] : n \in DOMAIN Columns}

\* migrate_default_theme: whoever still has the default of an older version gets
\* the next one.
Palette(theme, accent) == [theme |-> theme, accent |-> accent]
Defaults == <<Palette("purple-default", "#6D4CFF"), Palette("system-blue", "#0067C0"),
              Palette("system-blue", "#1F74CC"), Palette("system-blue", "#2F69FA"),
              Palette("coral-pulse", "#FF6257")>>
Versions == 1..4
Old(v) == Defaults[v]
New(v) == Defaults[v + 1]
Palettes == {Defaults[n] : n \in DOMAIN Defaults}
            \cup {Palette("system-blue", "custom"), Palette("none", "none")}

\* What migrations that nothing interrupts make of a palette.
Migrate(p, v, done) == IF v \notin done /\ p = Old(v) THEN New(v) ELSE p
Migrated(p, done) ==
    Migrate(Migrate(Migrate(Migrate(p, 1, done), 2, done), 3, done), 4, done)

\* A sample is a row, its format, its tags and its entry in the index.
Statements == 4 * SampleCount
Rows == DOMAIN owner
SomeDevice == CHOOSE d \in DeviceIds : TRUE

Closed == [pc |-> "off", at |-> 1]
UpToDate == /\ columns = AllColumns /\ device # "none"
            /\ \A r \in Rows : owner[r] # "none"
            /\ Rows # {} \/ samples > 0
            /\ marked = Versions

\* None; one of an older version; or one whose user is still offered a new palette.
OlderDatabase ==
    /\ \E n \in {0, 6, 7} : columns = {Columns[m] : m \in 1..n}
    /\ device = IF columns = {} THEN "none" ELSE SomeDevice
    /\ \E old \in {{}, Legacy} : owner = [r \in old |-> device]
    /\ samples = IF columns = {} /\ Rows = {} THEN 0 ELSE Statements
    /\ palette \in IF samples = 0 THEN {Palette("none", "none")} ELSE Palettes
    /\ \E v \in IF samples = 0 THEN {0} ELSE 0..4 : marked = 1..v

CurrentDatabase ==
    /\ columns = AllColumns /\ device = SomeDevice
    /\ owner = <<>> /\ samples = Statements
    /\ palette = Defaults[5] /\ marked = Versions

\* As a bound, where the database varies nothing else does.
StartUpInit ==
    /\ DesktopInit
    /\ \/ CurrentDatabase /\ picks = 0
       \/ /\ Spent(0, [Bound EXCEPT !.check = 0, !.taken = 0]) /\ Left(0, 0)
          /\ program /\ runKey = "off"
          /\ OlderDatabase /\ picks = MaxPicks
    /\ opening = Closed
    /\ expected = Migrated(palette, marked)
    /\ cut = {}

-----------------------------------------------------------------------------
(* initialize *)

Opening(pc) == opening.pc = pc /\ UNCHANGED <<allVars, expected, cut, picks>>
Continue(pc, at) == opening' = [pc |-> pc, at |-> at]

\* The process is there, and nothing of it but its connection to the database.
\* As a bound, no setup runs meanwhile.
Open ==
    /\ Opening("off") /\ program /\ app = "down" /\ ~UpToDate
    /\ setup = Off
    /\ Continue("columns", 1)
    /\ UNCHANGED <<columns, device, owner, samples, palette, marked>>

\* add_column_if_missing, of apply_sync_migration and its successors.
AddColumn ==
    /\ Opening("columns")
    /\ columns' = columns \cup {Columns[opening.at]}
    /\ IF opening.at = Len(Columns) THEN Continue("device", 1) ELSE Continue("columns", opening.at + 1)
    /\ UNCHANGED <<device, owner, samples, palette, marked>>

\* Mutant: an identity is made up at every start.
MutIdentify ==
    /\ Opening("device")
    /\ device' \in DeviceIds
    /\ Continue("rows", 1)
    /\ UNCHANGED <<columns, owner, samples, palette, marked>>

\* initialize_device
Identify ==
    /\ Opening("device")
    /\ device' \in IF device = "none" THEN DeviceIds ELSE {device}
    /\ Continue("rows", 1)
    /\ UNCHANGED <<columns, owner, samples, palette, marked>>

\* backfill_clipboard_sync_fields
Backfill ==
    /\ Opening("rows")
    /\ owner' = [r \in Rows |-> IF owner[r] = "none" THEN device ELSE owner[r]]
    /\ Continue("samples", 1)
    /\ UNCHANGED <<columns, device, samples, palette, marked>>

\* seed_mock_data: only into an empty table, which is looked at once.
SkipSamples ==
    /\ Opening("samples") /\ opening.at = 1
    /\ Rows # {} \/ samples > 0
    /\ Continue("palette", 1)
    /\ UNCHANGED <<columns, device, owner, samples, palette, marked>>

\* insert_seed_item, statement by statement.
AddSample ==
    /\ Opening("samples")
    /\ opening.at = 1 => Rows = {} /\ samples = 0
    /\ samples' = samples + 1
    /\ IF samples' = Statements THEN Continue("palette", 1) ELSE Continue("samples", 2)
    /\ UNCHANGED <<columns, device, owner, palette, marked>>

\* migrate_default_accent: the mark and both settings are read,
ComparePalette ==
    /\ Opening("palette")
    /\ IF opening.at \in marked THEN Continue("marked", opening.at)
       ELSE IF palette = Old(opening.at) THEN Continue("theme", opening.at)
       ELSE Continue("mark", opening.at)
    /\ UNCHANGED <<columns, device, owner, samples, palette, marked>>

\* written one after the other,
WriteTheme ==
    /\ Opening("theme")
    /\ palette' = [palette EXCEPT !.theme = New(opening.at).theme]
    /\ Continue("accent", opening.at)
    /\ UNCHANGED <<columns, device, owner, samples, marked>>

WriteAccent ==
    /\ Opening("accent")
    /\ palette' = [palette EXCEPT !.accent = New(opening.at).accent]
    /\ Continue("mark", opening.at)
    /\ UNCHANGED <<columns, device, owner, samples, marked>>

\* and the mark is set.
SetMark ==
    /\ Opening("mark")
    /\ marked' = marked \cup {opening.at}
    /\ Continue("marked", opening.at)
    /\ UNCHANGED <<columns, device, owner, samples, palette>>

NextVersion ==
    /\ Opening("marked")
    /\ IF opening.at = 4 THEN Continue("done", 1) ELSE Continue("palette", opening.at + 1)
    /\ UNCHANGED <<columns, device, owner, samples, palette, marked>>

\* The process ends, or a statement fails and ends it.
CutOff ==
    /\ opening.pc # "off"
    /\ opening' = Closed
    /\ cut' = cut \cup {x \in {"samples"} : opening.pc = "samples" /\ opening.at = 2}
                  \cup {x \in {"palette"} : opening.pc = "accent"
                                            /\ Old(opening.at).theme # palette.theme}
    /\ UNCHANGED <<allVars, columns, device, owner, samples, palette, marked, expected, picks>>

Initialize == \/ Open \/ AddColumn \/ Identify \/ Backfill \/ SkipSamples \/ AddSample
              \/ ComparePalette \/ WriteTheme \/ WriteAccent \/ SetMark \/ NextVersion
              \/ CutOff

-----------------------------------------------------------------------------

\* A database that is up to date is opened without a change.
Launched ==
    /\ opening.pc = "done" \/ (opening.pc = "off" /\ UpToDate)
    /\ LaunchProgram
    /\ opening' = Closed
    /\ UNCHANGED <<columns, device, owner, samples, palette, marked, expected, cut, picks>>

\* The user picks a palette, an old default perhaps; Settings has the single writes.
Pick(p) ==
    /\ app = "up" /\ picks > 0 /\ picks' = picks - 1
    /\ palette' = p /\ expected' = p
    /\ cut' = cut \ {"palette"}
    /\ UNCHANGED <<allVars, columns, device, owner, samples, marked, opening>>

NoData == [f \in {} |-> "on"]

\* The data that an uninstaller removes include the database.
RemoveDatabase ==
    /\ RemoveData /\ stored' = NoData
    /\ columns' = {} /\ device' = "none" /\ owner' = <<>> /\ samples' = 0
    /\ palette' = Palette("none", "none") /\ marked' = {}
    /\ expected' = palette' /\ cut' = {}
    /\ UNCHANGED <<opening, picks>>

KeepDatabase == Installer /\ stored' = stored /\ UNCHANGED <<base, expected, cut, picks>>

StartUpNext ==
    \/ Initialize
    \/ Launched
    \/ (Run \/ Updates) /\ UNCHANGED <<base, expected, cut, picks>>
    \/ opening = Closed /\ (KeepDatabase \/ RemoveDatabase)
    \/ \E p \in Palettes : Pick(p)

StartUpSpec == StartUpInit /\ [][StartUpNext]_startVars

-----------------------------------------------------------------------------

\* However often and wherever a start is cut off, the one that succeeds leaves
\* what a single undisturbed one would have left: every column, every row with
\* the one identity of the device, every sample or none, and the palette that
\* the user chose or whose default succeeds it; except for sample rows or a
\* palette between whose statements a start was cut off: once the first sample
\* is there no later start adds the others, whether the cut fell into a row or
\* between two (initialize, migrate_default_accent, seed_mock_data).
StartResumes ==
    app # "down" =>
        /\ columns = AllColumns
        /\ device # "none" /\ \A r \in Rows : owner[r] = device
        /\ "samples" \notin cut => samples \in {0, Statements}
        /\ "palette" \notin cut => palette = expected

=============================================================================
