---------------------------- MODULE DesktopProofs -----------------------------
(***************************************************************************)
(* What the program on a computer never does, for every set of shortcuts,  *)
(* older rows and identities and for every bound: leave Windows with the   *)
(* command of a program, or of an uninstaller, that is gone                *)
(* (NothingDangles), start a file as the update whose digest was not       *)
(* compared (VerifiedIsLaunched), let a copy of the settings drift from    *)
(* the settings table (InStep), and run on a database that a start brought *)
(* up to date only in part (StartResumes).                                 *)
(*                                                                         *)
(* None is inductive. DiskInv says what each step of the setup program may *)
(* rely on: that the steps before it were done, and that a process keeps   *)
(* its own file. UpdateInv says that the downloads of a process that did   *)
(* not cross have one writer of the file at a time. SettingsInv says of    *)
(* every point of update_settings what each copy is then a copy of: the    *)
(* settings that the cache has, or the draft of the call that is replacing *)
(* them. StartInv says what each statement of initialize finds done, and   *)
(* that the palette between two statements still migrates to the expected  *)
(* one.                                                                    *)
(*                                                                         *)
(* The first three are theorems of DesktopSpec, and by StartUpIsDesktop    *)
(* they hold whatever the start of the program has to do to the database.  *)
(***************************************************************************)
EXTENDS StartUp, TLAPS

\* What the setup program has done, by what it does next.
SetupInv ==
    /\ setup \in Setups \cup {Off}
    /\ setup.pc \in {"uninstaller", "entry", "runKey"} => program
    /\ setup.pc \in {"entry", "runKey"} => uninstaller /\ ~leaving
    /\ setup.pc = "remove" => revived \/ undeleted \/ (app = "down" /\ runKey = "off")
    /\ setup.pc \in {"removeEntry", "data", "self"} => ~program
    /\ setup.pc \in {"data", "self"} => ~entry

DiskInv ==
    /\ SetupInv
    /\ app # "down" => program
    /\ runKey # "off" => program \/ revived \/ undeleted
    /\ entry => uninstaller /\ ~leaving

UpdateInv ==
    /\ download \in [Downloads -> {"idle", "get", "write", "ready"}]
    /\ ~crossed => /\ \A d, e \in Busy : d = e
                   /\ \A d \in Downloads : download[d] = "ready" => file # "partial"
    /\ launched = "partial" => crossed

-----------------------------------------------------------------------------
(* The setup program and the Run key *)

\* A step of the running program neither starts it nor, unless it runs, writes
\* the Run key.
LEMMA RunningKeeps ==
    ASSUME Running
    PROVE  /\ app = "down" => app' = "down" /\ runKey' = runKey
<1> USE DEF Gone, At
<1>1. CASE Process
  BY <1>1 DEF Process, Started, StartFails, Exit
<1>2. CASE Others
  BY <1>2 DEF Others, Take, Release
<1>3. CASE Checks
  BY <1>3 DEF Checks, Check, EndCheck
<1>4. CASE Requests
  BY <1>4 DEF Requests, Save, Pause, Toggle, Begin
<1>5. ASSUME NEW c \in Callers, Steps(c) PROVE app = "down" => app' = "down" /\ runKey' = runKey
  BY <1>5 DEF Steps, Compare, Register, Refused, Restore, SetStartup, StartupFails,
              SetValue, SaveFails, Store, RetentionFails, RefreshTray
<1> QED BY <1>1, <1>2, <1>3, <1>4, <1>5 DEF Running

LEMMA DiskStart == DesktopInit => DiskInv
BY DEF DesktopInit, DiskInv, SetupInv, Off, Setups

\* A step of the running program, of an update and of the setup program each
\* leave to the others what those rely on.
LEMMA DiskStep == DiskInv /\ [DesktopNext]_allVars => DiskInv'
<1> SUFFICES ASSUME DiskInv, [DesktopNext]_allVars PROVE DiskInv'
  OBVIOUS
<1> USE DEF DiskInv, SetupInv, vars, update, removal
<1>1. CASE UNCHANGED allVars
  BY <1>1 DEF allVars, disk
<1>2. CASE LaunchProgram
  BY <1>2 DEF LaunchProgram, Launch
<1>3. CASE Run
  BY <1>3, RunningKeeps DEF Run, disk
<1>4. CASE Updates
  <2>1. ASSUME NEW d \in Downloads, LaunchSetup(d) PROVE DiskInv'
    BY <2>1 DEF LaunchSetup, Gone, Off, Setups
  <2> QED BY <1>4, <2>1 DEF Updates, disk, StartDownload, CreateFile, Verified, Mismatch,
                            DownloadFails, LaunchFails
<1>5. ASSUME NEW mode \in {"install", "update", "uninstall"}, StartSetup(mode) PROVE DiskInv'
  BY <1>5 DEF StartSetup, Off, Setups
<1>6. CASE StopRunning
  BY <1>6 DEF StopRunning, Step, Gone, Off, Setups
<1>7. CASE WriteProgram
  BY <1>7 DEF WriteProgram, Step, Off, Setups
<1>8. CASE WriteUninstaller
  BY <1>8 DEF WriteUninstaller, Step, Off, Setups
<1>9. CASE WriteEntry
  BY <1>9 DEF WriteEntry, Step, Off, Setups
<1>10. CASE WriteRunKey
  BY <1>10 DEF WriteRunKey, Finish, Off
<1>11. CASE RemoveRunKey
  <2>1. /\ app' = app /\ program' = program /\ entry' = entry /\ uninstaller' = uninstaller
        /\ leaving' = leaving
    BY <1>11 DEF RemoveRunKey
  <2>2. setup' = [setup EXCEPT !.pc = "remove"] /\ setup \in Setups
    BY <1>11 DEF RemoveRunKey, Step, Off
  <2>3. app # "down" => revived'
    BY <1>11 DEF RemoveRunKey
  <2>4. runKey' = "off" \/ undeleted'
    BY <1>11 DEF RemoveRunKey
  <2> QED BY <2>1, <2>2, <2>3, <2>4 DEF Setups
<1>12. CASE RemoveProgram
  BY <1>12 DEF RemoveProgram, Step, Off, Setups
<1>13. CASE RemoveEntry
  BY <1>13 DEF RemoveEntry, Step, Off, Setups
<1>14. CASE RemoveData
  BY <1>14 DEF RemoveData, Step, Off, Setups
<1>15. CASE RemoveSelf
  BY <1>15 DEF RemoveSelf, Finish, Off
<1>16. CASE SetupFails \/ Locked
  BY <1>16 DEF SetupFails, Locked, Off
<1>17. CASE DeleteSelf
  BY <1>17 DEF DeleteSelf
<1> QED
  BY <1>1, <1>2, <1>3, <1>4, <1>5, <1>6, <1>7, <1>8, <1>9, <1>10, <1>11, <1>12, <1>13,
     <1>14, <1>15, <1>16, <1>17 DEF DesktopNext, Installer

\* Wherever a setup stops, Windows is left with the command of a program that is
\* gone only if somebody started that program while it was being removed or the
\* removal could not delete the Run key, and never with that of an uninstaller
\* that is gone: the Run key and the entry are written after the files and removed
\* before them (install, uninstall).
THEOREM NothingLeftDangling == DesktopSpec => []NothingDangles
<1>1. DiskInv => NothingDangles
  BY DEF DiskInv, NothingDangles
<1> QED BY <1>1, DiskStart, DiskStep, PTL DEF DesktopSpec

-----------------------------------------------------------------------------
(* The update *)

LEMMA UpdateStart == DesktopInit => UpdateInv
BY DEF DesktopInit, UpdateInv, Busy

\* A step leaves the downloads to one writer of the file, unless they cross.
LEMMA UpdateStep == UpdateInv /\ [DesktopNext]_allVars => UpdateInv'
<1> SUFFICES ASSUME UpdateInv, [DesktopNext]_allVars PROVE UpdateInv'
  OBVIOUS
<1> USE DEF UpdateInv, Busy
<1>1. ASSUME UNCHANGED update PROVE UpdateInv'
  BY <1>1 DEF update
<1>2. CASE Run
  BY <1>2 DEF Run
<1>3. ASSUME NEW d \in Downloads, StartDownload(d) PROVE UpdateInv'
  BY <1>3 DEF StartDownload
<1>4. ASSUME NEW d \in Downloads, CreateFile(d) PROVE UpdateInv'
  BY <1>4 DEF CreateFile
<1>5. ASSUME NEW d \in Downloads, Verified(d) PROVE UpdateInv'
  <2>1. ~crossed => Busy = {d}
    BY <1>5 DEF Verified
  <2> QED BY <1>5, <2>1 DEF Verified
<1>6. ASSUME NEW d \in Downloads, Mismatch(d) PROVE UpdateInv'
  BY <1>6 DEF Mismatch
<1>7. ASSUME NEW d \in Downloads, DownloadFails(d) \/ LaunchFails(d) PROVE UpdateInv'
  BY <1>7 DEF DownloadFails, LaunchFails
<1>8. ASSUME NEW d \in Downloads, LaunchSetup(d) PROVE UpdateInv'
  BY <1>8 DEF LaunchSetup
<1>9. CASE StopRunning
  BY <1>9 DEF StopRunning
<1>10. CASE Installer /\ ~StopRunning
  BY <1>1, <1>10 DEF Installer, StartSetup, WriteProgram, WriteUninstaller, WriteEntry,
     WriteRunKey, RemoveRunKey, RemoveProgram, RemoveEntry, RemoveData, RemoveSelf, DeleteSelf,
     SetupFails, Locked
<1>11. CASE UNCHANGED allVars \/ LaunchProgram
  BY <1>1, <1>11 DEF allVars, LaunchProgram
<1> QED
  BY <1>2, <1>3, <1>4, <1>5, <1>6, <1>7, <1>8, <1>9, <1>10, <1>11 DEF DesktopNext, Updates

\* A file that is only partly downloaded is never started as the update, unless
\* two downloads shared its path (download_modern_update_installer_inner).
THEOREM OnlyVerifiedLaunched == DesktopSpec => []VerifiedIsLaunched
<1>1. UpdateInv => VerifiedIsLaunched
  BY DEF UpdateInv, VerifiedIsLaunched
<1> QED BY <1>1, UpdateStart, UpdateStep, PTL DEF DesktopSpec

\* Bringing the database up to date is no step of the program, the updates or the
\* setup program, and what comes after it is one: initialize runs before them all.
THEOREM StartUpIsDesktop == StartUpSpec => DesktopSpec
<1>1. StartUpInit => DesktopInit
  BY DEF StartUpInit
<1>2. [StartUpNext]_startVars => [DesktopNext]_allVars
  <2> SUFFICES ASSUME [StartUpNext]_startVars PROVE [DesktopNext]_allVars
    OBVIOUS
  <2>1. CASE Initialize
    BY <2>1 DEF Initialize, Open, AddColumn, Identify, Backfill, SkipSamples, AddSample,
       ComparePalette, WriteTheme, WriteAccent, SetMark, NextVersion, CutOff, Opening
  <2>2. CASE Launched
    BY <2>2 DEF Launched, DesktopNext
  <2>3. CASE Run \/ Updates \/ KeepDatabase
    BY <2>3 DEF KeepDatabase, DesktopNext
  <2>4. CASE RemoveDatabase
    BY <2>4 DEF RemoveDatabase, Installer, DesktopNext
  <2>5. ASSUME NEW p \in Palettes, Pick(p) PROVE UNCHANGED allVars
    BY <2>5 DEF Pick
  <2>6. CASE UNCHANGED startVars
    BY <2>6 DEF startVars
  <2> QED BY <2>1, <2>2, <2>3, <2>4, <2>5, <2>6 DEF StartUpNext
<1> QED BY <1>1, <1>2, PTL DEF StartUpSpec, DesktopSpec

\* The same, with the same two exceptions, whatever state the database is in when
\* the program starts (install, uninstall, initialize).
THEOREM NothingLeftDanglingByStart == StartUpSpec => []NothingDangles
BY StartUpIsDesktop, NothingLeftDangling, PTL

-----------------------------------------------------------------------------
(* The copies of the settings *)

Active(c) == call[c].pc # "idle"

\* The values of the settings and of the calls under way.
CallTyped(k) ==
    /\ k \in Calls \cup {Idle}
    /\ k.pc \in {"compare", "register", "restore", "startup"} => k.next = 1
    /\ k.pc = "save" => k.next \in 1..4
    /\ k.pc \in {"store", "done"} => k.next = 5

SettingsTyped ==
    /\ DOMAIN stored \subseteq Fields
    /\ "monitoring" \in DOMAIN stored => stored["monitoring"] \in Monitoring
    /\ "launch" \in DOMAIN stored => stored["launch"] \in Launches
    /\ "window" \in DOMAIN stored => stored["window"] \in Windows
    /\ "key" \in DOMAIN stored => stored["key"] \in Keys
    /\ runKey \in Startups
    /\ app \in {"down", "starting", "up"}
    /\ app # "down" => \E s \in CliplySettings : cache = {s}
    /\ DOMAIN call = Callers
    /\ \A c \in Callers : CallTyped(call[c])
    /\ app # "up" => checking = "none" /\ \A c \in Callers : call[c] = Idle

\* Two calls at once answer for nothing.
Lonely ==
    \A c, d \in Callers : c # d /\ Active(c) /\ Active(d) =>
        Copies \subseteq excused /\ ~call[c].alone
Solo(c) == call[c].alone \/ ~(Copies \subseteq excused)

\* What a call has stored so far.
Has(c, f) == f \in DOMAIN stored /\ stored[f] = call[c].draft[f]
SavedSoFar(c) ==
    call[c].pc \in {"save", "store", "done"} /\ Solo(c) =>
        /\ call[c].next > 1 => Has(c, "monitoring")
        /\ call[c].next > 2 => Has(c, "launch")
        /\ call[c].next > 3 => Has(c, "window")
        /\ call[c].next > 4 => Has(c, "key")

\* How each copy relates to the cached settings s, and when a call is about to
\* replace them, to its draft.
CacheAgrees(c, s) ==
    /\ call[c].pc = "done" /\ Solo(c) => s = call[c].draft
    /\ "cache" \notin excused /\ call[c].pc \notin {"save", "store"} =>
          \A f \in DOMAIN stored : stored[f] = s[f]

\* The window alone may be loaded differently: of a save that ended between launch
\* and window only the first is stored.  Whether the key is there is what counts.
StartupSet(c) == call[c].pc \in {"save", "store", "done"} /\ StartupWritten(c)
LoadedLaunch == IF "launch" \in DOMAIN stored THEN stored["launch"]
                ELSE IF runKey = "off" THEN "no" ELSE "yes"
RunKeyAgrees(c, s) ==
    /\ "runKey" \notin excused /\ ~StartupSet(c) => runKey = RunKeyOf(s) /\ LoadedLaunch = s.launch
    /\ StartupSet(c) /\ ("runKey" \notin excused \/ (call[c].alone /\ StartupMoved(c))) =>
          runKey = RunKeyOf(call[c].draft)
    /\ "runKey" \notin excused /\ call[c].pc \in {"register", "restore", "startup", "save", "store"}
          => call[c].prev.launch = s.launch

KeySet(c) == call[c].pc \in {"startup", "save", "store", "done"} /\ Moved(c, "key")
LoadedKey == IF "key" \in DOMAIN stored THEN stored["key"] ELSE DefaultKey
KeyAgrees(c, s) ==
    /\ "shortcut" \notin excused /\ ~KeySet(c) =>
          /\ LoadedKey = s.key
          /\ app = "up" /\ call[c].pc # "restore" => shortcut = s.key
    /\ "shortcut" \notin excused => checking = "none" \/ checking # shortcut
    /\ KeySet(c) /\ ("shortcut" \notin excused \/ call[c].alone) =>
          shortcut = call[c].draft.key /\ checking # shortcut
    /\ "shortcut" \notin excused /\ call[c].pc \in {"register", "restore", "startup", "save", "store"}
          => call[c].prev.key = s.key

TrayAgrees(c, s) == "tray" \notin excused /\ call[c].pc # "done" => tray = s.monitoring

Agree(c, s) ==
    SavedSoFar(c) /\ CacheAgrees(c, s) /\ RunKeyAgrees(c, s) /\ KeyAgrees(c, s) /\ TrayAgrees(c, s)

Alone(c) == \A d \in Callers : d # c => ~Active(d)
Copied ==
    \A c \in Callers, s \in CliplySettings :
        app # "down" /\ cache = {s} /\ Alone(c) => Agree(c, s)

SettingsInv == SettingsTyped /\ Lonely /\ Copied

\* The fields of a call under way.
LEMMA CallFields ==
    ASSUME NEW k \in Calls
    PROVE  /\ k.pc \in {"compare", "register", "restore", "startup", "save", "store", "refresh", "done"}
           /\ k.draft \in CliplySettings /\ k.prev \in CliplySettings /\ k.next \in 1..5
           /\ k.alone \in BOOLEAN
BY DEF Calls

LEMMA SettingsFields ==
    ASSUME NEW s \in CliplySettings
    PROVE  /\ s.monitoring \in Monitoring /\ s["monitoring"] = s.monitoring
           /\ s.launch \in Launches /\ s["launch"] = s.launch
           /\ s.window \in Windows /\ s["window"] = s.window
           /\ s.key \in Keys /\ s["key"] = s.key
           /\ RunKeyOf(s) \in Startups
BY DEF CliplySettings, RunKeyOf, Startups, Windows

LEMMA OneCached ==
    ASSUME NEW s \in CliplySettings, NEW x, x = {s}
    PROVE  (CHOOSE t \in CliplySettings : x = {t}) = s
<1>1. \A t \in CliplySettings : x = {t} => t = s
  OBVIOUS
<1> QED BY <1>1

\* load_settings gives a value of its type to every setting.
LEMMA LoadedFields ==
    ASSUME SettingsTyped
    PROVE  /\ Loaded \in CliplySettings
           /\ Loaded.launch = LoadedLaunch /\ Loaded.key = LoadedKey
           /\ runKey = "off" /\ "launch" \notin DOMAIN stored => Loaded.launch = "no"
           /\ \A f \in DOMAIN stored : stored[f] = Loaded[f]
<1>1. /\ Loaded["monitoring"] = IF "monitoring" \in DOMAIN stored THEN stored["monitoring"] ELSE "on"
      /\ Loaded["launch"] = LoadedLaunch
      /\ Loaded["window"] = IF "window" \in DOMAIN stored THEN stored["window"]
                            ELSE IF "launch" \in DOMAIN stored \/ runKey = "off" THEN "shown"
                            ELSE runKey
      /\ Loaded["key"] = LoadedKey
      /\ DOMAIN Loaded = {"monitoring", "launch", "window", "key"}
  BY DEF Loaded, Default, Fields, LoadedLaunch, LoadedKey
<1>2. /\ Loaded["monitoring"] \in Monitoring
      /\ Loaded["launch"] \in Launches /\ Loaded["window"] \in Windows
      /\ Loaded["key"] \in Keys
  BY <1>1, SettingsAssumption
     DEF SettingsTyped, LoadedLaunch, LoadedKey, Monitoring, Launches, Windows, Startups
<1>3. Loaded = [monitoring |-> Loaded["monitoring"], launch |-> Loaded["launch"],
                window |-> Loaded["window"], key |-> Loaded["key"]]
  BY <1>1 DEF Loaded, Fields
<1>4. Loaded \in CliplySettings
  BY <1>2, <1>3 DEF CliplySettings
<1>5. \A f \in DOMAIN stored : stored[f] = Loaded[f]
  BY DEF Loaded, SettingsTyped
<1> QED BY <1>1, <1>4, <1>5 DEF LoadedLaunch

\* A call under way is a record of its type; the one that has ended is Idle.
LEMMA ActiveCall ==
    ASSUME SettingsTyped, NEW c \in Callers
    PROVE  /\ Active(c) => call[c] \in Calls
           /\ ~Active(c) => call[c] = Idle
           /\ Idle.pc = "idle"
<1>1. \A k \in Calls : k.pc # "idle"
  BY CallFields
<1> QED BY <1>1 DEF SettingsTyped, CallTyped, Active, Idle

LEMMA MoveOn ==
    ASSUME SettingsTyped, NEW c \in Callers, Active(c),
           NEW p \in {"startup", "save", "store", "restore", "refresh", "done"}, To(c, p)
    PROVE  /\ DOMAIN call' = Callers /\ call'[c] \in Calls /\ call'[c].pc = p
           /\ call'[c].draft = call[c].draft /\ call'[c].prev = call[c].prev
           /\ call'[c].next = call[c].next /\ call'[c].alone = call[c].alone
           /\ \A d \in Callers : d # c => call'[d] = call[d]
<1>1. call[c] \in Calls /\ DOMAIN call = Callers
  BY ActiveCall DEF SettingsTyped
<1> QED BY <1>1 DEF To, Calls

LEMMA MoveEnd ==
    ASSUME SettingsTyped, NEW c \in Callers, End(c)
    PROVE  /\ DOMAIN call' = Callers /\ call'[c] = Idle
           /\ \A d \in Callers : d # c => call'[d] = call[d]
BY DEF End, SettingsTyped

\* A call that ends with an error.
LEMMA MoveFailed ==
    ASSUME SettingsTyped, NEW c \in Callers, Active(c), Failed(c)
    PROVE  /\ DOMAIN call' = Callers
           /\ \/ call'[c] = Idle
              \/ /\ call'[c] \in Calls /\ call'[c].pc = "refresh"
                 /\ call'[c].alone = call[c].alone
           /\ \A d \in Callers : d # c => call'[d] = call[d]
BY MoveOn, MoveEnd DEF Failed

\* What a step of a call changes besides that call, and what it excuses.
LEMMA StepsFrame ==
    ASSUME SettingsTyped, NEW c \in Callers, Steps(c)
    PROVE  /\ app = "up" /\ app' = app /\ checking' = checking /\ Active(c)
           /\ DOMAIN call' = Callers
           /\ \A d \in Callers : d # c => call'[d] = call[d]
           /\ CallTyped(call'[c])
           /\ call'[c] = Idle \/ (call'[c].alone => call[c].alone)
           /\ excused \subseteq excused' \/ (call[c].alone /\ call'[c] = Idle)
<1> USE DEF At, CallTyped
<1>0. /\ Active(c) => call[c] \in Calls /\ CallTyped(call[c])
      /\ \A k \in Calls : k.pc \in {"compare", "register", "restore", "startup", "save", "store", "refresh", "done"}
      /\ Idle.pc = "idle" /\ DOMAIN call = Callers
  BY ActiveCall, CallFields DEF SettingsTyped
<1>1. CASE Compare(c)
  <2>1. /\ app = "up" /\ app' = app /\ checking' = checking /\ Active(c) /\ excused' = excused
        /\ call[c].pc = "compare"
    BY <1>1 DEF Compare, Active
  <2>2. call[c] \in Calls /\ call[c].next = 1
    BY <1>0, <2>1
  <2>3. PICK p \in {"register", "startup"} :
          call' = [call EXCEPT ![c].prev = Loaded, ![c].pc = p]
    BY <1>1 DEF Compare
  <2>4. call'[c] \in Calls /\ call'[c].pc = p /\ call'[c].next = 1 /\ call'[c].alone = call[c].alone
        /\ DOMAIN call' = Callers
        /\ \A d \in Callers : d # c => call'[d] = call[d]
    BY <1>0, <2>2, <2>3, LoadedFields DEF Calls
  <2> QED BY <2>1, <2>4
<1>2. CASE Register(c)
  <2>1. /\ app = "up" /\ app' = app /\ checking' = checking /\ Active(c) /\ excused \subseteq excused'
        /\ call[c].pc = "register"
        /\ call' = [call EXCEPT ![c].pc = "startup", ![c].alone = @ /\ checking # call[c].draft.key]
    BY <1>2 DEF Register, Registered, Active
  <2>2. call[c] \in Calls /\ call[c].next = 1 /\ call[c].alone \in BOOLEAN
    BY <1>0, <2>1, CallFields
  <2>3. (call[c].alone /\ checking # call[c].draft.key) \in BOOLEAN
    OBVIOUS
  <2>4. call'[c] = [call[c] EXCEPT !.pc = "startup", !.alone = call[c].alone /\ checking # call[c].draft.key]
        /\ DOMAIN call' = Callers
        /\ \A d \in Callers : d # c => call'[d] = call[d]
    BY <1>0, <2>1
  <2> DEFINE a == call[c].alone /\ checking # call[c].draft.key
  <2>5. a \in BOOLEAN /\ (a => call[c].alone) /\ call'[c] = [call[c] EXCEPT !.pc = "startup", !.alone = a]
    BY <2>4
  <2> HIDE DEF a
  <2>6. call'[c] \in Calls /\ call'[c].pc = "startup" /\ call'[c].next = 1 /\ call'[c].alone = a
    BY <2>2, <2>5 DEF Calls
  <2> QED BY <2>1, <2>4, <2>5, <2>6
<1>3. CASE Refused(c)
  <2>1. call[c].pc = "register" /\ Active(c) /\ To(c, "restore")
    BY <1>3 DEF Refused, Active
  <2> QED BY <1>0, <1>3, <2>1, MoveOn DEF Refused
<1>4. CASE Restore(c)
  <2>1. call[c].pc = "restore" /\ Active(c) /\ Failed(c) /\ excused \subseteq excused'
    BY <1>4 DEF Restore, Registered, Active
  <2> QED BY <1>0, <1>4, <2>1, MoveFailed DEF Restore
<1>5. CASE SetStartup(c)
  <2>1. call[c].pc = "startup" /\ Active(c) /\ To(c, "save")
    BY <1>5 DEF SetStartup, Active
  <2> QED BY <1>0, <1>5, <2>1, MoveOn DEF SetStartup
<1>6. CASE StartupFails(c)
  <2>1. call[c].pc = "startup" /\ Active(c) /\ (Failed(c) \/ To(c, "save")) /\ excused \subseteq excused'
    BY <1>6 DEF StartupFails, Active
  <2> QED BY <1>0, <1>6, <2>1, MoveFailed, MoveOn DEF StartupFails
<1>7. CASE SetValue(c)
  <2>1. /\ app = "up" /\ app' = app /\ checking' = checking /\ Active(c) /\ excused' = excused
        /\ call[c].pc = "save"
        /\ call' = [call EXCEPT ![c].next = @ + 1,
                                ![c].pc = IF call[c].next = 4 THEN "store" ELSE "save"]
    BY <1>7 DEF SetValue, Active, Order
  <2>2. call[c] \in Calls /\ call[c].next \in 1..4
    BY <1>0, <2>1
  <2>3. /\ call'[c] = [call[c] EXCEPT !.next = call[c].next + 1,
                                      !.pc = IF call[c].next = 4 THEN "store" ELSE "save"]
        /\ DOMAIN call' = Callers /\ \A d \in Callers : d # c => call'[d] = call[d]
    BY <1>0, <2>1
  <2>4. /\ call'[c] \in Calls /\ call'[c].next = call[c].next + 1 /\ call'[c].alone = call[c].alone
        /\ call'[c].pc = IF call[c].next = 4 THEN "store" ELSE "save"
    <3>1. CASE call[c].next = 4
      <4>1. call'[c] = [call[c] EXCEPT !.next = 5, !.pc = "store"]
        BY <2>3, <3>1
      <4>2. call'[c] \in Calls
        <5>1. ASSUME NEW n \in 1..5, call'[c] = [call[c] EXCEPT !.next = n, !.pc = "store"]
              PROVE  call'[c] \in Calls
          BY <2>2, <5>1 DEF Calls
        <5>2. 5 \in 1..5
          OBVIOUS
        <5> QED BY <4>1, <5>1, <5>2
      <4>3. call'[c].next = 5 /\ call'[c].pc = "store" /\ call'[c].alone = call[c].alone
        BY <2>2, <4>1 DEF Calls
      <4>4. call[c].next + 1 = 5
        BY <3>1
      <4> QED BY <3>1, <4>2, <4>3, <4>4
    <3>2. CASE call[c].next # 4
      <4>1. call'[c] = [call[c] EXCEPT !.next = call[c].next + 1, !.pc = "save"]
        BY <2>3, <3>2
      <4>2. call[c].next + 1 \in 1..5
        BY <2>2
      <4> QED BY <2>2, <3>2, <4>1, <4>2 DEF Calls
    <3> QED BY <3>1, <3>2
  <2> QED BY <2>1, <2>2, <2>3, <2>4
<1>8. CASE SaveFails(c)
  <2>1. call[c].pc = "save" /\ Active(c) /\ Failed(c) /\ excused \subseteq excused'
    BY <1>8 DEF SaveFails, Active
  <2> QED BY <1>0, <1>8, <2>1, MoveFailed DEF SaveFails
<1>9. CASE Store(c)
  <2>1. call[c].pc = "store" /\ Active(c) /\ To(c, "done")
    BY <1>9 DEF Store, Active
  <2> QED BY <1>0, <1>9, <2>1, MoveOn DEF Store
<1>10. CASE RetentionFails(c)
  <2>1. call[c].pc = "done" /\ Active(c) /\ End(c)
    BY <1>10 DEF RetentionFails, Active
  <2> QED BY <1>0, <1>10, <2>1, MoveEnd DEF RetentionFails
<1>11. CASE RefreshTray(c)
  <2>1. call[c].pc \in {"done", "refresh"} /\ Active(c) /\ End(c)
        /\ (excused' = excused \/ call[c].alone)
    BY <1>11 DEF RefreshTray, Active
  <2> QED BY <1>0, <1>11, <2>1, MoveEnd DEF RefreshTray
<1> QED
  BY <1>1, <1>2, <1>3, <1>4, <1>5, <1>6, <1>7, <1>8, <1>9, <1>10, <1>11 DEF Steps

\* set_value stores one field of the draft, in the order of the code.
LEMMA ValueStored ==
    ASSUME SettingsTyped, NEW c \in Callers, SetValue(c)
    PROVE  \E f \in Fields :
             /\ DOMAIN stored' = DOMAIN stored \cup {f}
             /\ stored'[f] = call[c].draft[f]
             /\ \A g \in DOMAIN stored : g # f => stored'[g] = stored[g]
             /\ call[c].next = 1 => f = "monitoring"
             /\ call[c].next = 2 => f = "launch"
             /\ call[c].next = 3 => f = "window"
             /\ call[c].next = 4 => f = "key"
<1>1. call[c].next \in 1..4
  BY DEF SetValue, At, SettingsTyped, CallTyped
<1>2. PICK f : f = Order[call[c].next]
  OBVIOUS
<1>3. /\ f \in Fields
      /\ call[c].next = 1 => f = "monitoring"
      /\ call[c].next = 2 => f = "launch"
      /\ call[c].next = 3 => f = "window"
      /\ call[c].next = 4 => f = "key"
  BY <1>1, <1>2 DEF Order, Fields
<1>4. stored' = [g \in DOMAIN stored \cup {f} |-> IF g = f THEN call[c].draft[f] ELSE stored[g]]
  BY <1>2 DEF SetValue
<1> QED BY <1>3, <1>4

LEMMA SettingsTypedSteps ==
    ASSUME SettingsTyped, NEW c \in Callers, Steps(c)
    PROVE  SettingsTyped'
<1>1. \A d \in Callers : CallTyped(call'[d])
  BY StepsFrame DEF SettingsTyped
<1>2. Active(c) /\ call[c] \in Calls /\ call[c].draft \in CliplySettings
      /\ call[c].draft["monitoring"] \in Monitoring /\ call[c].draft["launch"] \in Launches
      /\ call[c].draft["window"] \in Windows /\ call[c].draft["key"] \in Keys
      /\ RunKeyOf(call[c].draft) \in Startups
  BY StepsFrame, ActiveCall, CallFields, SettingsFields
<1>3. /\ DOMAIN stored' \subseteq Fields
      /\ "monitoring" \in DOMAIN stored' => stored'["monitoring"] \in Monitoring
      /\ "launch" \in DOMAIN stored' => stored'["launch"] \in Launches
      /\ "window" \in DOMAIN stored' => stored'["window"] \in Windows
      /\ "key" \in DOMAIN stored' => stored'["key"] \in Keys
  <2>1. CASE SetValue(c)
    BY <1>2, <2>1, ValueStored DEF SettingsTyped, Fields
  <2>2. CASE ~SetValue(c)
    <3>1. stored' = stored
      BY <2>2 DEF Steps, Compare, Register, Refused, Restore, SetStartup, StartupFails, SaveFails,
         Store, RetentionFails, RefreshTray
    <3> QED BY <3>1 DEF SettingsTyped
  <2> QED BY <2>1, <2>2
<1>4. runKey' = runKey \/ runKey' = RunKeyOf(call[c].draft)
  BY DEF Steps, Compare, Register, Refused, Restore, SetStartup, StartupFails, SetValue, SaveFails,
     Store, RetentionFails, RefreshTray
<1>5. cache' = cache \/ cache' = {call[c].draft}
  BY DEF Steps, Compare, Register, Refused, Restore, SetStartup, StartupFails, SetValue, SaveFails,
     Store, RetentionFails, RefreshTray
<1> QED BY <1>1, <1>2, <1>3, <1>4, <1>5, StepsFrame DEF SettingsTyped

\* What a step of a call leaves of the copies is what its next state says of them.
LEMMA AgreeSteps ==
    ASSUME SettingsTyped, NEW c \in Callers, Steps(c), SettingsTyped',
           NEW r \in CliplySettings, NEW s \in CliplySettings, cache = {r}, cache' = {s}, Agree(c, r)
    PROVE  Agree(c, s)'
<1> DEFINE k == call[c]
<1>0. /\ k \in Calls /\ CallTyped(k) /\ k.pc # "idle" /\ Idle.pc = "idle"
      /\ k.draft \in CliplySettings /\ k.prev \in CliplySettings
      /\ Cached = r /\ app = "up" /\ app' = "up" /\ checking' = checking
      /\ DOMAIN stored \subseteq Fields
  BY StepsFrame, ActiveCall, CallFields, OneCached DEF SettingsTyped, Cached, Active
<1>a. /\ k.draft["launch"] = k.draft.launch /\ k.prev["launch"] = k.prev.launch
      /\ k.draft["window"] = k.draft.window /\ k.prev["window"] = k.prev.window
      /\ k.draft["key"] = k.draft.key /\ k.prev["key"] = k.prev.key
      /\ k.draft["monitoring"] = k.draft.monitoring
      /\ s["monitoring"] = s.monitoring /\ s["launch"] = s.launch /\ s["key"] = s.key
  BY <1>0, SettingsFields
<1>1. CASE Compare(c)
  <2>1. PICK p \in {"register", "startup"} :
          /\ call' = [call EXCEPT ![c].prev = Loaded, ![c].pc = p]
          /\ Loaded.key = k.draft.key => p = "startup"
          /\ Loaded.key # k.draft.key => p = "register"
    BY <1>1 DEF Compare
  <2>2. /\ k.pc = "compare"
        /\ call'[c].pc = p /\ call'[c].prev = Loaded /\ call'[c].draft = k.draft
        /\ call'[c].alone = k.alone
    BY <1>0, <1>1, <2>1 DEF Compare, At, Calls, SettingsTyped
  <2>3. UNCHANGED <<stored, runKey, shortcut, tray, excused>> /\ s = r
    BY <1>1 DEF Compare
  <2>4. Loaded.launch = LoadedLaunch /\ Loaded.key = LoadedKey
    BY LoadedFields
  <2>5. SavedSoFar(c)'
    BY <2>2 DEF SavedSoFar
  <2>6. CacheAgrees(c, s)'
    BY <2>2, <2>3 DEF CacheAgrees, Agree
  <2>7. RunKeyAgrees(c, s)'
    BY <2>2, <2>3, <2>4 DEF RunKeyAgrees, Agree, StartupSet, LoadedLaunch
  <2>8. KeyAgrees(c, s)'
    <3>1. ~KeySet(c) /\ ~KeySet(c)'
      <4>1. CASE p = "register"
        BY <2>2, <4>1 DEF KeySet
      <4>2. CASE p = "startup"
        <5>1. Loaded.key = k.draft.key
          BY <2>1, <4>2
        <5>2. Loaded["key"] = k.draft["key"]
          BY <1>0, <5>1, LoadedFields, SettingsFields
        <5> QED BY <2>2, <5>2 DEF KeySet, Moved
      <4> QED BY <4>1, <4>2
    <3> QED BY <1>0, <2>2, <2>3, <2>4, <3>1 DEF KeyAgrees, Agree, LoadedKey
  <2>9. TrayAgrees(c, s)'
    BY <2>2, <2>3 DEF TrayAgrees, Agree
  <2> QED BY <2>5, <2>6, <2>7, <2>8, <2>9 DEF Agree
<1>2. CASE Register(c)
  <2>1. /\ k.pc = "register" /\ call'[c].pc = "startup" /\ call'[c].prev = k.prev
        /\ call'[c].draft = k.draft
        /\ call'[c].alone = (k.alone /\ checking # k.draft.key)
    <3>1. /\ k.pc = "register"
          /\ call'[c] = [k EXCEPT !.pc = "startup", !.alone = k.alone /\ checking # k.draft.key]
      BY <1>2 DEF Register, At, SettingsTyped
    <3> QED BY <1>0, <3>1 DEF Calls
  <2>2. /\ UNCHANGED <<stored, runKey, tray>> /\ s = r
        /\ shortcut' = k.draft.key
        /\ excused \subseteq excused'
        /\ checking = k.draft.key => "shortcut" \in excused'
        /\ checking # k.draft.key => excused' = excused
        /\ excused' \ {"shortcut"} \subseteq excused
    BY <1>2 DEF Register, Registered
  <2>3. SavedSoFar(c)'
    BY <2>1 DEF SavedSoFar
  <2>4. CacheAgrees(c, s)'
    BY <2>1, <2>2 DEF CacheAgrees, Agree
  <2>5. RunKeyAgrees(c, s)'
    BY <2>1, <2>2 DEF RunKeyAgrees, Agree, StartupSet, LoadedLaunch
  <2>6. KeyAgrees(c, s)'
    <3>1. KeySet(c)' <=> k.prev.key # k.draft.key
      BY <1>a, <2>1 DEF KeySet, Moved
    <3>2. ~KeySet(c)
      BY <2>1 DEF KeySet
    <3>3. "shortcut" \notin excused' => checking # k.draft.key /\ k.prev.key = s.key /\ LoadedKey = s.key
      BY <2>1, <2>2, <3>2 DEF KeyAgrees, Agree
    <3> QED BY <1>0, <2>1, <2>2, <3>1, <3>3 DEF KeyAgrees, LoadedKey
  <2>7. TrayAgrees(c, s)'
    BY <2>1, <2>2 DEF TrayAgrees, Agree
  <2> QED BY <2>3, <2>4, <2>5, <2>6, <2>7 DEF Agree
<1>3. CASE Refused(c)
  <2>1. /\ k.pc = "register" /\ call'[c].pc = "restore" /\ call'[c].prev = k.prev
        /\ call'[c].draft = k.draft /\ call'[c].alone = k.alone
    BY <1>0, <1>3, MoveOn DEF Refused, At, Active
  <2>2. UNCHANGED <<stored, runKey, tray, excused>> /\ s = r /\ shortcut' = "none"
    BY <1>3 DEF Refused
  <2>3. SavedSoFar(c)' /\ CacheAgrees(c, s)' /\ TrayAgrees(c, s)'
    BY <2>1, <2>2 DEF SavedSoFar, CacheAgrees, TrayAgrees, Agree
  <2>4. RunKeyAgrees(c, s)'
    BY <2>1, <2>2 DEF RunKeyAgrees, Agree, StartupSet, LoadedLaunch
  <2>5. ~KeySet(c) /\ ~KeySet(c)'
    BY <2>1 DEF KeySet
  <2>6. checking = "none" \/ checking # "none"
    OBVIOUS
  <2>7. KeyAgrees(c, s)'
    BY <1>0, <2>1, <2>2, <2>5, <2>6 DEF KeyAgrees, Agree, LoadedKey
  <2> QED BY <2>3, <2>4, <2>7 DEF Agree
\* A call that ends with an error, before it has saved anything.
<1>4. ASSUME Failed(c), UNCHANGED <<stored, runKey, cache, tray>>, excused \subseteq excused',
             k.pc \in {"restore", "startup"} \/ (k.pc = "save" /\ "cache" \in excused'),
             StartupSet(c) => "runKey" \in excused',
             "shortcut" \notin excused' =>
                 LoadedKey = s.key /\ shortcut' = s.key /\ (checking = "none" \/ checking # shortcut')
      PROVE  Agree(c, s)'
  <2>1. call'[c].pc \in {"idle", "refresh"} /\ s = r
    BY <1>0, <1>4, MoveFailed DEF Active
  <2>2. SavedSoFar(c)' /\ CacheAgrees(c, s)' /\ TrayAgrees(c, s)'
    BY <1>0, <1>4, <2>1 DEF SavedSoFar, CacheAgrees, TrayAgrees, Agree
  <2>3. RunKeyAgrees(c, s)'
    BY <1>4, <2>1 DEF RunKeyAgrees, Agree, StartupSet, LoadedLaunch
  <2>4. KeyAgrees(c, s)'
    BY <1>0, <1>4, <2>1 DEF KeyAgrees, KeySet, LoadedKey
  <2> QED BY <2>2, <2>3, <2>4 DEF Agree
<1>5. CASE Restore(c)
  <2>1. /\ k.pc = "restore" /\ Failed(c) /\ UNCHANGED <<stored, runKey, cache, tray>> /\ s = r
        /\ excused \subseteq excused'
        /\ "shortcut" \notin excused' => shortcut' = k.prev.key /\ checking # k.prev.key
    BY <1>5 DEF Restore, Registered, At
  <2>2. ~KeySet(c) /\ ~StartupSet(c)
    BY <2>1 DEF KeySet, StartupSet
  <2>3. "shortcut" \notin excused' => LoadedKey = s.key /\ k.prev.key = s.key
    BY <2>1, <2>2 DEF Agree, KeyAgrees
  <2> QED BY <1>4, <2>1, <2>2, <2>3
<1>6. CASE SetStartup(c)
  <2>1. /\ k.pc = "startup" /\ call'[c].pc = "save" /\ call'[c].prev = k.prev
        /\ call'[c].draft = k.draft /\ call'[c].alone = k.alone
        /\ call'[c].next = k.next /\ k.next = 1
    BY <1>0, <1>6, MoveOn DEF SetStartup, At, Active, CallTyped
  <2>2. /\ UNCHANGED <<stored, shortcut, tray, excused>> /\ s = r
        /\ runKey' = IF StartupWritten(c) THEN RunKeyOf(k.draft) ELSE runKey
    BY <1>6 DEF SetStartup
  <2>3. SavedSoFar(c)' /\ CacheAgrees(c, s)' /\ TrayAgrees(c, s)'
    BY <2>1, <2>2 DEF SavedSoFar, CacheAgrees, TrayAgrees, Agree
  <2>4. /\ ~StartupSet(c)
        /\ StartupSet(c)' <=> StartupWritten(c)
    BY <2>1 DEF StartupSet, StartupWritten, StartupMoved, Moved
  <2>5. RunKeyAgrees(c, s)'
    BY <2>1, <2>2, <2>4 DEF RunKeyAgrees, Agree, LoadedLaunch
  <2>6. KeySet(c)' <=> KeySet(c)
    BY <2>1 DEF KeySet, Moved
  <2>7. KeyAgrees(c, s)'
    BY <1>0, <2>1, <2>2, <2>6 DEF KeyAgrees, Agree, LoadedKey
  <2> QED BY <2>3, <2>5, <2>7 DEF Agree
<1>7. CASE StartupFails(c)
  <2>1. k.pc = "startup" /\ UNCHANGED <<stored, runKey, cache, shortcut, tray>> /\ s = r
    BY <1>7 DEF StartupFails, At
  <2>2. CASE Failed(c) /\ excused' = excused \cup {x \in {"shortcut"} : Moved(c, "key")}
    <3>1. ~StartupSet(c) /\ ("shortcut" \notin excused' => ~KeySet(c) /\ "shortcut" \notin excused)
      BY <2>1, <2>2 DEF StartupSet, KeySet
    <3>2. "shortcut" \notin excused' =>
             LoadedKey = s.key /\ shortcut' = s.key /\ (checking = "none" \/ checking # shortcut')
      BY <1>0, <2>1, <3>1 DEF Agree, KeyAgrees
    <3> QED BY <1>4, <2>1, <2>2, <3>1, <3>2
  <2>3. CASE /\ To(c, "save") /\ ~StartupMoved(c) /\ StartupWritten(c)
             /\ excused' = excused \cup {x \in {"runKey"} : runKey # RunKeyOf(k.draft)}
    <3>1. /\ call'[c].pc = "save" /\ call'[c].prev = k.prev
          /\ call'[c].draft = k.draft /\ call'[c].alone = k.alone
          /\ call'[c].next = k.next /\ k.next = 1
      BY <1>0, <2>1, <2>3, MoveOn DEF Active, CallTyped
    <3>2. SavedSoFar(c)' /\ CacheAgrees(c, s)' /\ TrayAgrees(c, s)'
      BY <2>1, <2>3, <3>1 DEF SavedSoFar, CacheAgrees, TrayAgrees, Agree
    <3>3. ~StartupSet(c) /\ StartupSet(c)' /\ ~StartupMoved(c)'
      BY <2>1, <2>3, <3>1 DEF StartupSet, StartupWritten, StartupMoved, Moved
    <3>4. RunKeyAgrees(c, s)'
      BY <2>1, <2>3, <3>1, <3>3 DEF RunKeyAgrees, Agree
    <3>5. KeySet(c)' <=> KeySet(c)
      BY <2>1, <3>1 DEF KeySet, Moved
    <3>6. KeyAgrees(c, s)'
      BY <1>0, <2>1, <2>3, <3>1, <3>5 DEF KeyAgrees, Agree, LoadedKey
    <3> QED BY <3>2, <3>4, <3>6 DEF Agree
  <2> QED BY <1>7, <2>2, <2>3 DEF StartupFails
<1>8. CASE SetValue(c)
  <2>1. PICK f \in Fields :
             /\ DOMAIN stored' = DOMAIN stored \cup {f}
             /\ stored'[f] = k.draft[f]
             /\ \A g \in DOMAIN stored : g # f => stored'[g] = stored[g]
             /\ k.next = 1 => f = "monitoring"
             /\ k.next = 2 => f = "launch"
             /\ k.next = 3 => f = "window"
             /\ k.next = 4 => f = "key"
    BY <1>8, ValueStored
  <2>2. /\ k.pc = "save" /\ k.next \in 1..4 /\ UNCHANGED <<runKey, shortcut, tray, excused>> /\ s = r
        /\ call'[c].pc = IF k.next = 4 THEN "store" ELSE "save"
        /\ call'[c].next = k.next + 1 /\ call'[c].draft = k.draft /\ call'[c].prev = k.prev
        /\ call'[c].alone = k.alone
    <3>1. /\ k.pc = "save" /\ k.next \in 1..4 /\ UNCHANGED <<runKey, shortcut, tray, excused>> /\ s = r
          /\ call'[c] = [k EXCEPT !.next = k.next + 1, !.pc = IF k.next = 4 THEN "store" ELSE "save"]
      BY <1>0, <1>8 DEF SetValue, At, CallTyped, Order, SettingsTyped
    <3> QED BY <1>0, <3>1 DEF Calls
  <2>3. Solo(c)' <=> Solo(c)
    BY <2>2 DEF Solo
  <2>4. SavedSoFar(c)'
    <3>1. SUFFICES ASSUME Solo(c)
                   PROVE  /\ k.next + 1 > 1 => Has(c, "monitoring")'
                          /\ k.next + 1 > 2 => Has(c, "launch")'
                          /\ k.next + 1 > 3 => Has(c, "window")'
                          /\ k.next + 1 > 4 => Has(c, "key")'
      BY <2>2, <2>3 DEF SavedSoFar
    <3>2. /\ k.next > 1 => Has(c, "monitoring")
          /\ k.next > 2 => Has(c, "launch")
          /\ k.next > 3 => Has(c, "window")
      BY <2>2, <3>1 DEF Agree, SavedSoFar
    <3> QED BY <2>1, <2>2, <3>2 DEF Has
  <2>5. CacheAgrees(c, s)' /\ TrayAgrees(c, s)'
    BY <2>2 DEF CacheAgrees, TrayAgrees, Agree
  <2>6. (StartupWritten(c)' <=> StartupWritten(c)) /\ (StartupMoved(c)' <=> StartupMoved(c))
    BY <2>2 DEF StartupWritten, StartupMoved, Moved
  <2>7. (StartupSet(c) <=> StartupWritten(c)) /\ (StartupSet(c)' <=> StartupWritten(c))
    BY <2>2, <2>6 DEF StartupSet
  <2>8. LoadedLaunch' = LoadedLaunch \/ LoadedLaunch' = k.draft.launch
    BY <1>a, <2>1, <2>2 DEF LoadedLaunch
  <2>14. ~StartupWritten(c) => k.prev.launch = k.draft.launch
    BY <1>a DEF StartupWritten, StartupMoved, Moved
  <2>9. RunKeyAgrees(c, s)'
    BY <2>2, <2>6, <2>7, <2>8, <2>14 DEF RunKeyAgrees, Agree
  <2>10. KeySet(c) <=> k.prev.key # k.draft.key
    BY <1>a, <2>2 DEF KeySet, Moved
  <2>11. KeySet(c)' <=> k.prev.key # k.draft.key
    BY <1>a, <2>2 DEF KeySet, Moved
  <2>12. LoadedKey' = LoadedKey \/ LoadedKey' = k.draft.key
    BY <1>a, <2>1, <2>2 DEF LoadedKey
  <2>13. KeyAgrees(c, s)'
    BY <1>0, <2>2, <2>10, <2>11, <2>12 DEF KeyAgrees, Agree
  <2> QED BY <2>4, <2>5, <2>9, <2>13 DEF Agree
<1>9. CASE SaveFails(c)
  <2>1. /\ k.pc = "save" /\ Failed(c) /\ UNCHANGED <<stored, runKey, cache, shortcut, tray>> /\ s = r
        /\ excused \subseteq excused' /\ "cache" \in excused'
        /\ Moved(c, "key") => "shortcut" \in excused'
        /\ StartupWritten(c) => "runKey" \in excused'
    BY <1>9 DEF SaveFails, At
  <2>2. /\ StartupSet(c) => "runKey" \in excused'
        /\ "shortcut" \notin excused' => ~KeySet(c) /\ "shortcut" \notin excused
    BY <2>1 DEF StartupSet, KeySet
  <2>3. "shortcut" \notin excused' =>
           LoadedKey = s.key /\ shortcut' = s.key /\ (checking = "none" \/ checking # shortcut')
    BY <1>0, <2>1, <2>2 DEF Agree, KeyAgrees
  <2> QED BY <1>4, <2>1, <2>2, <2>3
\* What has been saved is what will be loaded.
<1>10. ASSUME Solo(c), k.pc \in {"store", "done"}
       PROVE  /\ \A f \in DOMAIN stored : stored[f] = k.draft[f]
              /\ LoadedLaunch = k.draft.launch /\ LoadedKey = k.draft.key
  <2>1. k.next = 5
    BY <1>0, <1>10 DEF CallTyped
  <2>2. Has(c, "monitoring") /\ Has(c, "launch") /\ Has(c, "window") /\ Has(c, "key")
    BY <1>10, <2>1 DEF Agree, SavedSoFar
  <2> QED BY <1>0, <1>a, <2>2 DEF Has, LoadedLaunch, LoadedKey, Fields
<1>11. CASE Store(c)
  <2>1. /\ k.pc = "store" /\ call'[c].pc = "done" /\ call'[c].prev = k.prev
        /\ call'[c].draft = k.draft /\ call'[c].alone = k.alone /\ call'[c].next = k.next
        /\ UNCHANGED <<stored, runKey, shortcut, tray, excused>> /\ s = k.draft
    BY <1>0, <1>11, MoveOn DEF Store, At, Active
  <2>2. \A x \in Copies : x \notin excused => Solo(c)
    BY DEF Solo
  <2>3. SavedSoFar(c)'
    BY <2>1 DEF SavedSoFar, Agree, Solo, Has
  <2>4. CacheAgrees(c, s)' /\ TrayAgrees(c, s)'
    BY <1>10, <2>1, <2>2 DEF CacheAgrees, TrayAgrees, Copies
  <2>5. RunKeyAgrees(c, s)'
    <3>1. (StartupWritten(c)' <=> StartupWritten(c)) /\ (StartupMoved(c)' <=> StartupMoved(c))
      BY <2>1 DEF StartupWritten, StartupMoved, Moved
    <3>2. (StartupSet(c) <=> StartupWritten(c)) /\ (StartupSet(c)' <=> StartupWritten(c))
      BY <2>1, <3>1 DEF StartupSet
    <3>3. "runKey" \notin excused => LoadedLaunch = k.draft.launch
      BY <1>10, <2>1, <2>2 DEF Copies
    <3>4. LoadedLaunch' = LoadedLaunch
      BY <2>1 DEF LoadedLaunch
    <3>5. "runKey" \notin excused /\ ~StartupWritten(c) => runKey = RunKeyOf(k.draft)
      <4>1. SUFFICES ASSUME "runKey" \notin excused, ~StartupWritten(c)
                     PROVE  runKey = RunKeyOf(k.draft)
        OBVIOUS
      <4>2. k.draft.launch = "no" /\ k.prev.launch = k.draft.launch
        BY <1>0, <1>a, <4>1, SettingsFields DEF StartupWritten, StartupMoved, Moved, Launches
      <4>3. runKey = RunKeyOf(r) /\ k.prev.launch = r.launch
        BY <2>1, <3>2, <4>1 DEF Agree, RunKeyAgrees
      <4> QED BY <4>2, <4>3 DEF RunKeyOf
    <3> QED BY <2>1, <3>1, <3>2, <3>3, <3>4, <3>5 DEF RunKeyAgrees, Agree
  <2>6. KeyAgrees(c, s)'
    <3>1. KeySet(c) <=> k.prev.key # k.draft.key
      BY <1>a, <2>1 DEF KeySet, Moved
    <3>2. KeySet(c)' <=> k.prev.key # k.draft.key
      BY <1>a, <2>1 DEF KeySet, Moved
    <3>3. "shortcut" \notin excused => LoadedKey = k.draft.key
      BY <1>10, <2>1, <2>2 DEF Copies
    <3>4. LoadedKey' = LoadedKey
      BY <2>1 DEF LoadedKey
    <3> QED BY <1>0, <2>1, <3>1, <3>2, <3>3, <3>4 DEF KeyAgrees, Agree
  <2> QED BY <2>3, <2>4, <2>5, <2>6 DEF Agree
\* The end of a call that has saved everything.
<1>12. ASSUME k.pc = "done", call'[c] = Idle, UNCHANGED <<stored, runKey, cache, shortcut>>,
              \A x \in Copies : x \notin excused' => x \notin excused \/ (k.alone /\ x \in Repaired(c)),
              "tray" \notin excused' => tray' = s.monitoring
       PROVE  Agree(c, s)'
  <2>1. s = r /\ call'[c].pc = "idle"
    BY <1>0, <1>12
  <2>2. \A x \in Copies : x \notin excused' => Solo(c)
    BY <1>12 DEF Solo
  <2>3. ASSUME Solo(c)
        PROVE  /\ s = k.draft /\ \A f \in DOMAIN stored : stored[f] = s[f]
               /\ LoadedLaunch = s.launch /\ LoadedKey = s.key
    BY <1>10, <1>12, <2>1, <2>3 DEF Agree, CacheAgrees
  <2>4. LoadedLaunch' = LoadedLaunch /\ LoadedKey' = LoadedKey
    BY <1>12 DEF LoadedLaunch, LoadedKey
  <2>5. SavedSoFar(c)' /\ CacheAgrees(c, s)' /\ TrayAgrees(c, s)'
    BY <1>12, <2>1, <2>2, <2>3 DEF SavedSoFar, CacheAgrees, TrayAgrees, Copies
  <2>6. RunKeyAgrees(c, s)'
    <3>1. "runKey" \notin excused' => runKey = RunKeyOf(s)
      <4>1. SUFFICES ASSUME "runKey" \notin excused' PROVE runKey = RunKeyOf(s)
        OBVIOUS
      <4>2. Solo(c) /\ ("runKey" \notin excused \/ (k.alone /\ "runKey" \in Repaired(c)))
        BY <1>12, <2>2, <4>1 DEF Copies
      <4>3. "runKey" \in Repaired(c) => StartupMoved(c)
        BY DEF Repaired
      <4>4. /\ StartupSet(c) <=> StartupWritten(c)
            /\ StartupMoved(c) => StartupWritten(c)
        BY <1>12 DEF StartupSet, StartupWritten
      <4> QED BY <2>1, <2>3, <4>2, <4>3, <4>4 DEF Agree, RunKeyAgrees
    <3> QED BY <1>12, <2>1, <2>2, <2>3, <2>4, <3>1 DEF RunKeyAgrees, StartupSet, Copies
  <2>7. KeyAgrees(c, s)'
    <3>1. "shortcut" \notin excused' => shortcut = s.key /\ (checking = "none" \/ checking # shortcut)
      <4>1. SUFFICES ASSUME "shortcut" \notin excused'
                     PROVE  shortcut = s.key /\ (checking = "none" \/ checking # shortcut)
        OBVIOUS
      <4>2. Solo(c) /\ ("shortcut" \notin excused \/ (k.alone /\ "shortcut" \in Repaired(c)))
        BY <1>12, <2>2, <4>1 DEF Copies
      <4>3. "shortcut" \in Repaired(c) => Moved(c, "key")
        BY DEF Repaired
      <4>4. KeySet(c) <=> Moved(c, "key")
        BY <1>12 DEF KeySet
      <4> QED BY <1>0, <1>12, <2>1, <2>3, <4>2, <4>3, <4>4 DEF Agree, KeyAgrees
    <3> QED BY <1>0, <1>12, <2>1, <2>2, <2>3, <2>4, <3>1 DEF KeyAgrees, KeySet, Copies
  <2> QED BY <2>5, <2>6, <2>7 DEF Agree
<1>13. CASE RetentionFails(c)
  <2>1. /\ k.pc = "done" /\ call'[c] = Idle /\ UNCHANGED <<stored, runKey, cache, shortcut>>
        /\ excused' = excused \cup {"tray"}
    BY <1>13, MoveEnd DEF RetentionFails, At
  <2> QED BY <1>12, <2>1
<1>14. CASE RefreshTray(c)
  <2>1. /\ call'[c] = Idle /\ UNCHANGED <<stored, runKey, cache, shortcut>> /\ s = r
        /\ tray' = s.monitoring /\ k.pc \in {"done", "refresh"}
        /\ excused' = IF k.pc = "done" /\ k.alone THEN excused \ Repaired(c) ELSE excused
    BY <1>0, <1>14, MoveEnd DEF RefreshTray, At
  <2>2. CASE k.pc = "done"
    BY <1>12, <2>1, <2>2
  <2>3. CASE k.pc = "refresh"
    <3>1. excused' = excused /\ call'[c].pc = "idle"
      BY <1>0, <2>1, <2>3
    <3>2. ~StartupSet(c) /\ ~KeySet(c) /\ ~StartupSet(c)' /\ ~KeySet(c)'
      BY <2>3, <3>1 DEF StartupSet, KeySet
    <3>3. LoadedLaunch' = LoadedLaunch /\ LoadedKey' = LoadedKey
      BY <2>1 DEF LoadedLaunch, LoadedKey
    <3>4. SavedSoFar(c)' /\ CacheAgrees(c, s)' /\ TrayAgrees(c, s)'
      BY <2>1, <2>3, <3>1 DEF SavedSoFar, CacheAgrees, TrayAgrees, Agree
    <3>5. RunKeyAgrees(c, s)' /\ KeyAgrees(c, s)'
      BY <1>0, <2>1, <2>3, <3>1, <3>2, <3>3 DEF RunKeyAgrees, KeyAgrees, Agree
    <3> QED BY <3>4, <3>5 DEF Agree
  <2> QED BY <2>1, <2>2, <2>3
<1> QED
  BY <1>1, <1>2, <1>3, <1>5, <1>6, <1>7, <1>8, <1>9, <1>11, <1>13, <1>14 DEF Steps

\* What excuses every copy, and a call that is not alone, promise nothing.
LEMMA NothingPromised ==
    ASSUME NEW c \in Callers, NEW s, Copies \subseteq excused',
           call'[c].pc = "idle" \/ ~call'[c].alone
    PROVE  Agree(c, s)'
<1>1. \A x \in {"cache", "runKey", "shortcut", "tray"} : x \in excused'
  BY DEF Copies
<1>2. SavedSoFar(c)' /\ CacheAgrees(c, s)' /\ TrayAgrees(c, s)'
  BY <1>1 DEF SavedSoFar, CacheAgrees, TrayAgrees, Solo
<1>3. RunKeyAgrees(c, s)' /\ KeyAgrees(c, s)'
  BY <1>1 DEF RunKeyAgrees, KeyAgrees, StartupSet, KeySet
<1> QED BY <1>2, <1>3 DEF Agree

\* Of two calls in the same state the copies say the same.
LEMMA SameAgree ==
    ASSUME NEW c \in Callers, NEW d \in Callers, NEW s, Agree(c, s)', call'[d] = call'[c]
    PROVE  Agree(d, s)'
<1>1. SavedSoFar(d)' /\ CacheAgrees(d, s)' /\ TrayAgrees(d, s)'
  BY DEF Agree, SavedSoFar, CacheAgrees, TrayAgrees, Solo, Has
<1>2. RunKeyAgrees(d, s)' /\ KeyAgrees(d, s)'
  BY DEF Agree, RunKeyAgrees, KeyAgrees, StartupSet, StartupWritten, StartupMoved, KeySet, Moved
<1> QED BY <1>1, <1>2 DEF Agree

LEMMA KeepAgree ==
    ASSUME NEW c \in Callers, NEW s, Agree(c, s), call'[c] = call[c],
           UNCHANGED <<stored, runKey, app, shortcut, checking, tray, excused>>
    PROVE  Agree(c, s)'
<1>1. SavedSoFar(c)' /\ CacheAgrees(c, s)' /\ TrayAgrees(c, s)'
  BY DEF Agree, SavedSoFar, CacheAgrees, TrayAgrees, Solo, Has
<1>2. LoadedKey' = LoadedKey /\ LoadedLaunch' = LoadedLaunch
  BY DEF LoadedKey, LoadedLaunch
<1>3. /\ (StartupSet(c)' <=> StartupSet(c)) /\ (KeySet(c)' <=> KeySet(c))
      /\ StartupMoved(c)' <=> StartupMoved(c)
  BY DEF StartupSet, StartupWritten, StartupMoved, KeySet, Moved
<1>4. RunKeyAgrees(c, s)'
  BY <1>2, <1>3 DEF Agree, RunKeyAgrees
<1>5. KeyAgrees(c, s)'
  BY <1>2, <1>3 DEF Agree, KeyAgrees
<1> QED BY <1>1, <1>4, <1>5 DEF Agree

\* A step that touches none of the copies and no call.
LEMMA Untouched ==
    ASSUME SettingsInv,
           UNCHANGED <<stored, runKey, app, cache, shortcut, checking, tray, call, excused>>
    PROVE  SettingsInv'
<1>1. SettingsTyped'
  BY DEF SettingsInv, SettingsTyped, CallTyped
<1>2. Lonely'
  BY DEF SettingsInv, Lonely, Active
<1>3. Copied'
  <2> SUFFICES ASSUME NEW c \in Callers, NEW s \in CliplySettings, app # "down", cache = {s}, Alone(c)
               PROVE  Agree(c, s)'
    BY DEF Copied, Alone, Active
  <2> QED BY KeepAgree DEF SettingsInv, Copied
<1> QED BY <1>1, <1>2, <1>3 DEF SettingsInv

\* The end of the process leaves nothing that could disagree.
LEMMA GoneKeeps ==
    ASSUME SettingsInv, Gone, UNCHANGED <<stored, runKey>>
    PROVE  SettingsInv'
<1>1. /\ app' = "down" /\ checking' = "none" /\ DOMAIN call' = Callers
      /\ \A c \in Callers : call'[c] = Idle
  BY DEF Gone
<1>2. Idle.pc = "idle" /\ CallTyped(Idle)
  BY DEF Idle, CallTyped
<1>3. SettingsTyped'
  BY <1>1, <1>2 DEF SettingsInv, SettingsTyped
<1>4. Lonely' /\ Copied'
  BY <1>1, <1>2 DEF Lonely, Copied, Active
<1> QED BY <1>3, <1>4 DEF SettingsInv

LEMMA SettingsSteps ==
    ASSUME SettingsInv, NEW c \in Callers, Steps(c)
    PROVE  SettingsInv'
<1>1. SettingsTyped'
  BY SettingsTypedSteps DEF SettingsInv
<1>2. /\ Active(c) /\ app = "up"
      /\ \A d \in Callers : d # c => call'[d] = call[d]
      /\ call'[c] = Idle \/ (call'[c].alone => call[c].alone)
      /\ excused \subseteq excused' \/ (call[c].alone /\ call'[c] = Idle)
      /\ Idle.pc = "idle"
  BY StepsFrame DEF SettingsInv, Idle
<1>3. ASSUME NEW d \in Callers, d # c, Active(d)
      PROVE  Copies \subseteq excused' /\ ~call[c].alone /\ ~call'[d].alone
  <2>1. Copies \subseteq excused /\ ~call[c].alone /\ ~call[d].alone
    BY <1>2, <1>3 DEF SettingsInv, Lonely
  <2> QED BY <1>2, <1>3, <2>1
<1>4. Lonely'
  <2> SUFFICES ASSUME NEW d \in Callers, NEW e \in Callers, d # e,
                      call'[d].pc # "idle", call'[e].pc # "idle"
               PROVE  Copies \subseteq excused' /\ ~call'[d].alone
    BY DEF Lonely, Active
  <2>1. CASE d = c
    <3>1. Active(e)
      BY <1>2, <2>1 DEF Active
    <3> QED BY <1>2, <1>3, <2>1, <3>1
  <2>2. CASE d # c
    <3>1. Active(d)
      BY <1>2, <2>2 DEF Active
    <3> QED BY <1>3, <2>2, <3>1
  <2> QED BY <2>1, <2>2
<1>5. Copied'
  <2> SUFFICES ASSUME NEW e \in Callers, NEW s \in CliplySettings, cache' = {s}, Alone(e)'
               PROVE  Agree(e, s)'
    BY DEF Copied
  <2>1. PICK r \in CliplySettings : cache = {r}
    BY <1>2 DEF SettingsInv, SettingsTyped
  <2>2. CASE Alone(c)
    <3>1. Agree(c, r)
      BY <1>2, <2>1, <2>2 DEF SettingsInv, Copied
    <3>2. Agree(c, s)'
      BY <1>1, <2>1, <3>1, AgreeSteps DEF SettingsInv
    <3>3. CASE e # c
      <4>1. ~Active(e) /\ call'[e] = call[e]
        BY <1>2, <2>2, <3>3 DEF Alone
      <4>2. call'[e] = Idle
        BY <4>1, ActiveCall DEF SettingsInv
      <4>3. call'[c].pc = "idle"
        BY <3>3 DEF Alone, Active
      <4>4. call'[c] = Idle
        BY <1>1, <4>3, CallFields DEF SettingsTyped, CallTyped
      <4> QED BY <3>2, <4>2, <4>4, SameAgree
    <3> QED BY <3>2, <3>3
  <2>3. CASE ~Alone(c)
    <3>1. PICK d \in Callers : d # c /\ Active(d)
      BY <2>3 DEF Alone
    <3>2. call'[d] = call[d] /\ e = d
      BY <1>2, <3>1 DEF Alone, Active
    <3> QED BY <1>3, <3>1, <3>2, NothingPromised
  <2> QED BY <2>2, <2>3
<1> QED BY <1>1, <1>4, <1>5 DEF SettingsInv

-----------------------------------------------------------------------------
(* The copies and the steps of the program, one by one *)

LEMMA SettingsStart == DesktopInit => SettingsInv
<1> SUFFICES ASSUME DesktopInit PROVE SettingsInv
  OBVIOUS
<1>1. /\ app = "down" /\ checking = "none" /\ DOMAIN call = Callers
      /\ \A c \in Callers : call[c] = Idle
      /\ DOMAIN stored = {} /\ runKey \in Startups
  BY DEF DesktopInit, Startups
<1>2. Idle.pc = "idle" /\ CallTyped(Idle)
  BY DEF Idle, CallTyped
<1>3. SettingsTyped
  BY <1>1, <1>2 DEF SettingsTyped
<1> QED BY <1>1, <1>2, <1>3 DEF SettingsInv, Lonely, Copied, Active

\* A start loads the cache, and what it does not write is excused.
LEMMA SettingsLaunch ==
    ASSUME SettingsInv, Launch
    PROVE  SettingsInv'
<1>1. /\ app = "down" /\ app' = "starting" /\ cache' = {Loaded} /\ tray' = Loaded.monitoring
      /\ UNCHANGED <<stored, shortcut, checking, call>>
      /\ \/ runKey' = RunKeyOf(Loaded) /\ excused' = {}
         \/ runKey' = runKey /\ excused' = {"runKey"}
  BY DEF Launch
<1>2. /\ Loaded \in CliplySettings /\ RunKeyOf(Loaded) \in Startups
      /\ Loaded.launch = LoadedLaunch /\ Loaded.key = LoadedKey
      /\ \A f \in DOMAIN stored : stored[f] = Loaded[f]
  BY LoadedFields, SettingsFields DEF SettingsInv
<1>3. /\ checking = "none" /\ Idle.pc = "idle" /\ \A c \in Callers : call[c] = Idle
  BY <1>1 DEF SettingsInv, SettingsTyped, Idle
<1>4. SettingsTyped'
  <2>1. runKey' \in Startups
    BY <1>1, <1>2 DEF SettingsInv, SettingsTyped
  <2>2. \A c \in Callers : CallTyped(call'[c])
    BY <1>1 DEF SettingsInv, SettingsTyped
  <2> QED BY <1>1, <1>2, <1>3, <2>1, <2>2 DEF SettingsInv, SettingsTyped
<1>5. Lonely'
  BY <1>1, <1>3 DEF Lonely, Active
<1>6. ASSUME NEW c \in Callers, NEW s, s = Loaded PROVE Agree(c, s)'
  <2>1. call'[c].pc = "idle"
    BY <1>1, <1>3
  <2>2. SavedSoFar(c)'
    BY <2>1 DEF SavedSoFar
  <2>3. CacheAgrees(c, s)' /\ TrayAgrees(c, s)'
    BY <1>1, <1>2, <1>6, <2>1 DEF CacheAgrees, TrayAgrees
  <2>4. RunKeyAgrees(c, s)'
    <3>1. ~StartupSet(c)'
      BY <2>1 DEF StartupSet
    <3>2. "runKey" \notin excused' => LoadedLaunch' = s.launch
      <4>1. Loaded.launch \in {"no", "yes"} /\ Loaded.window \in {"shown", "minimized"}
        BY <1>2, SettingsFields DEF Launches, Windows
      <4> QED BY <1>1, <1>2, <1>6, <4>1 DEF LoadedLaunch, RunKeyOf
    <3> QED BY <1>1, <1>6, <2>1, <3>1, <3>2 DEF RunKeyAgrees
  <2>5. KeyAgrees(c, s)'
    BY <1>1, <1>2, <1>3, <1>6, <2>1 DEF KeyAgrees, KeySet, LoadedKey
  <2> QED BY <2>2, <2>3, <2>4, <2>5 DEF Agree
<1>7. Copied'
  <2> SUFFICES ASSUME NEW c \in Callers, NEW s \in CliplySettings, cache' = {s}
               PROVE  Agree(c, s)'
    BY DEF Copied
  <2>1. s = Loaded
    BY <1>1
  <2> QED BY <1>6, <2>1
<1> QED BY <1>4, <1>5, <1>7 DEF SettingsInv

\* register_default_shortcuts registers the shortcut of the cache.
LEMMA SettingsStarted ==
    ASSUME SettingsInv, Started
    PROVE  SettingsInv'
<1>1. /\ app = "starting" /\ app' = "up" /\ shortcut' = Cached.key
      /\ UNCHANGED <<stored, runKey, cache, checking, tray, call, excused>>
  BY DEF Started
<1>2. checking = "none" /\ Idle.pc = "idle" /\ \A c \in Callers : call[c] = Idle
  BY <1>1 DEF SettingsInv, SettingsTyped, Idle
<1>3. SettingsTyped'
  BY <1>1, <1>2 DEF SettingsInv, SettingsTyped, CallTyped
<1>4. Lonely'
  BY <1>1, <1>2 DEF Lonely, Active
<1>5. Copied'
  <2> SUFFICES ASSUME NEW c \in Callers, NEW s \in CliplySettings, cache = {s}
               PROVE  Agree(c, s)'
    BY <1>1 DEF Copied
  <2>1. Cached = s
    BY OneCached DEF Cached
  <2>2. Agree(c, s)
    BY <1>1, <1>2 DEF SettingsInv, Copied, Alone, Active
  <2>3. SavedSoFar(c)' /\ CacheAgrees(c, s)' /\ TrayAgrees(c, s)'
    BY <1>1, <1>2, <2>2 DEF Agree, SavedSoFar, CacheAgrees, TrayAgrees
  <2>4. RunKeyAgrees(c, s)'
    BY <1>1, <1>2, <2>2 DEF Agree, RunKeyAgrees, StartupSet, LoadedLaunch
  <2>5. KeyAgrees(c, s)'
    BY <1>1, <1>2, <2>1, <2>2 DEF Agree, KeyAgrees, KeySet, LoadedKey
  <2> QED BY <2>3, <2>4, <2>5 DEF Agree
<1> QED BY <1>3, <1>4, <1>5 DEF SettingsInv

\* A check registers a shortcut that nobody has, and removes no other.
LEMMA SettingsChecks ==
    ASSUME SettingsInv, Checks
    PROVE  SettingsInv'
<1>1. /\ app = "up" /\ UNCHANGED <<stored, runKey, app, cache, tray, call, excused>>
      /\ \/ shortcut' = shortcut /\ checking' # shortcut
         \/ /\ checking # "none" /\ checking' = "none"
            /\ shortcut' = IF shortcut = checking THEN "none" ELSE shortcut
  BY DEF Checks, Check, EndCheck, SettingsInv, SettingsTyped
<1>2. SettingsTyped'
  BY <1>1 DEF SettingsInv, SettingsTyped, CallTyped
<1>3. Lonely'
  BY <1>1 DEF SettingsInv, Lonely, Active
<1>4. Copied'
  <2> SUFFICES ASSUME NEW c \in Callers, NEW s \in CliplySettings, cache = {s}, Alone(c)
               PROVE  Agree(c, s)'
    BY <1>1 DEF Copied, Alone, Active
  <2>1. Agree(c, s)
    BY <1>1 DEF SettingsInv, Copied
  <2>2. SavedSoFar(c)' /\ CacheAgrees(c, s)' /\ TrayAgrees(c, s)'
    BY <1>1, <2>1 DEF Agree, SavedSoFar, CacheAgrees, TrayAgrees, Solo, Has
  <2>3. RunKeyAgrees(c, s)'
    BY <1>1, <2>1 DEF Agree, RunKeyAgrees, StartupSet, StartupWritten, StartupMoved, LoadedLaunch, Moved
  <2>4. KeySet(c)' <=> KeySet(c)
    BY <1>1 DEF KeySet, Moved
  <2>5. KeySet(c) => call[c].draft.key # "none"
    <3>1. Idle.pc = "idle"
      BY DEF Idle
    <3>2. KeySet(c) => call[c] \in Calls
      BY <3>1, ActiveCall DEF KeySet, Active, SettingsInv
    <3> QED BY <3>2, CallFields, SettingsFields, SettingsAssumption
  <2>6. KeyAgrees(c, s)'
    BY <1>1, <2>1, <2>4, <2>5 DEF Agree, KeyAgrees, LoadedKey
  <2> QED BY <2>2, <2>3, <2>6 DEF Agree
<1> QED BY <1>2, <1>3, <1>4 DEF SettingsInv

\* A call that begins beside another excuses what the two leave behind.
LEMMA SettingsBegin ==
    ASSUME SettingsInv, NEW c \in Callers, NEW kind \in {"save", "pause", "menu"},
           NEW draft \in CliplySettings, Begin(c, kind, draft)
    PROVE  SettingsInv'
<1> DEFINE others == {d \in Callers \ {c} : call[d].pc # "idle"}
           a == (others = {})
           new == [pc |-> "compare", kind |-> kind, draft |-> draft, prev |-> draft,
                   next |-> 1, alone |-> a]
<1>1. /\ app = "up" /\ call[c].pc = "idle"
      /\ UNCHANGED <<stored, runKey, app, cache, shortcut, checking, tray>>
      /\ excused' = IF others = {} THEN excused ELSE Copies
      /\ call' = [d \in Callers |-> CASE d = c -> new
                                      [] d \in others -> [call[d] EXCEPT !.alone = FALSE]
                                      [] OTHER -> Idle]
  BY DEF Begin, At
<1>2. a \in BOOLEAN /\ (a <=> others = {})
  OBVIOUS
<1>3. new \in Calls /\ new.pc = "compare" /\ new.next = 1 /\ new.alone = a
  <2> HIDE DEF a
  <2> QED BY <1>2 DEF Calls
<1> HIDE DEF a, new
<1>4. /\ DOMAIN call' = Callers /\ call'[c] = new
      /\ \A d \in others : call'[d] = [call[d] EXCEPT !.alone = FALSE]
      /\ \A d \in Callers \ {c} : d \notin others => call'[d] = Idle
  BY <1>1
<1>5. ASSUME NEW d \in others
      PROVE  CallTyped(call'[d]) /\ ~call'[d].alone /\ call'[d].pc = call[d].pc
  <2>1. call[d] \in Calls /\ CallTyped(call[d])
    BY ActiveCall DEF Active, SettingsInv, SettingsTyped
  <2>2. call'[d] = [call[d] EXCEPT !.alone = FALSE]
    BY <1>4
  <2>3. /\ call'[d] \in Calls /\ call'[d].pc = call[d].pc /\ call'[d].next = call[d].next
        /\ ~call'[d].alone
    BY <2>1, <2>2 DEF Calls
  <2> QED BY <2>1, <2>3 DEF CallTyped
<1>6. Idle.pc = "idle" /\ CallTyped(Idle)
  BY DEF Idle, CallTyped
<1>7. SettingsTyped'
  <2>1. \A d \in Callers : CallTyped(call'[d])
    <3>1. CallTyped(new)
      BY <1>3 DEF CallTyped
    <3> QED BY <1>4, <1>5, <1>6, <3>1
  <2> HIDE DEF others
  <2> QED BY <1>1, <1>4, <2>1 DEF SettingsInv, SettingsTyped
<1>8. Lonely'
  <2> SUFFICES ASSUME NEW d \in Callers, NEW e \in Callers, d # e,
                      call'[d].pc # "idle", call'[e].pc # "idle"
               PROVE  Copies \subseteq excused' /\ ~call'[d].alone
    BY DEF Lonely, Active
  <2>1. d \in others \/ e \in others
    BY <1>4, <1>6
  <2>2. others # {} /\ excused' = Copies /\ ~a
    BY <1>1, <1>2, <2>1
  <2>3. d = c \/ d \in others
    BY <1>4, <1>6
  <2> QED BY <1>3, <1>4, <1>5, <2>2, <2>3
<1>9. Copied'
  <2> SUFFICES ASSUME NEW e \in Callers, NEW s \in CliplySettings, cache = {s},
                      \A d \in Callers : d # e => call'[d].pc = "idle"
               PROVE  Agree(e, s)'
    BY <1>1 DEF Copied, Alone, Active
  <2>1. e = c
    BY <1>3, <1>4
  <2>2. others = {}
    BY <1>5, <2>1
  <2>3. Agree(c, s)
    BY <1>1, <2>2 DEF SettingsInv, Copied, Alone, Active
  <2>4. call'[c].pc = "compare" /\ excused' = excused /\ call[c].pc = "idle"
    BY <1>1, <1>3, <1>4, <2>2
  <2> HIDE DEF others
  <2>5. SavedSoFar(c)' /\ CacheAgrees(c, s)' /\ TrayAgrees(c, s)'
    BY <1>1, <2>3, <2>4 DEF Agree, SavedSoFar, CacheAgrees, TrayAgrees
  <2>6. RunKeyAgrees(c, s)'
    BY <1>1, <2>3, <2>4 DEF Agree, RunKeyAgrees, StartupSet, LoadedLaunch
  <2>7. KeyAgrees(c, s)'
    BY <1>1, <2>3, <2>4 DEF Agree, KeyAgrees, KeySet, LoadedKey
  <2> QED BY <2>1, <2>5, <2>6, <2>7 DEF Agree
<1> QED BY <1>7, <1>8, <1>9 DEF SettingsInv

LEMMA SettingsRequests ==
    ASSUME SettingsInv, Requests
    PROVE  SettingsInv'
<1>1. ASSUME NEW s \in CliplySettings, Save(s) PROVE SettingsInv'
  BY <1>1, SettingsBegin DEF Save, Callers
<1>2. ASSUME app = "up", NEW m \in Monitoring PROVE Pausing(m) \in CliplySettings
  <2>1. PICK r \in CliplySettings : cache = {r}
    BY <1>2 DEF SettingsInv, SettingsTyped
  <2>2. Cached = r
    BY <2>1, OneCached DEF Cached
  <2> QED BY <2>1, <2>2 DEF Pausing, CliplySettings
<1>3. ASSUME NEW m \in Monitoring, Pause(m) PROVE SettingsInv'
  BY <1>2, <1>3, SettingsBegin DEF Pause, Callers
<1>4. CASE Toggle
  <2>1. PICK m \in Monitoring : app = "up" /\ Begin("tray", "menu", Pausing(m))
    BY <1>4 DEF Toggle
  <2> QED BY <1>2, <2>1, SettingsBegin DEF Callers
<1> QED BY <1>1, <1>3, <1>4 DEF Requests

LEMMA SettingsRunning ==
    ASSUME SettingsInv, Running
    PROVE  SettingsInv'
<1>1. CASE Started
  BY <1>1, SettingsStarted
<1>2. CASE StartFails \/ Exit
  BY <1>2, GoneKeeps DEF StartFails, Exit
<1>3. CASE Others
  BY <1>3, Untouched DEF Others, Take, Release
<1> QED
  BY <1>1, <1>2, <1>3, SettingsChecks, SettingsRequests, SettingsSteps DEF Running, Process

\* The setup program writes the Run key of a running program.
LEMMA SettingsBehind ==
    ASSUME SettingsInv, BehindItsBack, runKey' \in Startups,
           UNCHANGED <<stored, app, cache, shortcut, checking, tray>>
    PROVE  SettingsInv'
<1>1. /\ DOMAIN call' = Callers
      /\ \A c \in Callers : call'[c] = IF call[c] = Idle THEN Idle ELSE [call[c] EXCEPT !.alone = FALSE]
      /\ app # "down" => excused' = excused \cup {"runKey"}
      /\ excused \subseteq excused'
  BY DEF BehindItsBack
<1>2. Idle.pc = "idle" /\ CallTyped(Idle)
  BY DEF Idle, CallTyped
<1>3. ASSUME NEW c \in Callers, Active(c)
      PROVE  /\ CallTyped(call'[c]) /\ ~call'[c].alone
             /\ call'[c].pc = call[c].pc /\ call'[c].next = call[c].next
             /\ call'[c].draft = call[c].draft /\ call'[c].prev = call[c].prev
  <2>1. call[c] \in Calls /\ CallTyped(call[c]) /\ call[c] # Idle
    BY <1>2, <1>3, ActiveCall DEF Active, SettingsInv, SettingsTyped
  <2>2. call'[c] = [call[c] EXCEPT !.alone = FALSE]
    BY <1>1, <2>1
  <2>3. /\ call'[c] \in Calls /\ ~call'[c].alone
        /\ call'[c].pc = call[c].pc /\ call'[c].next = call[c].next
        /\ call'[c].draft = call[c].draft /\ call'[c].prev = call[c].prev
    BY <2>1, <2>2 DEF Calls
  <2> QED BY <2>1, <2>3 DEF CallTyped
<1>4. ASSUME NEW c \in Callers, ~Active(c) PROVE call[c] = Idle /\ call'[c] = Idle
  BY <1>1, <1>4, ActiveCall DEF SettingsInv
<1>5. SettingsTyped'
  <2>1. \A c \in Callers : CallTyped(call'[c])
    BY <1>2, <1>3, <1>4
  <2> QED BY <1>1, <1>4, <2>1 DEF SettingsInv, SettingsTyped, Active, Idle
<1>6. \A c \in Callers : Active(c)' <=> Active(c)
  BY <1>2, <1>3, <1>4 DEF Active
<1>7. Lonely'
  BY <1>1, <1>3, <1>6 DEF SettingsInv, Lonely
<1>8. Copied'
  <2> SUFFICES ASSUME NEW c \in Callers, NEW s \in CliplySettings, app # "down", cache = {s}, Alone(c)
               PROVE  Agree(c, s)'
    BY <1>6 DEF Copied, Alone
  <2>1. Agree(c, s)
    BY DEF SettingsInv, Copied
  <2>2. CASE ~Active(c)
    <3>1. call'[c].pc = "idle" /\ call[c].pc = "idle"
      BY <1>2, <1>4, <2>2
    <3>2. SavedSoFar(c)' /\ CacheAgrees(c, s)' /\ TrayAgrees(c, s)'
      BY <1>1, <2>1, <3>1 DEF Agree, SavedSoFar, CacheAgrees, TrayAgrees
    <3>3. RunKeyAgrees(c, s)'
      BY <1>1, <3>1 DEF RunKeyAgrees, StartupSet
    <3>4. KeyAgrees(c, s)'
      BY <1>1, <2>1, <3>1 DEF Agree, KeyAgrees, KeySet, LoadedKey
    <3> QED BY <3>2, <3>3, <3>4 DEF Agree
  <2>3. CASE Active(c)
    <3>1. /\ ~call'[c].alone /\ call'[c].pc = call[c].pc /\ call'[c].next = call[c].next
          /\ call'[c].draft = call[c].draft /\ call'[c].prev = call[c].prev
      BY <1>3, <2>3
    <3>2. Solo(c)' => Solo(c)
      BY <1>1, <3>1 DEF Solo
    <3>3. SavedSoFar(c)' /\ CacheAgrees(c, s)' /\ TrayAgrees(c, s)'
      BY <1>1, <2>1, <3>1, <3>2 DEF Agree, SavedSoFar, CacheAgrees, TrayAgrees, Has
    <3>4. RunKeyAgrees(c, s)'
      BY <1>1, <3>1 DEF RunKeyAgrees
    <3>5. KeySet(c)' <=> KeySet(c)
      BY <3>1 DEF KeySet, Moved
    <3>6. KeyAgrees(c, s)'
      BY <1>1, <2>1, <3>1, <3>5 DEF Agree, KeyAgrees, LoadedKey
    <3> QED BY <3>3, <3>4, <3>6 DEF Agree
  <2> QED BY <2>2, <2>3
<1> QED BY <1>5, <1>7, <1>8 DEF SettingsInv

LEMMA SettingsStep == DiskInv /\ SettingsInv /\ [DesktopNext]_allVars => SettingsInv'
<1> SUFFICES ASSUME DiskInv, SettingsInv, [DesktopNext]_allVars PROVE SettingsInv'
  OBVIOUS
<1>1. CASE UNCHANGED vars
  BY <1>1, Untouched DEF vars
<1>2. CASE UNCHANGED allVars
  BY <1>1, <1>2 DEF allVars
<1>3. CASE LaunchProgram \/ Run
  BY <1>3, SettingsLaunch, SettingsRunning DEF LaunchProgram, Run
<1>4. CASE Updates
  <2>1. ASSUME NEW d \in Downloads, LaunchSetup(d) PROVE SettingsInv'
    BY <2>1, GoneKeeps DEF LaunchSetup
  <2> QED BY <1>1, <1>4, <2>1 DEF Updates, StartDownload, CreateFile, Verified, Mismatch,
                                  DownloadFails, LaunchFails
<1>5. CASE StopRunning
  BY <1>5, GoneKeeps DEF StopRunning
<1>6. CASE WriteRunKey
  <2>1. runKey' \in Startups
    BY <1>6 DEF WriteRunKey, RunKeys, Startups
  <2> QED BY <1>6, <2>1, SettingsBehind DEF WriteRunKey
<1>7. CASE RemoveRunKey
  <2>1. runKey' \in Startups
    BY <1>7 DEF RemoveRunKey, SettingsInv, SettingsTyped, Startups
  <2> QED BY <1>7, <2>1, SettingsBehind DEF RemoveRunKey
\* The data go when the program is gone, and so it does not run.
<1>8. CASE RemoveData
  <2>1. app = "down" /\ UNCHANGED <<runKey, app, cache, checking, call>>
    BY <1>8 DEF RemoveData, Step, DiskInv, SetupInv
  <2>2. stored' = stored \/ DOMAIN stored' = {}
    BY <1>8 DEF RemoveData
  <2>3. /\ DOMAIN stored' \subseteq Fields
        /\ "monitoring" \in DOMAIN stored' => stored'["monitoring"] \in Monitoring
        /\ "launch" \in DOMAIN stored' => stored'["launch"] \in Launches
        /\ "window" \in DOMAIN stored' => stored'["window"] \in Windows
        /\ "key" \in DOMAIN stored' => stored'["key"] \in Keys
    BY <2>2 DEF SettingsInv, SettingsTyped
  <2>4. SettingsTyped'
    BY <2>1, <2>3 DEF SettingsInv, SettingsTyped, CallTyped
  <2>5. \A c \in Callers : ~Active(c)'
    BY <2>1 DEF SettingsInv, SettingsTyped, Active, Idle
  <2> QED BY <2>1, <2>4, <2>5 DEF SettingsInv, Lonely, Copied
<1>9. CASE SetupFails
  BY <1>9, Untouched DEF SetupFails
<1>10. CASE Installer /\ ~(StopRunning \/ WriteRunKey \/ RemoveRunKey \/ RemoveData \/ SetupFails)
  BY <1>1, <1>10 DEF Installer, StartSetup, WriteProgram, WriteUninstaller, WriteEntry,
                     RemoveProgram, RemoveEntry, RemoveSelf, DeleteSelf, Locked
<1> QED
  BY <1>2, <1>3, <1>4, <1>5, <1>6, <1>7, <1>8, <1>9, <1>10 DEF DesktopNext

\* While no call is under way the cache, the Run key, the registered shortcut and
\* the tray agree with the settings table, except for what a failure or two calls
\* at once left behind (update_settings, reconcile_startup_setting,
\* register_default_shortcuts, refresh_tray).
THEOREM CopiesInStep == DesktopSpec => []InStep
<1>1. SettingsInv => InStep
  <2> SUFFICES ASSUME SettingsInv, app = "up", \A c \in Callers : call[c].pc = "idle"
               PROVE  /\ "cache" \notin excused => \A f \in DOMAIN stored : stored[f] = Cached[f]
                      /\ "runKey" \notin excused => runKey = RunKeyOf(Cached)
                      /\ "shortcut" \notin excused => shortcut = Cached.key
                      /\ "tray" \notin excused => tray = Cached.monitoring
    BY DEF InStep
  <2>1. PICK s \in CliplySettings : cache = {s}
    BY DEF SettingsInv, SettingsTyped
  <2>2. Cached = s
    BY <2>1, OneCached DEF Cached
  <2>3. "window" \in Callers /\ Alone("window")
    BY DEF Callers, Alone, Active
  <2>4. Agree("window", s)
    BY <2>1, <2>3 DEF SettingsInv, Copied
  <2>5. call["window"].pc = "idle"
    BY <2>3
  <2>6. ~StartupSet("window") /\ ~KeySet("window")
    BY <2>5 DEF StartupSet, KeySet
  <2> QED BY <2>2, <2>4, <2>5, <2>6 DEF Agree, CacheAgrees, RunKeyAgrees, KeyAgrees, TrayAgrees
<1> QED
  BY <1>1, DiskStart, DiskStep, SettingsStart, SettingsStep, PTL DEF DesktopSpec

\* The copies agree whatever the start of the program has to do to the database
\* (initialize, reconcile_startup_setting).
THEOREM CopiesInStepByStart == StartUpSpec => []InStep
BY StartUpIsDesktop, CopiesInStep, PTL

-----------------------------------------------------------------------------
(* The start of the program *)

\* The migrations of the default palette.
Comparing == {"palette", "theme", "accent", "mark", "marked"}

Ready ==
    /\ columns = AllColumns /\ device # "none" /\ \A r \in Rows : owner[r] = device
    /\ marked = Versions

\* The program runs only on a database that is up to date, and what a start has
\* done is there for the statements that follow.
OpeningInv ==
    /\ opening.pc \in {"off", "columns", "device", "rows", "samples", "done"} \cup Comparing
    /\ opening.pc = "columns" => opening.at \in DOMAIN Columns
    /\ opening.pc \in Comparing => opening.at \in Versions
    /\ opening.pc # "off" => app = "down"
    /\ app # "down" => Ready

ColumnsInv ==
    /\ columns \subseteq AllColumns
    /\ opening.pc = "columns" => \A m \in 1..(opening.at - 1) : Columns[m] \in columns
    /\ opening.pc \notin {"off", "columns"} => columns = AllColumns

RowsInv ==
    /\ device \in DeviceIds \cup {"none"}
    /\ \A r \in Rows : owner[r] \in {"none", device}
    /\ opening.pc \notin {"off", "columns", "device"} => device # "none"
    /\ opening.pc \notin {"off", "columns", "device", "rows"} => \A r \in Rows : owner[r] = device

Sampling == opening.pc = "samples" /\ opening.at = 2
SamplesInv ==
    /\ samples \in 0..Statements
    /\ opening.pc = "samples" => opening.at \in {1, 2}
    /\ Sampling => samples \in 1..(Statements - 1)
    /\ "samples" \notin cut /\ ~Sampling => samples \in {0, Statements}

\* The palette that remains to be migrated: between the two writes of a version
\* it is still the one of before.
Migrating == IF opening.pc = "accent" THEN Old(opening.at) ELSE palette
PaletteInv ==
    /\ marked \subseteq Versions
    /\ opening.pc \in Comparing => 1..(opening.at - 1) \subseteq marked
    /\ opening.pc \in {"theme", "accent", "mark"} => opening.at \notin marked
    /\ opening.pc = "theme" => palette = Old(opening.at)
    /\ opening.pc = "accent" => palette = Palette(New(opening.at).theme, Old(opening.at).accent)
    /\ opening.pc = "mark" => palette # Old(opening.at)
    /\ opening.pc = "marked" => opening.at \in marked
    /\ opening.pc = "done" => marked = Versions
    /\ "palette" \notin cut => Migrated(Migrating, marked) = expected

StartInv == OpeningInv /\ ColumnsInv /\ RowsInv /\ SamplesInv /\ PaletteInv

LEMMA ColumnNumbers ==
    /\ DOMAIN Columns = 1..7 /\ Len(Columns) = 7
    /\ \A m \in 1..7 : Columns[m] \in AllColumns
    /\ \A c \in AllColumns : \E m \in 1..7 : c = Columns[m]
<1>1. DOMAIN Columns = 1..7 /\ Len(Columns) = 7
  BY DEF Columns
<1> QED BY <1>1 DEF AllColumns

\* The defaults of the versions: each replaces its predecessor by another one.
LEMMA OldAndNew ==
    /\ \A v \in Versions : Old(v) # New(v)
    /\ \A v \in Versions : Old(v) = Palette(Old(v).theme, Old(v).accent)
    /\ \A v \in Versions : New(v) = Palette(New(v).theme, New(v).accent)
    /\ \A v \in {1, 2, 3} : New(v) = Old(v + 1)
    /\ \A v \in Versions, p \in {Palette("none", "none")} : p # Old(v)
<1>1. /\ Old(1) = Palette("purple-default", "#6D4CFF") /\ New(1) = Palette("system-blue", "#0067C0")
      /\ Old(2) = Palette("system-blue", "#0067C0") /\ New(2) = Palette("system-blue", "#1F74CC")
      /\ Old(3) = Palette("system-blue", "#1F74CC") /\ New(3) = Palette("system-blue", "#2F69FA")
      /\ Old(4) = Palette("system-blue", "#2F69FA") /\ New(4) = Palette("coral-pulse", "#FF6257")
  BY DEF Old, New, Defaults
<1>2. \A v \in Versions : v = 1 \/ v = 2 \/ v = 3 \/ v = 4
  BY DEF Versions
<1>3. \A t1, t2, a1, a2 : /\ Palette(t1, a1).theme = t1 /\ Palette(t1, a1).accent = a1
                          /\ Palette(t1, a1) = Palette(t2, a2) => t1 = t2 /\ a1 = a2
  <2>1. ASSUME NEW t1, NEW a1 PROVE Palette(t1, a1).theme = t1 /\ Palette(t1, a1).accent = a1
    BY DEF Palette
  <2> QED BY <2>1
<1>4. \A v \in Versions : Old(v) # New(v)
  BY <1>1, <1>2, <1>3
<1>5. \A v \in Versions : /\ Old(v) = Palette(Old(v).theme, Old(v).accent)
                          /\ New(v) = Palette(New(v).theme, New(v).accent)
  BY <1>1, <1>2, <1>3
<1>6. \A v \in {1, 2, 3} : New(v) = Old(v + 1)
  BY <1>1
<1>7. \A v \in Versions : Palette("none", "none") # Old(v)
  BY <1>1, <1>2, <1>3
<1> QED BY <1>4, <1>5, <1>6, <1>7

\* When every version before v has had its turn, v replaces its old default, and
\* a palette that v leaves alone stays when v is marked.
LEMMA MigratedNext ==
    ASSUME NEW v \in Versions, NEW done, 1..(v - 1) \subseteq done
    PROVE  /\ v \notin done => Migrated(Old(v), done) = Migrated(New(v), done)
           /\ \A p : p # Old(v) => Migrated(p, done \cup {v}) = Migrated(p, done)
<1>1. v = 1 \/ v = 2 \/ v = 3 \/ v = 4
  BY DEF Versions
<1>2. \A n \in 1..4 : n < v => n \in done
  BY DEF Versions
<1>3. ASSUME NEW p, NEW n \in done PROVE Migrate(p, n, done) = p
  BY <1>3 DEF Migrate
<1>4. ASSUME NEW p, p # Old(v) PROVE Migrate(p, v, done) = p /\ Migrate(p, v, done \cup {v}) = p
  BY <1>4 DEF Migrate
<1>5. ASSUME NEW p, NEW n, n # v PROVE Migrate(p, n, done \cup {v}) = Migrate(p, n, done)
  BY <1>5 DEF Migrate
<1>6. v \notin done => Migrate(Old(v), v, done) = New(v)
  BY DEF Migrate
<1>7. Migrate(New(v), v, done) = New(v)
  BY <1>4, OldAndNew
<1>8. v \notin done => Migrated(Old(v), done) = Migrated(New(v), done)
  <2>1. CASE v = 1
    BY <1>6, <1>7, <2>1 DEF Migrated
  <2>2. CASE v = 2
    BY <1>2, <1>3, <1>6, <1>7, <2>2 DEF Migrated
  <2>3. CASE v = 3
    BY <1>2, <1>3, <1>6, <1>7, <2>3 DEF Migrated
  <2>4. CASE v = 4
    BY <1>2, <1>3, <1>6, <1>7, <2>4 DEF Migrated
  <2> QED BY <1>1, <2>1, <2>2, <2>3, <2>4
<1>9. ASSUME NEW p, p # Old(v) PROVE Migrated(p, done \cup {v}) = Migrated(p, done)
  <2>1. CASE v = 1
    BY <1>4, <1>5, <1>9, <2>1 DEF Migrated
  <2>2. CASE v = 2
    BY <1>2, <1>3, <1>4, <1>5, <1>9, <2>2 DEF Migrated
  <2>3. CASE v = 3
    BY <1>2, <1>3, <1>4, <1>5, <1>9, <2>3 DEF Migrated
  <2>4. CASE v = 4
    BY <1>2, <1>3, <1>4, <1>5, <1>9, <2>4 DEF Migrated
  <2> QED BY <1>1, <2>1, <2>2, <2>3, <2>4
<1> QED BY <1>8, <1>9

\* A palette that is no old default, and one whose versions have all had their
\* turn, stay.
LEMMA MigratedAll ==
    ASSUME NEW p, NEW done, done = Versions \/ p = Palette("none", "none")
    PROVE  Migrated(p, done) = p
<1>1. \A v \in Versions : Migrate(p, v, done) = p
  BY OldAndNew DEF Migrate
<1>2. 1 \in Versions /\ 2 \in Versions /\ 3 \in Versions /\ 4 \in Versions
  BY DEF Versions
<1> QED BY <1>1, <1>2 DEF Migrated

LEMMA StartStart == StartUpInit => StartInv
<1> SUFFICES ASSUME StartUpInit PROVE StartInv
  OBVIOUS
<1>1. /\ app = "down" /\ opening.pc = "off" /\ cut = {} /\ expected = Migrated(palette, marked)
  BY DEF StartUpInit, DesktopInit, Closed
<1>2. Statements \in Nat \ {0}
  BY StartUpAssumption DEF Statements
<1>3. SomeDevice \in DeviceIds
  BY StartUpAssumption DEF SomeDevice
<1>4. /\ columns \subseteq AllColumns /\ device \in DeviceIds \cup {"none"}
      /\ \A r \in Rows : owner[r] \in {"none", device}
      /\ samples \in {0, Statements} /\ marked \subseteq Versions
  <2>1. CASE CurrentDatabase
    BY <1>3, <2>1 DEF CurrentDatabase, Rows
  <2>2. CASE OlderDatabase
    <3>1. columns \subseteq AllColumns
      BY <2>2, ColumnNumbers DEF OlderDatabase
    <3>2. \A r \in Rows : owner[r] = device
      BY <2>2 DEF OlderDatabase, Rows
    <3>3. device \in DeviceIds \cup {"none"}
      BY <1>3, <2>2 DEF OlderDatabase
    <3>4. samples \in {0, Statements}
      BY <2>2 DEF OlderDatabase
    <3>5. PICK v \in (IF samples = 0 THEN {0} ELSE 0..4) : marked = 1..v
      BY <2>2 DEF OlderDatabase
    <3>6. marked \subseteq Versions
      <4>1. v \in 0..4
        OBVIOUS
      <4> QED BY <3>5, <4>1 DEF Versions
    <3> QED BY <3>1, <3>2, <3>3, <3>4, <3>6
  <2> QED BY <2>1, <2>2 DEF StartUpInit
<1>5. OpeningInv /\ ColumnsInv /\ RowsInv
  BY <1>1, <1>4 DEF OpeningInv, ColumnsInv, RowsInv, Comparing
<1>6. SamplesInv
  BY <1>1, <1>2, <1>4 DEF SamplesInv, Sampling
<1>7. PaletteInv
  BY <1>1, <1>4 DEF PaletteInv, Migrating, Comparing
<1> QED BY <1>5, <1>6, <1>7 DEF StartInv

\* A step that leaves the database alone and does not start the program.
LEMMA StartFrame ==
    ASSUME StartInv, app = "down" => app' = "down", UNCHANGED <<base, expected, cut>>
    PROVE  StartInv'
<1> USE DEF base, Rows
<1>1. OpeningInv'
  BY DEF StartInv, OpeningInv, Ready
<1>2. ColumnsInv' /\ RowsInv' /\ SamplesInv'
  BY DEF StartInv, ColumnsInv, RowsInv, SamplesInv, Sampling
<1>3. PaletteInv'
  BY DEF StartInv, PaletteInv, Migrating
<1> QED BY <1>1, <1>2, <1>3 DEF StartInv

\* Where a statement leads to.
LEMMA Continued ==
    ASSUME NEW pc, NEW at, Continue(pc, at)
    PROVE  opening'.pc = pc /\ opening'.at = at
BY DEF Continue

\* A statement that the process may be cut off before and after.
LEMMA InitializeKeeps ==
    ASSUME StartInv, Initialize
    PROVE  StartInv'
<1> USE DEF StartInv, Rows
<1>a. app' = app
  BY DEF Initialize, Open, AddColumn, Identify, Backfill, SkipSamples, AddSample, ComparePalette,
     WriteTheme, WriteAccent, SetMark, NextVersion, CutOff, Opening, allVars, vars
<1>b. /\ Statements \in Nat /\ Statements > 1
      /\ Versions = 1..4 /\ DOMAIN Columns = 1..7 /\ Len(Columns) = 7
  BY StartUpAssumption, ColumnNumbers DEF Statements, Versions
<1>1. CASE Open
  <2>1. /\ opening.pc = "off" /\ opening'.pc = "columns" /\ opening'.at = 1 /\ app = "down"
        /\ UNCHANGED <<columns, device, owner, samples, palette, marked, expected, cut>>
    BY <1>1, Continued DEF Open, Opening
  <2>2. OpeningInv' /\ ColumnsInv' /\ RowsInv'
    BY <1>a, <1>b, <2>1 DEF OpeningInv, ColumnsInv, RowsInv, Comparing
  <2>3. SamplesInv' /\ PaletteInv'
    BY <2>1 DEF SamplesInv, Sampling, PaletteInv, Migrating, Comparing
  <2> QED BY <2>2, <2>3
<1>2. CASE AddColumn
  <2>1. /\ opening.pc = "columns" /\ columns' = columns \cup {Columns[opening.at]}
        /\ UNCHANGED <<device, owner, samples, palette, marked, expected, cut>>
        /\ opening.at \in 1..7
    BY <1>2, <1>b DEF AddColumn, Opening, OpeningInv
  <2>2. \/ opening.at = 7 /\ opening'.pc = "device"
        \/ opening.at < 7 /\ opening'.pc = "columns" /\ opening'.at = opening.at + 1
    BY <1>2, <1>b, <2>1, Continued DEF AddColumn
  <2>3. OpeningInv'
    BY <1>a, <1>b, <2>1, <2>2 DEF OpeningInv, Comparing
  <2>4. ColumnsInv'
    <3>1. columns' \subseteq AllColumns
      BY <2>1, ColumnNumbers DEF ColumnsInv
    <3>2. \A m \in 1..opening.at : Columns[m] \in columns'
      BY <2>1 DEF ColumnsInv
    <3>3. opening.at = 7 => columns' = AllColumns
      BY <3>1, <3>2, ColumnNumbers
    <3> QED BY <2>1, <2>2, <3>1, <3>2, <3>3 DEF ColumnsInv
  <2>5. RowsInv'
    BY <2>1, <2>2 DEF RowsInv
  <2>6. SamplesInv' /\ PaletteInv'
    BY <2>1, <2>2 DEF SamplesInv, Sampling, PaletteInv, Migrating, Comparing
  <2> QED BY <2>3, <2>4, <2>5, <2>6
<1>3. CASE Identify
  <2>1. /\ opening.pc = "device" /\ opening'.pc = "rows"
        /\ device' # "none" /\ device' \in DeviceIds
        /\ device = "none" \/ device' = device
        /\ UNCHANGED <<columns, owner, samples, palette, marked, expected, cut>>
    BY <1>3, Continued, StartUpAssumption DEF Identify, Opening, RowsInv
  <2>2. OpeningInv' /\ ColumnsInv'
    BY <1>a, <2>1 DEF OpeningInv, ColumnsInv, Comparing
  <2>3. RowsInv'
    BY <2>1 DEF RowsInv
  <2>4. SamplesInv' /\ PaletteInv'
    BY <2>1 DEF SamplesInv, Sampling, PaletteInv, Migrating, Comparing
  <2> QED BY <2>2, <2>3, <2>4
<1>4. CASE Backfill
  <2>1. /\ opening.pc = "rows" /\ opening'.pc = "samples" /\ opening'.at = 1
        /\ owner' = [r \in DOMAIN owner |-> IF owner[r] = "none" THEN device ELSE owner[r]]
        /\ UNCHANGED <<columns, device, samples, palette, marked, expected, cut>>
    BY <1>4, Continued DEF Backfill, Opening
  <2>2. OpeningInv' /\ ColumnsInv'
    BY <1>a, <2>1 DEF OpeningInv, ColumnsInv, Comparing
  <2>3. RowsInv'
    BY <2>1 DEF RowsInv
  <2>4. SamplesInv' /\ PaletteInv'
    BY <2>1 DEF SamplesInv, Sampling, PaletteInv, Migrating, Comparing
  <2> QED BY <2>2, <2>3, <2>4
<1>5. CASE SkipSamples \/ AddSample
  <2>1. /\ opening.pc = "samples"
        /\ UNCHANGED <<columns, device, owner, palette, marked, expected, cut>>
        /\ \/ opening'.pc = "palette" /\ opening'.at = 1
           \/ opening'.pc = "samples"
    BY <1>5, Continued DEF SkipSamples, AddSample, Opening
  <2>2. OpeningInv' /\ ColumnsInv' /\ RowsInv'
    BY <1>a, <1>b, <2>1 DEF OpeningInv, ColumnsInv, RowsInv, Comparing
  <2>3. PaletteInv'
    BY <2>1 DEF PaletteInv, Migrating, Comparing
  <2>4. SamplesInv'
    <3>1. CASE SkipSamples
      <4>1. opening.at = 1 /\ samples' = samples /\ opening'.pc = "palette"
        BY <3>1, Continued DEF SkipSamples
      <4> QED BY <2>1, <4>1 DEF SamplesInv, Sampling
    <3>2. CASE AddSample
      <4>1. /\ samples' = samples + 1 /\ (opening.at = 1 => samples = 0)
            /\ \/ samples' = Statements /\ opening'.pc = "palette"
               \/ samples' # Statements /\ opening'.pc = "samples" /\ opening'.at = 2
        BY <3>2, Continued DEF AddSample
      <4>2. samples \in 0..(Statements - 1)
        BY <1>b, <2>1, <4>1 DEF SamplesInv, Sampling
      <4> QED BY <1>b, <2>1, <4>1, <4>2 DEF SamplesInv, Sampling
    <3> QED BY <1>5, <3>1, <3>2
  <2> QED BY <2>2, <2>3, <2>4
\* The palette; the rest of the database is as the start needs it.
<1>6. ASSUME opening.pc \in Comparing, opening'.pc \in Comparing \cup {"done"},
             opening'.pc \in Comparing => opening'.at \in Versions,
             UNCHANGED <<columns, device, owner, samples, cut>>
      PROVE  OpeningInv' /\ ColumnsInv' /\ RowsInv' /\ SamplesInv'
  <2>1. OpeningInv' /\ ColumnsInv'
    BY <1>a, <1>6 DEF OpeningInv, ColumnsInv, Comparing
  <2>2. RowsInv' /\ SamplesInv'
    BY <1>6 DEF RowsInv, SamplesInv, Sampling, Comparing
  <2> QED BY <2>1, <2>2
<1>7. CASE ComparePalette
  <2>1. /\ opening.pc = "palette" /\ opening.at \in Versions /\ opening'.at = opening.at
        /\ UNCHANGED <<columns, device, owner, samples, palette, marked, expected, cut>>
        /\ \/ opening.at \in marked /\ opening'.pc = "marked"
           \/ opening.at \notin marked /\ palette = Old(opening.at) /\ opening'.pc = "theme"
           \/ opening.at \notin marked /\ palette # Old(opening.at) /\ opening'.pc = "mark"
    BY <1>7, Continued DEF ComparePalette, Opening, OpeningInv, Comparing
  <2>2. PaletteInv'
    BY <2>1 DEF PaletteInv, Migrating, Comparing
  <2> QED BY <1>6, <2>1, <2>2 DEF Comparing
<1>8. CASE WriteTheme
  <2>1. /\ opening.pc = "theme" /\ opening.at \in Versions /\ opening'.at = opening.at
        /\ opening'.pc = "accent" /\ palette' = [palette EXCEPT !.theme = New(opening.at).theme]
        /\ UNCHANGED <<columns, device, owner, samples, marked, expected, cut>>
    BY <1>8, Continued DEF WriteTheme, Opening, OpeningInv, Comparing
  <2>2. palette = Old(opening.at)
    BY <2>1 DEF PaletteInv
  <2>3. palette' = Palette(New(opening.at).theme, Old(opening.at).accent)
    <3>1. palette = [theme |-> palette.theme, accent |-> palette.accent]
      BY <2>1, <2>2, OldAndNew DEF Palette
    <3> QED BY <2>1, <2>2, <3>1 DEF Palette
  <2>4. PaletteInv'
    BY <2>1, <2>2, <2>3 DEF PaletteInv, Migrating, Comparing
  <2> QED BY <1>6, <2>1, <2>4 DEF Comparing
<1>9. CASE WriteAccent
  <2>1. /\ opening.pc = "accent" /\ opening.at \in Versions /\ opening'.at = opening.at
        /\ opening'.pc = "mark" /\ palette' = [palette EXCEPT !.accent = New(opening.at).accent]
        /\ UNCHANGED <<columns, device, owner, samples, marked, expected, cut>>
    BY <1>9, Continued DEF WriteAccent, Opening, OpeningInv, Comparing
  <2>2. palette' = New(opening.at) /\ New(opening.at) # Old(opening.at)
    <3>1. palette = Palette(New(opening.at).theme, Old(opening.at).accent)
      BY <2>1 DEF PaletteInv
    <3>2. palette' = Palette(New(opening.at).theme, New(opening.at).accent)
      BY <2>1, <3>1 DEF Palette
    <3> QED BY <2>1, <3>2, OldAndNew
  <2>3. opening.at \notin marked /\ 1..(opening.at - 1) \subseteq marked
    BY <2>1 DEF PaletteInv, Comparing
  <2>4. Migrated(Old(opening.at), marked) = Migrated(New(opening.at), marked)
    BY <2>1, <2>3, MigratedNext
  <2>5. PaletteInv'
    BY <2>1, <2>2, <2>3, <2>4 DEF PaletteInv, Migrating, Comparing
  <2> QED BY <1>6, <2>1, <2>5 DEF Comparing
<1>10. CASE SetMark
  <2>1. /\ opening.pc = "mark" /\ opening.at \in Versions /\ opening'.at = opening.at
        /\ opening'.pc = "marked" /\ marked' = marked \cup {opening.at}
        /\ UNCHANGED <<columns, device, owner, samples, palette, expected, cut>>
    BY <1>10, Continued DEF SetMark, Opening, OpeningInv, Comparing
  <2>2. palette # Old(opening.at) /\ 1..(opening.at - 1) \subseteq marked
    BY <2>1 DEF PaletteInv, Comparing
  <2>3. Migrated(palette, marked') = Migrated(palette, marked)
    BY <2>1, <2>2, MigratedNext
  <2>4. PaletteInv'
    BY <2>1, <2>2, <2>3 DEF PaletteInv, Migrating, Comparing
  <2> QED BY <1>6, <2>1, <2>4 DEF Comparing
<1>11. CASE NextVersion
  <2>1. /\ opening.pc = "marked" /\ opening.at \in Versions
        /\ UNCHANGED <<columns, device, owner, samples, palette, marked, expected, cut>>
        /\ \/ opening.at = 4 /\ opening'.pc = "done"
           \/ opening.at # 4 /\ opening'.pc = "palette" /\ opening'.at = opening.at + 1
    BY <1>11, Continued DEF NextVersion, Opening, OpeningInv, Comparing
  <2>2. 1..opening.at \subseteq marked /\ marked \subseteq 1..4
    <3>1. opening.at \in marked /\ 1..(opening.at - 1) \subseteq marked
      BY <2>1 DEF PaletteInv, Comparing
    <3> QED BY <1>b, <2>1, <3>1 DEF PaletteInv
  <2>3. opening'.pc \in Comparing => opening'.at \in Versions
    BY <1>b, <2>1 DEF Comparing
  <2>4. PaletteInv'
    <3>1. CASE opening.at = 4
      <4>1. marked = Versions /\ opening'.pc = "done"
        BY <1>b, <2>1, <2>2, <3>1
      <4> QED BY <2>1, <4>1 DEF PaletteInv, Migrating, Comparing
    <3>2. CASE opening.at # 4
      <4>1. opening'.pc = "palette" /\ 1..(opening'.at - 1) \subseteq marked
        BY <1>b, <2>1, <2>2, <3>2
      <4> QED BY <2>1, <4>1 DEF PaletteInv, Migrating, Comparing
    <3> QED BY <3>1, <3>2
  <2>5. opening'.pc \in Comparing \cup {"done"} /\ opening.pc \in Comparing
    BY <2>1 DEF Comparing
  <2> QED BY <1>6, <2>1, <2>3, <2>4, <2>5
<1>12. CASE CutOff
  <2>1. /\ opening'.pc = "off" /\ opening.pc # "off"
        /\ UNCHANGED <<columns, device, owner, samples, palette, marked, expected>>
        /\ cut \subseteq cut'
        /\ Sampling => "samples" \in cut'
        /\ opening.pc = "accent" /\ Old(opening.at).theme # palette.theme => "palette" \in cut'
    BY <1>12 DEF CutOff, Closed, Sampling
  <2>2. OpeningInv' /\ ColumnsInv' /\ RowsInv'
    BY <1>a, <2>1 DEF OpeningInv, ColumnsInv, RowsInv, Comparing
  <2>3. SamplesInv'
    <3>1. ~Sampling'
      BY <2>1 DEF Sampling
    <3> QED BY <2>1, <3>1 DEF SamplesInv
  <2>4. opening.pc = "accent" /\ Old(opening.at).theme = palette.theme => palette = Old(opening.at)
    <3> SUFFICES ASSUME opening.pc = "accent", Old(opening.at).theme = palette.theme
                 PROVE  palette = Old(opening.at)
      OBVIOUS
    <3>1. opening.at \in Versions /\ palette = Palette(New(opening.at).theme, Old(opening.at).accent)
      BY DEF OpeningInv, PaletteInv, Comparing
    <3>2. palette.theme = New(opening.at).theme
      BY <3>1 DEF Palette
    <3> QED BY <3>1, <3>2, OldAndNew
  <2>5. PaletteInv'
    BY <2>1, <2>4 DEF PaletteInv, Migrating, Comparing
  <2> QED BY <2>2, <2>3, <2>5
<1> QED
  BY <1>1, <1>2, <1>3, <1>4, <1>5, <1>7, <1>8, <1>9, <1>10, <1>11, <1>12 DEF Initialize

LEMMA StartStep == DiskInv /\ StartInv /\ [StartUpNext]_startVars => StartInv'
<1> SUFFICES ASSUME DiskInv, StartInv, [StartUpNext]_startVars PROVE StartInv'
  OBVIOUS
<1>1. CASE UNCHANGED startVars
  BY <1>1, StartFrame DEF startVars, allVars, vars
<1>2. CASE Launched
  <2>1. /\ opening'.pc = "off" /\ (opening.pc = "done" \/ (opening.pc = "off" /\ UpToDate))
        /\ UNCHANGED <<columns, device, owner, samples, palette, marked, expected, cut>>
    BY <1>2 DEF Launched, Closed
  <2>2. Ready
    BY <2>1 DEF UpToDate, Ready, StartInv, ColumnsInv, RowsInv, PaletteInv
  <2>3. OpeningInv'
    BY <2>1, <2>2 DEF OpeningInv, Ready, Rows, Comparing
  <2>4. ColumnsInv' /\ RowsInv' /\ SamplesInv' /\ PaletteInv'
    BY <2>1 DEF StartInv, ColumnsInv, RowsInv, Rows, SamplesInv, Sampling, PaletteInv, Migrating,
                Comparing
  <2> QED BY <2>3, <2>4 DEF StartInv
<1>3. CASE (Run \/ Updates) /\ UNCHANGED <<base, expected, cut, picks>>
  <2>1. app = "down" => app' = "down"
    <3>1. CASE Run
      BY <3>1, RunningKeeps DEF Run
    <3>2. CASE Updates
      BY <3>2 DEF Updates, StartDownload, CreateFile, Verified, Mismatch, DownloadFails, LaunchFails,
                  LaunchSetup, Gone, vars
    <3> QED BY <1>3, <3>1, <3>2
  <2> QED BY <1>3, <2>1, StartFrame
<1>4. CASE KeepDatabase
  <2>1. app' = app \/ app' = "down"
    BY <1>4 DEF KeepDatabase, Installer, StartSetup, StopRunning, Gone, WriteProgram, WriteUninstaller,
       WriteEntry, WriteRunKey, RemoveRunKey, RemoveProgram, RemoveEntry, RemoveData, RemoveSelf,
       DeleteSelf, SetupFails, Locked, vars
  <2> QED BY <1>4, <2>1, StartFrame DEF KeepDatabase
<1>5. CASE opening = Closed /\ RemoveDatabase
  <2>1. /\ app = "down" /\ app' = app /\ opening.pc = "off" /\ opening' = opening
        /\ columns' = {} /\ device' = "none" /\ owner' = <<>> /\ samples' = 0
        /\ palette' = Palette("none", "none") /\ marked' = {}
        /\ expected' = palette' /\ cut' = {}
    BY <1>5 DEF RemoveDatabase, RemoveData, Step, DiskInv, SetupInv, Closed
  <2>2. OpeningInv' /\ ColumnsInv' /\ RowsInv'
    BY <2>1 DEF OpeningInv, ColumnsInv, RowsInv, Rows, Comparing
  <2>3. SamplesInv'
    BY <2>1, StartUpAssumption DEF SamplesInv, Sampling, Statements
  <2>4. PaletteInv'
    BY <2>1, MigratedAll DEF PaletteInv, Migrating, Comparing
  <2> QED BY <2>2, <2>3, <2>4 DEF StartInv
<1>6. ASSUME NEW p \in Palettes, Pick(p) PROVE StartInv'
  <2>1. /\ app = "up" /\ app' = app /\ palette' = p /\ expected' = p /\ cut' \subseteq cut
        /\ "samples" \in cut => "samples" \in cut'
        /\ UNCHANGED <<columns, device, owner, samples, marked, opening>>
    BY <1>6 DEF Pick, allVars, vars
  <2>2. marked = Versions /\ opening.pc = "off"
    BY <2>1 DEF StartInv, OpeningInv, Ready
  <2>3. OpeningInv' /\ ColumnsInv' /\ RowsInv' /\ SamplesInv'
    BY <2>1, <2>2 DEF StartInv, OpeningInv, Ready, ColumnsInv, RowsInv, Rows, SamplesInv, Sampling,
                      Comparing
  <2>4. PaletteInv'
    BY <2>1, <2>2, MigratedAll DEF StartInv, PaletteInv, Migrating, Comparing
  <2> QED BY <2>3, <2>4 DEF StartInv
<1>7. CASE Initialize
  BY <1>7, InitializeKeeps
<1> QED BY <1>1, <1>2, <1>3, <1>4, <1>5, <1>6, <1>7 DEF StartUpNext

\* However often and wherever a start was cut off, the program runs only with
\* every column, every row with the one identity of the device, every sample or
\* none and the palette that the user chose or whose default succeeds it, except
\* for samples of which some were written or a palette of which half was
\* (initialize, migrate_default_accent, seed_mock_data).
THEOREM StartsResume == StartUpSpec => []StartResumes
<1>1. StartInv => StartResumes
  <2> SUFFICES ASSUME StartInv, app # "down"
               PROVE  /\ Ready
                      /\ "samples" \notin cut => samples \in {0, Statements}
                      /\ "palette" \notin cut => palette = expected
    BY DEF StartResumes, Ready
  <2>1. Ready /\ opening.pc = "off"
    BY DEF StartInv, OpeningInv
  <2>2. "samples" \notin cut => samples \in {0, Statements}
    BY <2>1 DEF StartInv, SamplesInv, Sampling
  <2>3. "palette" \notin cut => palette = expected
    BY <2>1, MigratedAll DEF StartInv, PaletteInv, Migrating, Ready
  <2> QED BY <2>1, <2>2, <2>3
<1>2. [](DiskInv) /\ StartUpSpec => []StartInv
  BY StartStart, StartStep, PTL DEF StartUpSpec
<1>3. DesktopSpec => []DiskInv
  BY DiskStart, DiskStep, PTL DEF DesktopSpec
<1> QED BY <1>1, <1>2, <1>3, StartUpIsDesktop, PTL

=============================================================================
