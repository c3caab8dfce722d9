------------------------------ MODULE Desktop -------------------------------
(***************************************************************************)
(* The program on a computer: Settings, with the update that the program   *)
(* downloads, and with the setup program that installs, updates and        *)
(* removes it.  Both write the Run key; the setup program ends the running *)
(* one and may itself end at any point.                                    *)
(*                                                                         *)
(* Icons, shortcuts of the desktop and the start menu are left out; a file *)
(* is replaced in one step (write_file_atomic).  One setup at a time.      *)
(***************************************************************************)
EXTENDS Settings

CONSTANTS
    MaxSetups,    \* bound on the runs of the setup program
    MaxDownloads  \* bound on the downloads of an update

ASSUME DesktopAssumption ==
    /\ MaxSetups \in Nat \ {0} /\ MaxDownloads \in Nat
    /\ MaxRequests > 0

\* A download that fails or whose dialog is closed may be followed by another.
Downloads == {"first", "second"}

VARIABLES
    program,      \* Cliply.exe is there
    uninstaller,  \* the setup program's copy in the install directory
    entry,        \* the entry under Uninstall in the registry
    setup,        \* the setup program: what it does next, and for which mode
    leaving,      \* a detached command is about to delete the uninstaller
    revived,      \* history: the program was started while it was last removed
    undeleted,    \* history: the Run key could not be deleted then
    file,         \* the update in the temporary directory
    download,     \* downloads under way
    crossed,      \* history: two downloads were under way at once
    launched,     \* the contents of the file that was started as the update
    left          \* what is left of the bounds

removal == <<leaving, revived, undeleted>>
disk == <<program, uninstaller, entry, setup, removal>>
update == <<file, download, crossed, launched>>
allVars == <<vars, disk, update, left>>

Off == [pc |-> "off", mode |-> "none"]
Setups == [pc : {"stop", "program", "uninstaller", "entry", "runKey",
                 "unstart", "remove", "removeEntry", "data", "self"},
           mode : {"install", "update", "uninstall"}]
Files == {"none", "partial", "whole"}

DesktopTypeOK ==
    /\ TypeOK
    /\ program \in BOOLEAN /\ uninstaller \in BOOLEAN /\ entry \in BOOLEAN
    /\ setup \in Setups \cup {Off} /\ leaving \in BOOLEAN
    /\ revived \in BOOLEAN /\ undeleted \in BOOLEAN
    /\ file \in Files /\ launched \in Files /\ crossed \in BOOLEAN
    /\ download \in [Downloads -> {"idle", "get", "write", "ready"}]
    /\ left \in [setups : 0..MaxSetups, downloads : 0..MaxDownloads]

\* As a bound, what varies is either the settings, one request beside the setups,
\* the downloads and the setup that they start, or nothing.
Spent(requests, others) ==
    spent = [b \in DOMAIN Bound |-> CASE b = "request" -> MaxRequests - requests
                                    [] b \in {"check", "taken"} -> Bound[b] - others[b]
                                    [] OTHER -> 0]
Left(setups, downloads) == left = [setups |-> setups, downloads |-> downloads]
Bounds ==
    \/ Spent(MaxRequests, Bound) /\ Left(0, 0)
    \/ Spent(1, [Bound EXCEPT !.check = 0, !.taken = 0]) /\ Left(MaxSetups, 0)
    \/ Spent(0, [Bound EXCEPT !.check = 0, !.taken = 0]) /\ Left(1, MaxDownloads)
    \/ Spent(0, [Bound EXCEPT !.check = 0, !.taken = 0]) /\ Left(0, 0)

DesktopInit ==
    /\ stored = [f \in {} |-> "on"]
    /\ app = "down" /\ cache = {}
    /\ shortcut = "none" /\ checking = "none" /\ taken = {} /\ tray = "on"
    /\ call = [c \in Callers |-> Idle]
    /\ excused = {}
    /\ Bounds
    /\ program \in BOOLEAN /\ uninstaller = program /\ entry = program
    /\ runKey \in IF program THEN {"off", "minimized"} ELSE {"off"}
    /\ setup = Off /\ leaving = FALSE /\ revived = FALSE /\ undeleted = FALSE
    /\ file = "none" /\ launched = "none" /\ crossed = FALSE
    /\ download = [d \in Downloads |-> "idle"]

Step(from, to) == setup.pc = from /\ setup' = [setup EXCEPT !.pc = to]
Finish(from) == setup.pc = from /\ setup' = Off

-----------------------------------------------------------------------------

(* The program. *)

\* Started by the user, by Windows or by the setup program.  Its start writes the
\* Run key, also while the program is being removed.
LaunchProgram ==
    /\ program
    /\ Launch
    /\ revived' = (revived \/ setup.pc = "remove")
    /\ UNCHANGED <<program, uninstaller, entry, setup, leaving, undeleted, update, left>>

\* The downloads end with the process.
Run ==
    /\ Running
    /\ download' = IF app' = "down" THEN [d \in Downloads |-> "idle"] ELSE download
    /\ UNCHANGED <<disk, file, crossed, launched, left>>

-----------------------------------------------------------------------------

(* download_modern_update_installer. *)

Busy == {d \in Downloads : download[d] # "idle"}

\* Removes what an earlier download left.
StartDownload(d) ==
    /\ app = "up" /\ download[d] = "idle" /\ left.downloads > 0
    /\ left' = [left EXCEPT !.downloads = @ - 1]
    /\ file' = "none"
    /\ download' = [download EXCEPT ![d] = "get"]
    /\ crossed' = (crossed \/ Busy # {})
    /\ UNCHANGED <<vars, disk, launched>>

CreateFile(d) ==
    /\ download[d] = "get"
    /\ file' = "partial"
    /\ download' = [download EXCEPT ![d] = "write"]
    /\ UNCHANGED <<vars, disk, crossed, launched, left>>

\* The digest is that of the bytes received: with two downloads the file may be
\* the other one's.
Verified(d) ==
    /\ download[d] = "write"
    /\ file' \in IF Busy = {d} THEN {"whole"} ELSE {"whole", file}
    /\ download' = [download EXCEPT ![d] = "ready"]
    /\ UNCHANGED <<vars, disk, crossed, launched, left>>

Mismatch(d) ==
    /\ download[d] = "write"
    /\ file' = "none"
    /\ download' = [download EXCEPT ![d] = "idle"]
    /\ UNCHANGED <<vars, disk, crossed, launched, left>>

\* Mutant: the path is handed on although the download failed.
MutDownloadFails(d) ==
    /\ download[d] \in {"get", "write"}
    /\ download' = [download EXCEPT ![d] = "ready"]
    /\ UNCHANGED <<vars, disk, file, crossed, launched, left>>

\* A network error leaves what was written.
DownloadFails(d) ==
    /\ download[d] \in {"get", "write"}
    /\ download' = [download EXCEPT ![d] = "idle"]
    /\ UNCHANGED <<vars, disk, file, crossed, launched, left>>

\* launch_modern_update_installer: the file has to exist; its digest is not
\* compared again.  The program exits, the setup program waits for it.
LaunchSetup(d) ==
    /\ app = "up" /\ download[d] = "ready" /\ setup = Off
    /\ file # "none" /\ left.setups > 0
    /\ left' = [left EXCEPT !.setups = @ - 1]
    /\ launched' = file
    /\ setup' = IF file = "whole" THEN [pc |-> "stop", mode |-> "update"] ELSE Off
    /\ download' = [x \in Downloads |-> "idle"]
    /\ Gone
    /\ UNCHANGED <<stored, runKey, taken, tray, excused, spent>>
    /\ UNCHANGED <<program, uninstaller, entry, removal, file, crossed>>

\* The file is gone, or the user refuses to let it run.
LaunchFails(d) ==
    /\ download[d] = "ready"
    /\ download' = [download EXCEPT ![d] = "idle"]
    /\ UNCHANGED <<vars, disk, file, crossed, launched, left>>

-----------------------------------------------------------------------------

(* The setup program. *)

\* The user starts it: over an installed program it updates, and the copy in the
\* install directory removes.
StartSetup(mode) ==
    /\ setup = Off /\ left.setups > 0
    /\ CASE mode = "install" -> ~(program \/ entry)
         [] mode = "update" -> program \/ entry
         [] mode = "uninstall" -> uninstaller
    /\ left' = [left EXCEPT !.setups = @ - 1]
    /\ setup' = [pc |-> "stop", mode |-> mode]
    /\ UNCHANGED <<vars, program, uninstaller, entry, removal, update>>

\* Mutant: the Run key is left for later.
MutStopRunning ==
    /\ Step("stop", IF setup.mode = "uninstall" THEN "remove" ELSE "program")
    /\ Gone
    /\ download' = [d \in Downloads |-> "idle"]
    /\ UNCHANGED <<stored, runKey, taken, tray, excused, spent>>
    /\ UNCHANGED <<program, uninstaller, entry, removal, file, crossed, launched, left>>

\* It waits for its parent, then ends whatever runs; the user may start the
\* program again at once.
StopRunning ==
    /\ Step("stop", IF setup.mode = "uninstall" THEN "unstart" ELSE "program")
    /\ Gone
    /\ download' = [d \in Downloads |-> "idle"]
    /\ UNCHANGED <<stored, runKey, taken, tray, excused, spent>>
    /\ UNCHANGED <<program, uninstaller, entry, removal, file, crossed, launched, left>>

\* write_payload: the file of a running program cannot be replaced.
WriteProgram ==
    /\ app = "down"
    /\ Step("program", "uninstaller")
    /\ program' = TRUE
    /\ UNCHANGED <<vars, uninstaller, entry, removal, update, left>>

\* As an assumption on time, a setup does not come this far within the two
\* seconds after which the command of an earlier removal deletes the file.
WriteUninstaller ==
    /\ Step("uninstaller", "entry") /\ ~leaving
    /\ uninstaller' = TRUE
    /\ UNCHANGED <<vars, program, entry, removal, update, left>>

WriteEntry ==
    /\ Step("entry", "runKey")
    /\ entry' = (entry \/ uninstaller)
    /\ UNCHANGED <<vars, program, uninstaller, removal, update, left>>

\* An update keeps whether the program starts at login, an installation asks.
\* Either way it then starts minimized, whatever the settings say.
RunKeys == IF setup.mode = "install" THEN {"off", "minimized"}
           ELSE IF runKey = "off" THEN {"off"} ELSE {"minimized"}

\* The Run key changes under the program if somebody started it again.
BehindItsBack ==
    /\ excused' = IF app = "down" THEN excused ELSE excused \cup {"runKey"}
    /\ call' = [c \in Callers |-> IF call[c] = Idle THEN Idle ELSE [call[c] EXCEPT !.alone = FALSE]]

WriteRunKey ==
    /\ Finish("runKey")
    /\ runKey' \in RunKeys
    /\ BehindItsBack
    /\ UNCHANGED <<stored, app, cache, shortcut, checking, taken, tray, spent>>
    /\ UNCHANGED <<program, uninstaller, entry, removal, update, left>>

\* Uninstalling: the Run key first; that it could not be deleted is ignored, and
\* so the program goes all the same.  What the histories say is of this removal.
RemoveRunKey ==
    /\ Step("unstart", "remove")
    /\ \/ runKey' = "off" /\ undeleted' = FALSE /\ spent' = spent
       \/ runKey' = runKey /\ undeleted' = TRUE /\ Spend("fault")
    /\ revived' = (app # "down")
    /\ BehindItsBack
    /\ UNCHANGED <<stored, app, cache, shortcut, checking, taken, tray>>
    /\ UNCHANGED <<program, uninstaller, entry, leaving, update, left>>

\* ... then the program, if nobody started it again ...
RemoveProgram ==
    /\ app = "down"
    /\ Step("remove", "removeEntry")
    /\ program' = FALSE
    /\ UNCHANGED <<vars, uninstaller, entry, removal, update, left>>

RemoveEntry ==
    /\ Step("removeEntry", "data")
    /\ entry' = FALSE
    /\ UNCHANGED <<vars, program, uninstaller, removal, update, left>>

\* ... the user's data, if the user wants that ...
RemoveData ==
    /\ Step("data", "self")
    /\ stored' \in {stored, [f \in {} |-> "on"]}
    /\ UNCHANGED <<runKey, app, cache, shortcut, checking, taken, tray, call, excused, spent>>
    /\ UNCHANGED <<program, uninstaller, entry, removal, update, left>>

\* ... and itself, when it runs from the install directory: a detached command
\* does that when the setup program is gone, ...
RemoveSelf ==
    /\ Finish("self")
    /\ leaving' \in {leaving, uninstaller}
    /\ UNCHANGED <<vars, program, uninstaller, entry, revived, undeleted, update, left>>

\* ... unless the file cannot be deleted.
DeleteSelf ==
    /\ leaving /\ leaving' = FALSE
    /\ uninstaller' \in {FALSE, uninstaller}
    /\ UNCHANGED <<vars, program, entry, setup, revived, undeleted, update, left>>

\* A step fails, or the setup program ends at any point.
SetupFails ==
    /\ setup # Off /\ setup' = Off
    /\ Spend("fault")
    /\ UNCHANGED <<stored, runKey, app, cache, shortcut, checking, taken, tray, call, excused>>
    /\ UNCHANGED <<program, uninstaller, entry, removal, update, left>>

Locked ==
    /\ setup.pc \in {"program", "remove"} /\ app # "down" /\ setup' = Off
    /\ UNCHANGED <<vars, program, uninstaller, entry, removal, update, left>>

Updates == \E d \in Downloads :
    \/ StartDownload(d) \/ CreateFile(d)
    \/ Verified(d) \/ Mismatch(d) \/ DownloadFails(d)
    \/ LaunchSetup(d) \/ LaunchFails(d)

Installer ==
    \/ \E mode \in {"install", "update", "uninstall"} : StartSetup(mode)
    \/ StopRunning
    \/ WriteProgram \/ WriteUninstaller \/ WriteEntry \/ WriteRunKey
    \/ RemoveRunKey \/ RemoveProgram \/ RemoveEntry \/ RemoveData
    \/ RemoveSelf \/ DeleteSelf
    \/ SetupFails \/ Locked

DesktopNext == LaunchProgram \/ Run \/ Updates \/ Installer

DesktopSpec == DesktopInit /\ [][DesktopNext]_allVars

-----------------------------------------------------------------------------

\* No setup, finished or interrupted at any point, leaves Windows starting a
\* program that is not there, or an entry whose uninstaller is not there: the
\* order of the steps of install and uninstall is what guarantees it.  With two
\* exceptions: a program which was started while it was being removed has written
\* the Run key again (reconcile_startup_setting), and a Run key that the removal
\* could not delete stays, because that error is ignored (uninstall).
NothingDangles ==
    /\ setup = Off /\ runKey # "off" => program \/ revived \/ undeleted
    /\ entry => uninstaller

\* What is started as the update is a file whose digest was compared, unless two
\* downloads shared its path (download_modern_update_installer_inner).
VerifiedIsLaunched == launched = "partial" => crossed

=============================================================================
