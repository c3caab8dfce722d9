------------------------------ MODULE Settings ------------------------------
(***************************************************************************)
(* The settings while the program runs, and the four places that repeat    *)
(* them: the process-wide cache, the Run key of Windows, the registered    *)
(* global shortcut and the label of the tray.  A command of the window, an *)
(* entry of the tray menu and the check of a shortcut are under way at     *)
(* once; each statement of a save commits by itself; the process may end   *)
(* at any point and is started again.                                      *)
(*                                                                         *)
(* Of the 19 settings four are kept, those that something else repeats:    *)
(* monitoring is pause_monitoring, launch is launch_at_startup, window is  *)
(* start_minimized and key is global_shortcut.                             *)
(* Installing and removing the program is in Desktop.                      *)
(***************************************************************************)
EXTENDS Integers, Sequences

CONSTANTS
    Keys,         \* shortcuts in their normal form
    DefaultKey,
    MaxRequests,  \* bound on the saves and toggles
    MaxChecks,    \* bound on the checks of a shortcut
    MaxTaken,     \* bound on what other programs register
    MaxFaults,    \* bound on failures of the registry and the database
    MaxEnds       \* bound on the times the process ends

ASSUME SettingsAssumption ==
    /\ DefaultKey \in Keys /\ "none" \notin Keys
    /\ MaxRequests \in Nat /\ MaxChecks \in Nat /\ MaxTaken \in Nat
    /\ MaxFaults \in Nat /\ MaxEnds \in Nat

Monitoring == {"on", "paused"}
Launches == {"no", "yes"}
Windows == {"shown", "minimized"}
CliplySettings == [monitoring : Monitoring, launch : Launches, window : Windows, key : Keys]

\* The order of save_settings.
Order == <<"monitoring", "launch", "window", "key">>
Fields == {"monitoring", "launch", "window", "key"}
Stored == UNION {[D -> Monitoring \cup Launches \cup Windows \cup Keys] : D \in SUBSET Fields}

\* set_launch_at_startup: the value of the Run key, removed when it is not wanted.
Startups == {"off", "shown", "minimized"}
RunKeyOf(s) == IF s.launch = "no" THEN "off" ELSE s.window

\* A command of the window, and the menu of the tray on the main thread.
Callers == {"window", "tray"}
Copies == {"cache", "runKey", "shortcut", "tray"}

VARIABLES
    stored,    \* the settings table; a key may be missing
    runKey,    \* what Windows starts at login
    app,       \* the process: "down", "starting" or "up"
    cache,     \* SETTINGS_CACHE: a set of at most one CliplySettings
    shortcut,  \* the shortcut that opens the window, or "none"
    checking,  \* the shortcut that a check has registered for the moment
    taken,     \* the shortcuts of other programs
    tray,      \* what the menu and the tooltip say of monitoring
    call,      \* the calls of update_settings under way
    excused,   \* history: the copies that a failure or two calls at once left behind
    spent      \* what is used of each bound

vars == <<stored, runKey, app, cache, shortcut, checking, taken, tray, call, excused, spent>>

Bound == [request |-> MaxRequests, check |-> MaxChecks, taken |-> MaxTaken,
          fault |-> MaxFaults, end |-> MaxEnds]
Spend(what) == /\ spent[what] < Bound[what]
               /\ spent' = [spent EXCEPT ![what] = @ + 1]

Idle == [pc |-> "idle"]
Calls == [pc : {"compare", "register", "restore", "startup", "save", "store", "refresh", "done"},
          kind : {"save", "pause", "menu"}, draft : CliplySettings,
          prev : CliplySettings, next : 1..5, alone : BOOLEAN]

TypeOK ==
    /\ stored \in Stored
    /\ runKey \in Startups /\ app \in {"down", "starting", "up"}
    /\ cache \subseteq CliplySettings
    /\ shortcut \in Keys \cup {"none"} /\ checking \in Keys \cup {"none"}
    /\ taken \subseteq Keys /\ tray \in Monitoring
    /\ call \in [Callers -> Calls \cup {Idle}]
    /\ excused \subseteq Copies
    /\ DOMAIN spent = DOMAIN Bound /\ \A b \in DOMAIN Bound : spent[b] \in 0..Bound[b]

\* load_settings: what was never stored has its default; as long as launch was
\* not, it and the window are read from the Run key.
Default ==
    [monitoring |-> "on",
     launch |-> IF runKey = "off" THEN "no" ELSE "yes",
     window |-> IF "launch" \in DOMAIN stored \/ runKey = "off" THEN "shown" ELSE runKey,
     key |-> DefaultKey]
Loaded == [f \in Fields |-> IF f \in DOMAIN stored THEN stored[f] ELSE Default[f]]

Cached == CHOOSE s \in CliplySettings : cache = {s}

Init ==
    /\ stored = [f \in {} |-> "on"]
    /\ runKey \in {"off", "minimized"}
    /\ app = "down" /\ cache = {}
    /\ shortcut = "none" /\ checking = "none" /\ taken = {} /\ tray = "on"
    /\ call = [c \in Callers |-> Idle]
    /\ excused = {}
    /\ spent = [b \in DOMAIN Bound |-> 0]

At(c, pc) == app = "up" /\ call[c].pc = pc
To(c, pc) == call' = [call EXCEPT ![c].pc = pc]
End(c) == call' = [call EXCEPT ![c] = Idle]
Moved(c, f) == call[c].prev[f] # call[c].draft[f]
StartupMoved(c) == Moved(c, "launch") \/ Moved(c, "window")
\* A Run key that should be there is written whether the settings move or not.
StartupWritten(c) == StartupMoved(c) \/ call[c].draft.launch = "yes"

-----------------------------------------------------------------------------

(* The process. *)

\* setup: reconcile_startup_setting loads the cache and writes the Run key, which
\* may fail; the tray is created.
Launch ==
    /\ app = "down"
    /\ app' = "starting"
    /\ cache' = {Loaded}
    /\ tray' = Loaded.monitoring
    /\ \/ runKey' = RunKeyOf(Loaded) /\ excused' = {} /\ spent' = spent
       \/ runKey' = runKey /\ excused' = {"runKey"} /\ Spend("fault")
    /\ UNCHANGED <<stored, shortcut, checking, taken, call>>

\* register_default_shortcuts.
Started ==
    /\ app = "starting" /\ Cached.key \notin taken
    /\ app' = "up"
    /\ shortcut' = Cached.key
    /\ UNCHANGED <<stored, runKey, cache, checking, taken, tray, call, excused, spent>>

\* The process is gone and with it all that it kept in memory.
Gone ==
    /\ app' = "down" /\ cache' = {}
    /\ shortcut' = "none" /\ checking' = "none"
    /\ call' = [c \in Callers |-> Idle]

\* A shortcut that another program holds fails setup, and the process ends.
StartFails ==
    /\ app = "starting" /\ Cached.key \in taken
    /\ Gone
    /\ UNCHANGED <<stored, runKey, taken, tray, excused, spent>>

Exit ==
    /\ app # "down" /\ Spend("end")
    /\ Gone
    /\ UNCHANGED <<stored, runKey, taken, tray, excused>>

(* Other programs. *)

Take(k) ==
    /\ k \notin taken \cup {shortcut, checking} /\ Spend("taken")
    /\ taken' = taken \cup {k}
    /\ UNCHANGED <<stored, runKey, app, cache, shortcut, checking, tray, call, excused>>

Release(k) ==
    /\ k \in taken
    /\ taken' = taken \ {k}
    /\ UNCHANGED <<stored, runKey, app, cache, shortcut, checking, tray, call, excused, spent>>

(* check_shortcut, while the user types: registers the shortcut and removes it. *)

Check(k) ==
    /\ app = "up" /\ checking = "none"
    /\ k \notin taken \cup {Cached.key, shortcut} /\ Spend("check")
    /\ checking' = k
    /\ UNCHANGED <<stored, runKey, app, cache, shortcut, taken, tray, call, excused>>

EndCheck ==
    /\ checking # "none"
    /\ shortcut' = IF shortcut = checking THEN "none" ELSE shortcut
    /\ checking' = "none"
    /\ UNCHANGED <<stored, runKey, app, cache, taken, tray, call, excused, spent>>

-----------------------------------------------------------------------------

(* update_settings, statement by statement. *)

\* Two calls at once answer for nothing.
Begin(c, kind, draft) ==
    LET others == {d \in Callers \ {c} : call[d].pc # "idle"}
        new == [pc |-> "compare", kind |-> kind, draft |-> draft, prev |-> draft,
                next |-> 1, alone |-> others = {}]
    IN /\ At(c, "idle") /\ Spend("request")
       /\ call' = [d \in Callers |->
                      CASE d = c -> new
                        [] d \in others -> [call[d] EXCEPT !.alone = FALSE]
                        [] OTHER -> Idle]
       /\ excused' = IF others = {} THEN excused ELSE Copies
       /\ UNCHANGED <<stored, runKey, app, cache, shortcut, checking, taken, tray>>

\* update_cliply_settings: the draft of the settings dialog.
Save(draft) == Begin("window", "save", draft)

\* set_monitoring_paused: reads the whole of the settings to change one.
Pausing(m) == [Cached EXCEPT !.monitoring = m]
Pause(m) == app = "up" /\ Begin("window", "pause", Pausing(m))
Toggle == \E m \in Monitoring : /\ app = "up" /\ m # Cached.monitoring
                               /\ Begin("tray", "menu", Pausing(m))

\* Compares with what is stored, not with the cache.
Compare(c) ==
    /\ At(c, "compare")
    /\ call' = [call EXCEPT ![c].prev = Loaded,
                            ![c].pc = IF Loaded.key # call[c].draft.key THEN "register" ELSE "startup"]
    /\ UNCHANGED <<stored, runKey, app, cache, shortcut, checking, taken, tray, excused, spent>>

\* The call ends with an error; the tray menu refreshes its label all the same.
Failed(c) == IF call[c].kind = "menu" THEN To(c, "refresh") ELSE End(c)

\* A check of the same shortcut will remove it when it ends.
Registered(c, k) ==
    /\ shortcut' = k
    /\ excused' = IF checking = k THEN excused \cup {"shortcut"} ELSE excused

\* register_shortcut: everything is unregistered first.
Register(c) ==
    LET k == call[c].draft.key
    IN /\ At(c, "register") /\ k \notin taken
       /\ Registered(c, k)
       /\ call' = [call EXCEPT ![c].pc = "startup", ![c].alone = @ /\ checking # k]
       /\ UNCHANGED <<stored, runKey, app, cache, checking, taken, tray, spent>>

Refused(c) ==
    /\ At(c, "register") /\ call[c].draft.key \in taken
    /\ shortcut' = "none"
    /\ To(c, "restore")
    /\ UNCHANGED <<stored, runKey, app, cache, checking, taken, tray, excused, spent>>

\* Mutant: the refused shortcut is not replaced by the previous one.
MutRestore(c) ==
    /\ At(c, "restore")
    /\ Failed(c)
    /\ UNCHANGED <<stored, runKey, app, cache, shortcut, checking, taken, tray, excused, spent>>

\* Registers the previous one again, unless it was taken meanwhile.
Restore(c) ==
    LET k == call[c].prev.key
    IN /\ At(c, "restore")
       /\ \/ k \notin taken /\ Registered(c, k)
          \/ k \in taken /\ shortcut' = "none" /\ excused' = excused \cup {"shortcut"}
       /\ Failed(c)
       /\ UNCHANGED <<stored, runKey, app, cache, checking, taken, tray, spent>>

\* set_launch_at_startup when it changes; a repair of the Run key otherwise.
SetStartup(c) ==
    /\ At(c, "startup")
    /\ runKey' = IF StartupWritten(c) THEN RunKeyOf(call[c].draft) ELSE runKey
    /\ To(c, "save")
    /\ UNCHANGED <<stored, app, cache, shortcut, checking, taken, tray, excused, spent>>

\* The registry refuses: an error if the setting changes, after the shortcut was
\* registered; a failed repair is only logged.
StartupFails(c) ==
    /\ At(c, "startup") /\ Spend("fault")
    /\ \/ /\ StartupMoved(c)
          /\ Failed(c)
          /\ excused' = excused \cup {x \in {"shortcut"} : Moved(c, "key")}
       \/ /\ ~StartupMoved(c) /\ StartupWritten(c)
          /\ To(c, "save")
          /\ excused' = excused \cup {x \in {"runKey"} : runKey # RunKeyOf(call[c].draft)}
    /\ UNCHANGED <<stored, runKey, app, cache, shortcut, checking, taken, tray>>

\* set_value.
SetValue(c) ==
    LET f == Order[call[c].next]
    IN /\ At(c, "save")
       /\ stored' = [g \in DOMAIN stored \cup {f} |-> IF g = f THEN call[c].draft[f] ELSE stored[g]]
       /\ call' = [call EXCEPT ![c].next = @ + 1, ![c].pc = IF call[c].next = Len(Order) THEN "store" ELSE "save"]
       /\ UNCHANGED <<runKey, app, cache, shortcut, checking, taken, tray, excused, spent>>

\* What was saved so far stays, and the cache is not told.
SaveFails(c) ==
    /\ At(c, "save") /\ Spend("fault")
    /\ Failed(c)
    /\ excused' = excused \cup {"cache"} \cup {x \in {"shortcut"} : Moved(c, "key")}
                                         \cup {x \in {"runKey"} : StartupWritten(c)}
    /\ UNCHANGED <<stored, runKey, app, cache, shortcut, checking, taken, tray>>

Store(c) ==
    /\ At(c, "store")
    /\ cache' = {call[c].draft}
    /\ To(c, "done")
    /\ UNCHANGED <<stored, runKey, app, shortcut, checking, taken, tray, excused, spent>>

\* The retention that update_cliply_settings runs before it refreshes the tray.
RetentionFails(c) ==
    /\ At(c, "done") /\ call[c].kind = "save" /\ Spend("fault")
    /\ End(c)
    /\ excused' = excused \cup {"tray"}
    /\ UNCHANGED <<stored, runKey, app, cache, shortcut, checking, taken, tray>>

\* What a call that nothing crossed has put right again.
Repaired(c) == {"cache", "tray"} \cup {x \in {"shortcut"} : Moved(c, "key")}
                                 \cup {x \in {"runKey"} : StartupMoved(c)}

RefreshTray(c) ==
    /\ At(c, "done") \/ At(c, "refresh")
    /\ tray' = Cached.monitoring
    /\ End(c)
    /\ excused' = IF At(c, "done") /\ call[c].alone THEN excused \ Repaired(c) ELSE excused
    /\ UNCHANGED <<stored, runKey, app, cache, shortcut, checking, taken, spent>>

Process == Started \/ StartFails \/ Exit
Others == \E k \in Keys : Take(k) \/ Release(k)
Checks == (\E k \in Keys : Check(k)) \/ EndCheck
Requests == (\E s \in CliplySettings : Save(s)) \/ (\E m \in Monitoring : Pause(m)) \/ Toggle
Steps(c) ==
    \/ Compare(c)
    \/ Register(c) \/ Refused(c) \/ Restore(c)
    \/ SetStartup(c) \/ StartupFails(c)
    \/ SetValue(c) \/ SaveFails(c) \/ Store(c)
    \/ RetentionFails(c) \/ RefreshTray(c)

Running == Process \/ Others \/ Checks \/ Requests \/ (\E c \in Callers : Steps(c))

Next == Launch \/ Running

Spec == Init /\ [][Next]_vars

-----------------------------------------------------------------------------

\* While no call is under way the cache, the Run key, the registered shortcut and
\* the tray agree with the settings table, whatever calls, refused shortcuts,
\* crashes in the middle of a save and restarts came before; only what a failure
\* of the registry or the database, or two calls at once, left behind is excused,
\* until the next call or start that writes it (update_settings,
\* reconcile_startup_setting, register_default_shortcuts, refresh_tray).
InStep ==
    app = "up" /\ (\A c \in Callers : call[c].pc = "idle") =>
        /\ "cache" \notin excused => \A f \in DOMAIN stored : stored[f] = Cached[f]
        /\ "runKey" \notin excused => runKey = RunKeyOf(Cached)
        /\ "shortcut" \notin excused => shortcut = Cached.key
        /\ "tray" \notin excused => tray = Cached.monitoring

=============================================================================
