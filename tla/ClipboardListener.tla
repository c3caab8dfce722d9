-------------------------- MODULE ClipboardListener --------------------------
(***************************************************************************)
(* The clipboard listener: a message window that hears of clipboard        *)
(* changes, a worker that reads the clipboard after a change, the window   *)
(* of time in which changes are taken for the program's own, and the       *)
(* threads' start and stop.                                                *)
(*                                                                         *)
(* A change is not carried through the channel, only the fact: the worker  *)
(* reads what is on the clipboard when it comes to it.  Time is counted in *)
(* tenths of a second.                                                     *)
(***************************************************************************)
EXTENDS Naturals, Sequences

CONSTANTS
    Copies,      \* what other programs put on the clipboard
    Window,      \* how long suppress_clipboard_events_for silences the listener
    WriteTime,   \* a write of the program lands within this time
    Lag,         \* a posted message is dispatched within this time
    MaxClock,    \* bound on the clock
    MaxChanges   \* bound on the changes of the clipboard and of the pause

ASSUME ListenerAssumption ==
    /\ Window \in Nat /\ WriteTime \in Nat /\ Lag \in Nat
    /\ WriteTime + Lag <= Window
    /\ MaxClock \in Nat /\ MaxChanges \in Nat
    /\ "own" \notin Copies /\ "none" \notin Copies

VARIABLES
    clip,       \* what is on the clipboard
    posted,     \* the window's queue: WM_CLIPLY_STOP, and when each
                \* WM_CLIPBOARDUPDATE was posted
    until,      \* SUPPRESS_UNTIL; 0: None
    began,      \* when the running write_payload began; 0: none
    sender,     \* CHANGE_SENDER is Some
    channel,    \* number of changes in the channel
    window,     \* the thread with the message window
    reply,      \* what it told start_listener
    worker,     \* the worker thread
    taken,      \* what it read from the clipboard
    app,        \* the thread that starts and stops the listener
    paused,     \* settings: monitoring is paused
    recorded,   \* what was ingested
    clock,
    changes,    \* number of changes so far
    missed,     \* history: why the content of the clipboard may not be recorded
    overlap     \* history: a write landed while an earlier change was handled

system == <<clip, posted, until, began>>
threads == <<sender, channel, window, reply, worker, taken, app>>
history == <<missed, overlap>>
vars == <<system, threads, paused, recorded, clock, changes, history>>

TypeOK ==
    /\ clip \in Copies \cup {"none", "own"}
    /\ posted \in Seq(Nat)
    /\ until \in Nat
    /\ began \in Nat
    /\ sender \in BOOLEAN
    /\ channel \in Nat
    /\ window \in {"absent", "creating", "listening", "quitting", "done"}
    /\ reply \in {"none", "ready", "failed"}
    /\ worker \in {"absent", "receiving", "settling", "reading", "storing", "done"}
    /\ taken \in Copies \cup {"none", "own"}
    /\ app \in {"new", "starting", "giving up", "failed", "started", "posted", "joining", "stopped"}
    /\ paused \in BOOLEAN
    /\ recorded \subseteq Copies \cup {"own"}
    /\ clock \in Nat
    /\ changes \in Nat
    /\ missed \in {"no", "unheard", "suppressed", "paused", "unreadable", "failed", "ignored", "stopping"}
    /\ overlap \in BOOLEAN

Init ==
    /\ clip = "none" /\ posted = <<>>
    /\ until = 0 /\ began = 0
    /\ sender = FALSE /\ channel = 0
    /\ window = "absent" /\ reply = "none" /\ worker = "absent" /\ taken = "none" /\ app = "new"
    /\ paused = FALSE /\ recorded = {}
    /\ clock = 1 /\ changes = 0
    /\ missed = "no" /\ overlap = FALSE

-----------------------------------------------------------------------------
(* The clipboard *)

Registered == window = "listening"
Stop == 0   \* stands for WM_CLIPLY_STOP in the queue

\* The clipboard changes, and the message window is told if it is registered.
Change(content) ==
    /\ clip' = content
    /\ posted' = IF Registered THEN Append(posted, clock) ELSE posted
    /\ missed' = IF Registered THEN "no" ELSE "unheard"

\* The worker will read the clipboard again.
Pending ==
    \/ \E i \in DOMAIN posted : posted[i] # Stop
    \/ channel > 0
    \/ worker \in {"settling", "reading"}

\* What is on the clipboard goes unread for this reason, unless it is read later.
Missed(reason) == missed' = IF Pending' THEN missed ELSE reason

UserCopy ==
    /\ changes < MaxChanges
    /\ changes' = changes + 1
    /\ \E c \in Copies \ recorded : Change(c)
    /\ UNCHANGED <<until, began, threads, paused, recorded, clock, overlap>>

\* write_payload silences the listener, then opens the clipboard (with retries)
\* and sets its content.
MutBeginWrite ==
    /\ began = 0 /\ changes < MaxChanges
    /\ changes' = changes + 1
    /\ began' = clock
    /\ until' = clock + (Window - Lag - 1)
    /\ UNCHANGED <<clip, posted, threads, paused, recorded, clock, history>>

BeginWrite ==
    /\ began = 0 /\ changes < MaxChanges
    /\ changes' = changes + 1
    /\ began' = clock
    /\ until' = clock + Window
    /\ UNCHANGED <<clip, posted, threads, paused, recorded, clock, history>>

Land ==
    /\ began > 0
    /\ began' = 0
    /\ Change("own")
    /\ overlap' = (overlap \/ channel > 0 \/ worker \in {"settling", "reading"})
    /\ UNCHANGED <<until, threads, paused, recorded, clock, changes>>

WriteFails ==
    /\ began > 0
    /\ began' = 0
    /\ UNCHANGED <<clip, posted, until, threads, paused, recorded, clock, changes, history>>

TogglePaused ==
    /\ changes < MaxChanges
    /\ changes' = changes + 1
    /\ paused' = ~paused
    /\ UNCHANGED <<system, threads, recorded, clock, history>>

Tick ==
    /\ clock < MaxClock
    /\ began > 0 => clock < began + WriteTime
    /\ \A i \in DOMAIN posted : posted[i] # Stop => clock < posted[i] + Lag
    /\ clock' = clock + 1
    /\ UNCHANGED <<system, threads, paused, recorded, changes, history>>

-----------------------------------------------------------------------------
(* The thread with the message window *)

Open ==
    /\ window = "creating"
    /\ window' = "listening" /\ reply' = "ready"
    /\ UNCHANGED <<system, sender, channel, worker, taken, app, paused, recorded, clock, changes, history>>

OpenFails ==
    /\ window = "creating"
    /\ window' = "done" /\ reply' = "failed"
    /\ UNCHANGED <<system, sender, channel, worker, taken, app, paused, recorded, clock, changes, history>>

\* should_suppress_clipboard_event
Suppressed == until > 0 /\ clock <= until

\* notify_clipboard_changed
MutDispatch ==
    /\ window \in {"listening", "quitting"} /\ posted # <<>>
    /\ Head(posted) # Stop
    /\ posted' = Tail(posted)
    /\ UNCHANGED <<clip, began, sender, window, reply, worker, taken, app, paused, recorded, clock,
                   changes, overlap>>
    /\ \/ /\ Suppressed
          /\ UNCHANGED <<until, channel>>
          /\ Missed("suppressed")
       \/ /\ ~Suppressed /\ sender
          /\ until' = 0
          /\ channel' = IF worker = "receiving" THEN channel + 1 ELSE channel
          /\ UNCHANGED missed
       \/ /\ ~Suppressed /\ ~sender
          /\ until' = 0
          /\ UNCHANGED channel
          /\ Missed("stopping")

Dispatch ==
    /\ window \in {"listening", "quitting"} /\ posted # <<>>
    /\ Head(posted) # Stop
    /\ posted' = Tail(posted)
    /\ UNCHANGED <<clip, began, sender, window, reply, worker, taken, app, paused, recorded, clock,
                   changes, overlap>>
    /\ \/ /\ Suppressed
          /\ UNCHANGED <<until, channel>>
          /\ Missed("suppressed")
       \/ /\ ~Suppressed /\ sender
          /\ until' = 0
          /\ channel' = channel + 1
          /\ UNCHANGED missed
       \/ /\ ~Suppressed /\ ~sender
          /\ until' = 0
          /\ UNCHANGED channel
          /\ Missed("stopping")

\* window_proc on WM_CLIPLY_STOP: no more changes are heard.
BeginQuit ==
    /\ Registered /\ posted # <<>>
    /\ Head(posted) = Stop
    /\ posted' = Tail(posted)
    /\ window' = "quitting"
    /\ UNCHANGED <<clip, until, began, sender, channel, reply, worker, taken, app, paused, recorded, clock,
                   changes, history>>

\* GetMessageW returns the WM_QUIT after all posted messages.
Quit ==
    /\ window = "quitting" /\ posted = <<>>
    /\ window' = "done"
    /\ UNCHANGED <<system, sender, channel, reply, worker, taken, app, paused, recorded, clock, changes, history>>

-----------------------------------------------------------------------------
(* The worker thread *)

MutReceive ==
    /\ worker = "receiving" /\ sender
    /\ channel' = channel - 1
    /\ worker' = "settling"
    /\ UNCHANGED <<system, sender, window, reply, taken, app, paused, recorded, clock, changes, history>>

Receive ==
    /\ worker = "receiving" /\ channel > 0
    /\ channel' = channel - 1
    /\ worker' = "settling"
    /\ UNCHANGED <<system, sender, window, reply, taken, app, paused, recorded, clock, changes, history>>

\* recv fails once the sender is dropped and the channel is empty.
EndWorker ==
    /\ worker = "receiving" /\ channel = 0 /\ ~sender
    /\ worker' = "done"
    /\ UNCHANGED <<system, sender, channel, window, reply, taken, app, paused, recorded, clock, changes, history>>

\* After 50 ms, drain_pending_clipboard_events; what is read comes after it.
Drain ==
    /\ worker = "settling"
    /\ channel' = 0
    /\ worker' = "reading"
    /\ UNCHANGED <<system, sender, window, reply, taken, app, paused, recorded, clock, changes, history>>

\* read_current_clipboard
Read ==
    /\ worker = "reading" /\ ~paused
    /\ worker' = "storing"
    /\ taken' = clip
    /\ UNCHANGED <<system, sender, channel, window, reply, app, paused, recorded, clock, changes, history>>

\* Monitoring is paused.
Skip ==
    /\ worker = "reading" /\ paused
    /\ worker' = "receiving"
    /\ UNCHANGED <<system, sender, channel, window, reply, taken, app, paused, recorded, clock, changes, overlap>>
    /\ Missed("paused")

\* The clipboard cannot be opened.  The text that is_transient_clipboard_error
\* looks for is not that of the error, so nothing is tried again.
ReadFails ==
    /\ worker = "reading" /\ ~paused
    /\ worker' = "receiving"
    /\ UNCHANGED <<system, sender, channel, window, reply, taken, app, paused, recorded, clock, changes, overlap>>
    /\ Missed("unreadable")

\* ingest_clipboard_snapshot
Ingest ==
    /\ worker = "storing"
    /\ worker' = "receiving"
    /\ taken' = "none"
    /\ recorded' = recorded \cup ({taken} \ {"none"})
    /\ UNCHANGED <<system, sender, channel, window, reply, app, paused, clock, changes, history>>

\* It fails, or returns Ok(None): blank text, or an image while save_images is off.
RecordNothing ==
    /\ worker = "storing"
    /\ worker' = "receiving"
    /\ taken' = "none"
    /\ UNCHANGED <<system, sender, channel, window, reply, app, paused, recorded, clock, changes, overlap>>
    /\ \E reason \in {"failed", "ignored"} : Missed(reason)

-----------------------------------------------------------------------------
(* Starting and stopping *)

Start ==
    /\ app = "new"
    /\ app' = "starting"
    /\ sender' = TRUE
    /\ worker' = "receiving"
    /\ window' = "creating"
    /\ UNCHANGED <<system, channel, reply, taken, paused, recorded, clock, changes, history>>

StartOk ==
    /\ app = "starting" /\ reply = "ready"
    /\ app' = "started"
    /\ UNCHANGED <<system, sender, channel, window, reply, worker, taken, paused, recorded, clock, changes, history>>

\* The window could not be made, or said nothing for 3 seconds.
MutGiveUp ==
    /\ app = "starting" /\ reply # "ready"
    /\ app' = "giving up"
    /\ UNCHANGED <<system, sender, channel, window, reply, worker, taken, paused, recorded, clock, changes, history>>

GiveUp ==
    /\ app = "starting" /\ reply # "ready"
    /\ app' = "giving up"
    /\ sender' = FALSE
    /\ UNCHANGED <<system, channel, window, reply, worker, taken, paused, recorded, clock, changes, history>>

GivenUp ==
    /\ app = "giving up" /\ worker = "done" /\ window = "done"
    /\ app' = "failed"
    /\ UNCHANGED <<system, sender, channel, window, reply, worker, taken, paused, recorded, clock, changes, history>>

\* stop_listener posts the message, drops the sender and joins both threads.
PostStop ==
    /\ app = "started"
    /\ app' = "posted"
    /\ posted' = Append(posted, Stop)
    /\ UNCHANGED <<clip, until, began, sender, channel, window, reply, worker, taken, paused, recorded, clock,
                   changes, history>>

MutDropSender ==
    /\ app = "posted"
    /\ app' = "joining"
    /\ UNCHANGED <<system, sender, channel, window, reply, worker, taken, paused, recorded, clock, changes, history>>

DropSender ==
    /\ app = "posted"
    /\ app' = "joining"
    /\ sender' = FALSE
    /\ UNCHANGED <<system, channel, window, reply, worker, taken, paused, recorded, clock, changes, history>>

Stopped ==
    /\ app = "joining" /\ worker = "done" /\ window = "done"
    /\ app' = "stopped"
    /\ UNCHANGED <<system, sender, channel, window, reply, worker, taken, paused, recorded, clock, changes, history>>

-----------------------------------------------------------------------------

Clipboard == UserCopy \/ BeginWrite \/ Land \/ WriteFails \/ TogglePaused \/ Tick
WindowThread == Open \/ OpenFails \/ Dispatch \/ BeginQuit \/ Quit
WorkerThread == Receive \/ EndWorker \/ Drain \/ Read \/ Skip \/ ReadFails \/ Ingest \/ RecordNothing
Starting == StartOk \/ GiveUp \/ GivenUp
Stopping == DropSender \/ Stopped

Next == Clipboard \/ WindowThread \/ WorkerThread \/ Start \/ Starting \/ PostStop \/ Stopping

Spec == Init /\ [][Next]_vars

\* Every thread that can take a step takes one; creating a window ends.
FairSpec ==
    /\ Spec
    /\ WF_vars(WindowThread) /\ WF_vars(WorkerThread)
    /\ WF_vars(Starting) /\ WF_vars(Stopping)

-----------------------------------------------------------------------------
(* Properties *)

\* What another program left on the clipboard is recorded, once everything was
\* heard and handled, unless the last change before that fell into the window of
\* an own write, monitoring was paused, the clipboard could not be read, or what
\* was on it is nothing that the settings let the history keep or failed to be kept.
NoCopyMissed ==
    app = "started" /\ ~Pending /\ worker # "storing" /\ clip \in Copies /\ missed = "no" =>
        clip \in recorded

\* What the program writes itself is not recorded, as long as its write lands in
\* time, unless an earlier change was still being handled.
OwnWriteHidden == "own" \in recorded => overlap

\* stop_listener returns.
StopReturns == app = "posted" ~> app = "stopped"

\* start_listener returns, unless the window appears after it gave up: it then
\* joins a thread that nobody tells to stop.
StartReturns ==
    app = "starting" ~> \/ app \in {"started", "failed"}
                        \/ app = "giving up" /\ Registered

=============================================================================
