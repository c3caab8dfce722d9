----------------------- MODULE ClipboardListenerProofs -----------------------
(***************************************************************************)
(* The silence around own writes, for every length of the window, of a     *)
(* write and of the lag that fit each other, and without a bound on the    *)
(* changes and the clock.                                                  *)
(***************************************************************************)
EXTENDS ClipboardListener, TLAPS

\* The part of TypeOK that the other proofs need.
Numbers ==
    /\ posted \in Seq(Nat)
    /\ until \in Nat
    /\ began \in Nat
    /\ channel \in Nat
    /\ clock \in Nat \ {0}
    /\ changes \in Nat

LEMMA NumbersHold == Spec => []Numbers
<1>1. Init => Numbers
  BY DEF Init, Numbers
<1>2. ASSUME Numbers, [Next]_vars PROVE Numbers'
  <2> USE <1>2, ListenerAssumption DEF Numbers
  <2>1. CASE UserCopy
    BY <2>1 DEF UserCopy, Change, threads
  <2>2. CASE BeginWrite
    BY <2>2 DEF BeginWrite, threads, history
  <2>3. CASE Land
    BY <2>3 DEF Land, Change, threads
  <2>4. CASE WriteFails \/ TogglePaused \/ Tick
    BY <2>4 DEF WriteFails, TogglePaused, Tick, system, threads, history
  <2>5. CASE Open \/ OpenFails \/ Quit
    BY <2>5 DEF Open, OpenFails, Quit, system, history
  <2>6. CASE Dispatch
    BY <2>6 DEF Dispatch
  <2>7. CASE BeginQuit
    BY <2>7 DEF BeginQuit, history
  <2>8. CASE Receive \/ EndWorker \/ Drain
    BY <2>8 DEF Receive, EndWorker, Drain, system, history
  <2>9. CASE Read \/ Skip \/ ReadFails
    BY <2>9 DEF Read, Skip, ReadFails, system
  <2>10. CASE Ingest \/ RecordNothing
    BY <2>10 DEF Ingest, RecordNothing, system
  <2>11. CASE Start \/ Starting \/ Stopping
    BY <2>11 DEF Start, Starting, StartOk, GiveUp, GivenUp, Stopping, DropSender, Stopped, system, history
  <2>12. CASE PostStop
    BY <2>12 DEF PostStop, Stop, history
  <2>13. CASE UNCHANGED vars
    BY <2>13 DEF vars, system, threads, history
  <2>14. QED
    BY <2>1, <2>2, <2>3, <2>4, <2>5, <2>6, <2>7, <2>8, <2>9, <2>10, <2>11, <2>12, <2>13
    DEF Next, Clipboard, WindowThread, WorkerThread
<1>3. QED
  BY <1>1, <1>2, PTL DEF Spec

-----------------------------------------------------------------------------
(* Types *)

LEMMA AppendLemma ==
    ASSUME NEW s \in Seq(Nat), NEW x \in Nat
    PROVE  /\ DOMAIN Append(s, x) = DOMAIN s \cup {Len(s) + 1}
           /\ \A i \in DOMAIN s : Append(s, x)[i] = s[i]
           /\ Append(s, x)[Len(s) + 1] = x
  OBVIOUS

LEMMA TailLemma ==
    ASSUME NEW s \in Seq(Nat), s # <<>>
    PROVE  \A i \in DOMAIN Tail(s) : i + 1 \in DOMAIN s /\ Tail(s)[i] = s[i + 1]
  OBVIOUS

\* The other parts: what is copied, where the threads are, and the flags.
Contents ==
    /\ clip \in Copies \cup {"none", "own"}
    /\ taken \in Copies \cup {"none", "own"}
    /\ recorded \subseteq Copies \cup {"own"}
States ==
    /\ window \in {"absent", "creating", "listening", "quitting", "done"}
    /\ reply \in {"none", "ready", "failed"}
    /\ worker \in {"absent", "receiving", "settling", "reading", "storing", "done"}
    /\ app \in {"new", "starting", "giving up", "failed", "started", "posted", "joining", "stopped"}
    /\ missed \in {"no", "unheard", "suppressed", "paused", "unreadable", "failed", "ignored", "stopping"}
Flags == sender \in BOOLEAN /\ paused \in BOOLEAN /\ overlap \in BOOLEAN

LEMMA ContentsStep == Contents /\ [Next]_vars => Contents'
<1> SUFFICES ASSUME Contents, [Next]_vars PROVE Contents'
  OBVIOUS
<1> USE DEF Contents
<1>1. CASE UserCopy \/ Land
  <2>1. clip' \in Copies \cup {"own"} /\ UNCHANGED <<taken, recorded>>
    BY <1>1 DEF UserCopy, Land, Change, threads
  <2>2. QED
    BY <2>1
<1>2. CASE Read
  BY <1>2 DEF Read, system
<1>3. CASE Ingest
  BY <1>3 DEF Ingest, system
<1>4. CASE RecordNothing
  BY <1>4 DEF RecordNothing, system
<1>5. ASSUME \/ BeginWrite \/ WriteFails \/ TogglePaused \/ Tick \/ WindowThread
             \/ Receive \/ EndWorker \/ Drain \/ Skip \/ ReadFails
             \/ Start \/ Starting \/ PostStop \/ Stopping \/ UNCHANGED vars
      PROVE  UNCHANGED <<clip, taken, recorded>>
  BY <1>5 DEF BeginWrite, WriteFails, TogglePaused, Tick, WindowThread, Open, OpenFails, Dispatch,
              BeginQuit, Quit, Receive, EndWorker, Drain, Skip, ReadFails, Start, Starting, StartOk,
              GiveUp, GivenUp, PostStop, Stopping, DropSender, Stopped, vars, system, threads
<1>6. QED
  BY <1>1, <1>2, <1>3, <1>4, <1>5 DEF Next, Clipboard, WorkerThread

LEMMA StatesStep == States /\ [Next]_vars => States'
<1> SUFFICES ASSUME States, [Next]_vars PROVE States'
  OBVIOUS
<1> USE DEF States
<1>1. CASE Clipboard
  BY <1>1 DEF Clipboard, UserCopy, BeginWrite, Land, WriteFails, TogglePaused, Tick, Change,
              threads, history
<1>2. CASE WindowThread
  BY <1>2 DEF WindowThread, Open, OpenFails, Dispatch, BeginQuit, Quit, Missed, history
<1>3. CASE WorkerThread
  BY <1>3 DEF WorkerThread, Receive, EndWorker, Drain, Read, Skip, ReadFails, Ingest, RecordNothing,
              Missed, history
<1>4. CASE Start \/ Starting \/ PostStop \/ Stopping
  BY <1>4 DEF Start, Starting, StartOk, GiveUp, GivenUp, PostStop, Stopping, DropSender, Stopped,
              history
<1>5. CASE UNCHANGED vars
  BY <1>5 DEF vars, threads, history
<1>6. QED
  BY <1>1, <1>2, <1>3, <1>4, <1>5 DEF Next

LEMMA FlagsStep == Flags /\ [Next]_vars => Flags'
<1> SUFFICES ASSUME Flags, [Next]_vars PROVE Flags'
  OBVIOUS
<1>1. sender' = sender \/ sender' = TRUE \/ sender' = FALSE
  BY DEF Next, Clipboard, UserCopy, BeginWrite, Land, WriteFails, TogglePaused, Tick,
         WindowThread, Open, OpenFails, Dispatch, BeginQuit, Quit, WorkerThread, Receive,
         EndWorker, Drain, Read, Skip, ReadFails, Ingest, RecordNothing, Start, Starting, StartOk,
         GiveUp, GivenUp, PostStop, Stopping, DropSender, Stopped, vars, threads
<1>2. paused' = paused \/ TogglePaused
  BY DEF Next, Clipboard, UserCopy, BeginWrite, Land, WriteFails, TogglePaused, Tick,
         WindowThread, Open, OpenFails, Dispatch, BeginQuit, Quit, WorkerThread, Receive,
         EndWorker, Drain, Read, Skip, ReadFails, Ingest, RecordNothing, Start, Starting, StartOk,
         GiveUp, GivenUp, PostStop, Stopping, DropSender, Stopped, vars
<1>3. overlap' = overlap \/ Land
  BY DEF Next, Clipboard, UserCopy, BeginWrite, Land, WriteFails, TogglePaused, Tick,
         WindowThread, Open, OpenFails, Dispatch, BeginQuit, Quit, WorkerThread, Receive,
         EndWorker, Drain, Read, Skip, ReadFails, Ingest, RecordNothing, Start, Starting, StartOk,
         GiveUp, GivenUp, PostStop, Stopping, DropSender, Stopped, vars, history
<1>4. TogglePaused => paused' \in BOOLEAN
  BY Zenon DEF TogglePaused
<1>5. Land => overlap' \in BOOLEAN
  BY Zenon DEF Land
<1>6. QED
  BY <1>1, <1>2, <1>3, <1>4, <1>5, Zenon DEF Flags

\* Every variable keeps its type, whatever the order of the threads' steps.
THEOREM TypeCorrect == Spec => []TypeOK
<1>1. Init => Contents /\ States
  BY DEF Init, Contents, States
<1>2. Init => Flags
  BY Zenon DEF Init, Flags
<1>3. Numbers /\ Contents /\ States /\ Flags => TypeOK
  <2>1. ASSUME Numbers
        PROVE  /\ posted \in Seq(Nat) /\ until \in Nat /\ began \in Nat
               /\ channel \in Nat /\ clock \in Nat /\ changes \in Nat
    BY <2>1 DEF Numbers
  <2>2. QED
    BY <2>1, Zenon DEF Contents, States, Flags, TypeOK
<1>4. QED
  BY <1>1, <1>2, <1>3, NumbersHold, ContentsStep, StatesStep, FlagsStep, PTL DEF Spec

-----------------------------------------------------------------------------
(* Own writes *)

\* A running write and a posted message are not older than they may be.
Punctual ==
    /\ clock > 0
    /\ began > 0 => until = began + Window /\ began <= clock /\ clock <= began + WriteTime
    /\ \A i \in DOMAIN posted : posted[i] # Stop => posted[i] <= clock /\ clock <= posted[i] + Lag

\* While an own write is on the clipboard, every message that is still to come
\* falls into the silence, and the worker has nothing of it.
Silent ==
    clip = "own" /\ ~overlap =>
        /\ channel = 0
        /\ worker \notin {"settling", "reading"}
        /\ \A i \in DOMAIN posted : posted[i] # Stop => posted[i] + Lag <= until

OwnTaken == worker = "storing" /\ taken = "own" => overlap

HiddenInv == Punctual /\ Silent /\ OwnTaken /\ OwnWriteHidden

LEMMA HiddenStep == Numbers /\ HiddenInv /\ [Next]_vars => HiddenInv'
<1> SUFFICES ASSUME Numbers, HiddenInv, [Next]_vars PROVE HiddenInv'
  OBVIOUS
<1> USE ListenerAssumption DEF HiddenInv
<1>1. CASE UserCopy
  <2>1. PICK c \in Copies : Change(c)
    BY <1>1 DEF UserCopy
  <2>2. Punctual'
    BY <1>1, <2>1, AppendLemma DEF UserCopy, Change, Punctual, Numbers, Stop
  <2>3. clip' # "own"
    BY <2>1 DEF Change
  <2>4. QED
    BY <1>1, <2>2, <2>3 DEF UserCopy, Silent, threads, OwnTaken, OwnWriteHidden
<1>2. CASE BeginWrite
  BY <1>2 DEF BeginWrite, threads, history, Punctual, Silent, OwnTaken, OwnWriteHidden, Numbers, Stop
<1>3. CASE Land
  <2>1. Punctual'
    BY <1>3, AppendLemma DEF Land, Change, Punctual, Numbers, Stop
  <2>2. \A i \in DOMAIN posted' : posted'[i] # Stop => posted'[i] + Lag <= until'
    <3>1. until' = began + Window /\ clock <= began + WriteTime
      BY <1>3 DEF Land, Punctual
    <3>2. \A i \in DOMAIN posted' : posted'[i] # Stop => posted'[i] \in Nat /\ posted'[i] <= clock
      BY <2>1, <1>3, AppendLemma DEF Punctual, Land, Change, Numbers
    <3>3. QED
      BY <3>1, <3>2 DEF Numbers
  <2>3. ~overlap' => ~(channel > 0) /\ worker \notin {"settling", "reading"}
    BY <1>3, Zenon DEF Land
  <2>4. channel' = channel /\ worker' = worker
    BY <1>3 DEF Land, threads
  <2>5. Silent'
    BY <2>2, <2>3, <2>4 DEF Silent, Numbers
  <2>6. QED
    BY <1>3, <2>1, <2>5 DEF Land, threads, OwnTaken, OwnWriteHidden
<1>4. CASE WriteFails
  BY <1>4 DEF WriteFails, threads, history, Punctual, Silent, OwnTaken, OwnWriteHidden
<1>5. CASE TogglePaused
  BY <1>5 DEF TogglePaused, system, threads, history, Punctual, Silent, OwnTaken, OwnWriteHidden
<1>6. CASE Tick
  BY <1>6 DEF Tick, system, threads, history, Punctual, Silent, OwnTaken, OwnWriteHidden, Numbers, Stop
<1>7. CASE Open \/ OpenFails \/ Quit
  BY <1>7 DEF Open, OpenFails, Quit, system, history, Punctual, Silent, OwnTaken, OwnWriteHidden
<1>8. CASE Dispatch
  <2>1. Punctual' /\ (Suppressed => UNCHANGED <<until, channel>>)
    <3>1. began > 0 => until' = until
      BY <1>8 DEF Dispatch, Suppressed, Punctual, Numbers
    <3>2. QED
      BY <1>8, <3>1, TailLemma DEF Dispatch, Punctual, Numbers
  <2>2. ASSUME clip = "own", ~overlap PROVE Suppressed
    BY <1>8, <2>2 DEF Dispatch, Silent, Suppressed, Punctual, Numbers, Stop
  <2>3. Silent'
    BY <1>8, <2>1, <2>2, TailLemma DEF Dispatch, Silent, Numbers
  <2>4. QED
    BY <1>8, <2>1, <2>3 DEF Dispatch, OwnTaken, OwnWriteHidden
<1>9. CASE BeginQuit
  BY <1>9, TailLemma DEF BeginQuit, history, Punctual, Silent, OwnTaken, OwnWriteHidden, Numbers
<1>10. CASE Receive \/ EndWorker \/ Drain
  <2>1. UNCHANGED <<clip, posted, until, began, clock, recorded, overlap>>
    BY <1>10 DEF Receive, EndWorker, Drain, system, history
  <2>2. clip = "own" /\ ~overlap => EndWorker
    BY <1>10 DEF Receive, Drain, Silent, Numbers
  <2>3. EndWorker => channel' = channel /\ worker' = "done"
    BY DEF EndWorker
  <2>4. Punctual' /\ Silent'
    BY <2>1, <2>2, <2>3 DEF Punctual, Silent
  <2>5. worker' # "storing"
    BY <1>10 DEF Receive, EndWorker, Drain
  <2>6. recorded' = recorded /\ overlap' = overlap
    BY <2>1
  <2>7. OwnTaken' /\ OwnWriteHidden'
    BY <2>5, <2>6, Zenon DEF OwnTaken, OwnWriteHidden
  <2>8. QED
    BY <2>4, <2>7
<1>11. CASE Read \/ Skip \/ ReadFails
  <2>1. UNCHANGED <<clip, posted, until, began, channel, recorded, clock, overlap>>
    BY <1>11 DEF Read, Skip, ReadFails, system, history
  <2>2. ~(clip = "own" /\ ~overlap) /\ worker' # "settling" /\ worker' # "reading"
    BY <1>11 DEF Read, Skip, ReadFails, Silent
  <2>3. OwnTaken'
    BY <1>11, <2>1, <2>2, Zenon DEF Read, Skip, ReadFails, OwnTaken
  <2>4. QED
    BY <2>1, <2>2, <2>3 DEF Punctual, Silent, OwnWriteHidden
<1>12. CASE Ingest \/ RecordNothing
  <2>1. UNCHANGED <<clip, posted, until, began, channel, clock, overlap>> /\ worker' = "receiving"
    BY <1>12 DEF Ingest, RecordNothing, system, history
  <2>2. OwnWriteHidden'
    BY <1>12, <2>1 DEF Ingest, RecordNothing, OwnTaken, OwnWriteHidden
  <2>3. QED
    BY <2>1, <2>2 DEF Punctual, Silent, OwnTaken
<1>13. CASE Start \/ Starting \/ Stopping
  BY <1>13 DEF Start, Starting, StartOk, GiveUp, GivenUp, Stopping, DropSender, Stopped, system,
                history, Punctual, Silent, OwnTaken, OwnWriteHidden
<1>14. CASE PostStop
  <2>1. /\ posted' = Append(posted, Stop)
        /\ UNCHANGED <<clip, until, began, channel, worker, taken, recorded, clock, overlap>>
    BY <1>14 DEF PostStop, history
  <2>2. \A i \in DOMAIN posted' : posted'[i] # Stop => i \in DOMAIN posted /\ posted'[i] = posted[i]
    BY <2>1, AppendLemma DEF Numbers, Stop
  <2>3. Punctual'
    <3>1. DOMAIN posted' = DOMAIN posted \cup {Len(posted) + 1}
      BY <2>1, AppendLemma DEF Numbers, Stop
    <3> QED BY <2>1, <2>2, <3>1 DEF Punctual, Stop
  <2>4. Silent' /\ OwnTaken' /\ OwnWriteHidden'
    BY <2>1, <2>2 DEF Silent, OwnTaken, OwnWriteHidden
  <2> QED BY <2>3, <2>4
<1>15. CASE UNCHANGED vars
  BY <1>15 DEF vars, system, threads, history, Punctual, Silent, OwnTaken, OwnWriteHidden
<1>16. QED
  BY <1>1, <1>2, <1>3, <1>4, <1>5, <1>6, <1>7, <1>8, <1>9, <1>10, <1>11, <1>12, <1>13, <1>14, <1>15
  DEF Next, Clipboard, WindowThread, WorkerThread

\* What the program writes is never recorded as a copy of the user's, provided
\* a write lands, and its message arrives, within the silence.
THEOREM OwnWritesHidden == Spec => []OwnWriteHidden
<1>1. Init => HiddenInv
  BY DEF Init, HiddenInv, Punctual, Silent, OwnTaken, OwnWriteHidden
<1>2. HiddenInv => OwnWriteHidden
  BY DEF HiddenInv
<1>3. QED
  BY <1>1, <1>2, NumbersHold, HiddenStep, PTL DEF Spec

-----------------------------------------------------------------------------
(* Copies of the user *)

\* Until start_listener fails or stop_listener begins, the worker's sender is
\* there, and a copy that was not read yet is still to be read.
HeardInv ==
    /\ app = "new" => window = "absent" /\ worker = "absent"
    /\ app \in {"starting", "started"} => sender
    /\ app \in {"new", "starting", "started"} /\ clip \in Copies /\ missed = "no" =>
           clip \in recorded \/ Pending \/ (worker = "storing" /\ taken = clip)

LEMMA HeardStep == Numbers /\ HeardInv /\ [Next]_vars => HeardInv'
<1> SUFFICES ASSUME Numbers, HeardInv, [Next]_vars PROVE HeardInv'
  OBVIOUS
<1> USE ListenerAssumption DEF HeardInv
<1>1. CASE UserCopy
  <2>1. PICK c \in Copies : Change(c)
    BY <1>1 DEF UserCopy
  <2>2. ASSUME missed' = "no" PROVE Pending'
    <3>1. posted' = Append(posted, clock)
      BY <2>1, <2>2 DEF Change
    <3>2. Len(posted) + 1 \in DOMAIN posted' /\ posted'[Len(posted) + 1] # Stop
      BY <3>1, AppendLemma DEF Numbers, Stop
    <3>3. QED
      BY <3>2 DEF Pending
  <2>3. QED
    BY <1>1, <2>2 DEF UserCopy, threads
<1>2. CASE Land
  BY <1>2 DEF Land, Change, threads
<1>3. CASE BeginWrite \/ WriteFails \/ TogglePaused \/ Tick
  BY <1>3 DEF BeginWrite, WriteFails, TogglePaused, Tick, system, threads, history, Pending
<1>4. CASE Open \/ OpenFails \/ Quit
  BY <1>4 DEF Open, OpenFails, Quit, system, history, Pending
<1>5. CASE Dispatch
  <2>1. channel' = channel + 1 => Pending'
    BY DEF Pending, Numbers
  <2>2. missed' = "no" => missed = "no" /\ Pending'
    BY <1>5, <2>1 DEF Dispatch, Missed
  <2>3. QED
    BY <1>5, <2>2 DEF Dispatch
<1>6. CASE BeginQuit
  <2>1. app # "new" /\ UNCHANGED <<clip, sender, channel, worker, taken, app, recorded, missed>>
    BY <1>6 DEF BeginQuit, history, Registered
  <2>2. ASSUME NEW i \in DOMAIN posted, posted[i] # Stop
        PROVE  \E j \in DOMAIN posted' : posted'[j] # Stop
    <3>1. posted' = Tail(posted) /\ posted # <<>> /\ i # 1
      BY <1>6, <2>2 DEF BeginQuit
    <3>2. i - 1 \in DOMAIN posted' /\ posted'[i - 1] = posted[i]
      BY <3>1 DEF Numbers
    <3>3. QED
      BY <2>2, <3>2
  <2>3. Pending => Pending'
    BY <2>1, <2>2 DEF Pending
  <2>4. QED
    BY <2>1, <2>3
<1>7. CASE Receive \/ EndWorker \/ Drain
  BY <1>7 DEF Receive, EndWorker, Drain, system, history, Pending, Numbers
<1>8. CASE Read \/ Skip \/ ReadFails
  BY <1>8 DEF Read, Skip, ReadFails, system, Missed, history
<1>9. CASE Ingest \/ RecordNothing
  <2>1. UNCHANGED <<clip, posted, channel, app, window, sender>> /\ worker = "storing" /\ worker' = "receiving"
    BY <1>9 DEF Ingest, RecordNothing, system
  <2>2. Pending => Pending'
    BY <2>1 DEF Pending
  <2>3. CASE Ingest
    BY <2>1, <2>2, <2>3 DEF Ingest, history
  <2>4. CASE RecordNothing
    BY <2>1, <2>2, <2>4 DEF RecordNothing, Missed
  <2>5. QED
    BY <1>9, <2>3, <2>4
<1>10. CASE Start \/ Starting \/ Stopping
  <2>1. UNCHANGED <<clip, posted, channel, recorded, missed>>
    BY <1>10 DEF Start, Starting, StartOk, GiveUp, GivenUp, Stopping, DropSender, Stopped, system, history
  <2>2. CASE Start
    <3>1. app' = "starting" /\ sender' = TRUE /\ app = "new"
      BY <2>2 DEF Start
    <3>2. worker \in {"settling", "reading"} => FALSE
      BY <3>1
    <3>3. Pending => Pending'
      BY <2>1, <3>2 DEF Pending
    <3>4. QED
      BY <2>1, <3>1, <3>3
  <2>3. CASE StartOk
    BY <2>1, <2>3 DEF StartOk, Pending
  <2>4. CASE GiveUp \/ GivenUp \/ DropSender \/ Stopped
    BY <2>4 DEF GiveUp, GivenUp, DropSender, Stopped
  <2>5. QED
    BY <1>10, <2>2, <2>3, <2>4 DEF Starting, Stopping
<1>11. CASE PostStop
  BY <1>11 DEF PostStop, history
<1>12. CASE UNCHANGED vars
  BY <1>12 DEF vars, system, threads, history, Pending
<1>13. QED
  BY <1>1, <1>2, <1>3, <1>4, <1>5, <1>6, <1>7, <1>8, <1>9, <1>10, <1>11, <1>12
  DEF Next, Clipboard, WindowThread, WorkerThread

\* While the listener runs, what another program left on the clipboard is
\* recorded once all is handled, unless one of the named reasons applies.
THEOREM CopiesNotMissed == Spec => []NoCopyMissed
<1>1. Init => HeardInv
  BY ListenerAssumption DEF Init, HeardInv
<1>2. HeardInv => NoCopyMissed
  BY DEF HeardInv, NoCopyMissed
<1>3. QED
  BY <1>1, <1>2, NumbersHold, HeardStep, PTL DEF Spec

=============================================================================
