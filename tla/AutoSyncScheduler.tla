-------------------------- MODULE AutoSyncScheduler --------------------------
(***************************************************************************)
(* The auto-sync thread: SchedulerSignal (a flag under a mutex and a       *)
(* condition variable), the loop of start_auto_sync_scheduler, and the     *)
(* Drop that stops and joins it when the program ends.                     *)
(*                                                                         *)
(* A critical section of the mutex is one step; waiting on the condition   *)
(* variable gives the mutex up in the step that starts to wait.  The unit  *)
(* of time is the minute.                                                  *)
(***************************************************************************)
EXTENDS Naturals

CONSTANTS
    Intervals,   \* the minutes between automatic syncs that the user may choose
    MaxClock     \* bound on the clock

ASSUME SchedulerAssumption == Intervals \subseteq Nat \ {0} /\ MaxClock \in Nat

VARIABLES
    running,      \* SchedulerSignal.running
    notified,     \* the thread was notified since it began to wait
    worker,       \* program counter of the auto-sync thread
    deadline,     \* when its current wait times out
    failures,     \* consecutive_failures
    main,         \* program counter of the thread that drops the scheduler
    clock,
    lastAttempt,  \* sync_state last_auto_attempt_at; 0: none
    interval,     \* sync_state remote_sync_auto_interval_minutes
    streak,       \* history: attempts that failed since the last that did not
    looked        \* history: since the first of them a turn found no sync due

history == <<streak, looked>>
vars == <<running, notified, worker, deadline, failures, main, clock, lastAttempt, interval, history>>

\* Beyond 5 failures next_interval does not change: they are counted up to 6.
MaxCounted == 6

TypeOK ==
    /\ running \in BOOLEAN
    /\ notified \in BOOLEAN
    /\ worker \in {"start", "waiting", "check", "cycle", "attempt", "sleep", "done"}
    /\ deadline \in Nat
    /\ failures \in 0..MaxCounted
    /\ main \in {"up", "notify", "join", "down"}
    /\ clock \in 1..(MaxClock + 1)
    /\ lastAttempt \in 0..clock
    /\ interval \in Intervals
    /\ streak \in 0..MaxCounted
    /\ looked \in BOOLEAN

Init ==
    /\ running = TRUE
    /\ notified = FALSE
    /\ worker = "start"
    /\ deadline = 0
    /\ failures = 0
    /\ main = "up"
    /\ clock = 1
    /\ lastAttempt = 0
    /\ interval \in Intervals
    /\ streak = 0
    /\ looked = FALSE

Smaller(a, b) == IF a < b THEN a ELSE b
Counted(n) == Smaller(n + 1, MaxCounted)

\* next_interval: 1 minute, doubled by every failure, at most 30.
MutNextInterval(n) == IF n = 0 THEN 1 ELSE 2

NextInterval(n) == IF n = 0 THEN 1 ELSE Smaller(2 ^ Smaller(n, 5), 30)

\* The initial delay of 20 seconds is the first tick.
Delay == IF worker = "start" THEN 1 ELSE NextInterval(failures)

-----------------------------------------------------------------------------
(* The auto-sync thread *)

\* wait_timeout locks the mutex, looks at the flag and begins to wait.
MutEnterWait ==
    /\ worker \in {"start", "sleep"}
    /\ worker' = "waiting"
    /\ deadline' = clock + Delay
    /\ notified' = FALSE
    /\ UNCHANGED <<running, failures, main, clock, lastAttempt, history, interval>>

EnterWait ==
    /\ worker \in {"start", "sleep"}
    /\ worker' = IF running THEN "waiting" ELSE "done"
    /\ deadline' = clock + Delay
    /\ notified' = FALSE
    /\ UNCHANGED <<running, failures, main, clock, lastAttempt, history, interval>>

\* wait_timeout_while, woken by a notification, looks at the flag again.
Woken ==
    /\ worker = "waiting" /\ notified
    /\ notified' = FALSE
    /\ worker' = IF running THEN "waiting" ELSE "done"
    /\ UNCHANGED <<running, deadline, failures, main, clock, lastAttempt, history, interval>>

\* The wait times out.
Elapsed ==
    /\ worker = "waiting" /\ clock >= deadline
    /\ worker' = IF running THEN "check" ELSE "done"
    /\ UNCHANGED <<running, notified, deadline, failures, main, clock, lastAttempt, history, interval>>

\* while is_running()
MutCheck ==
    /\ worker = "check"
    /\ worker' = "cycle"
    /\ UNCHANGED <<running, notified, deadline, failures, main, clock, lastAttempt, history, interval>>

Check ==
    /\ worker = "check"
    /\ worker' = IF running THEN "cycle" ELSE "done"
    /\ UNCHANGED <<running, notified, deadline, failures, main, clock, lastAttempt, history, interval>>

\* auto_sync_is_due
Due == lastAttempt = 0 \/ clock - lastAttempt >= interval

\* run_auto_sync_cycle returns Ok(None), which the loop takes for a success:
\* the sync is not due yet,
NotDue ==
    /\ worker = "cycle" /\ ~Due
    /\ worker' = "sleep"
    /\ failures' = 0
    /\ looked' = (looked \/ streak > 0)
    /\ UNCHANGED <<running, notified, deadline, main, clock, lastAttempt, streak, interval>>

\* or automatic sync is off, has no provider or no saved password.
Disabled ==
    /\ worker = "cycle"
    /\ worker' = "sleep"
    /\ failures' = 0
    /\ streak' = 0
    /\ looked' = FALSE
    /\ UNCHANGED <<running, notified, deadline, main, clock, lastAttempt, interval>>

\* It records the attempt and talks to the remote.
Attempt ==
    /\ worker = "cycle" /\ Due
    /\ worker' = "attempt"
    /\ lastAttempt' = clock
    /\ UNCHANGED <<running, notified, deadline, failures, main, clock, history, interval>>

Succeed ==
    /\ worker = "attempt"
    /\ worker' = "sleep"
    /\ failures' = 0
    /\ streak' = 0
    /\ looked' = FALSE
    /\ UNCHANGED <<running, notified, deadline, main, clock, lastAttempt, interval>>

FailAttempt ==
    /\ worker = "attempt"
    /\ worker' = "sleep"
    /\ failures' = Counted(failures)
    /\ streak' = Counted(streak)
    /\ UNCHANGED <<running, notified, deadline, main, clock, lastAttempt, looked, interval>>

-----------------------------------------------------------------------------
(* Dropping the scheduler *)

\* stop sets the flag under the mutex,
Stop ==
    /\ main = "up"
    /\ running' = FALSE
    /\ main' = "notify"
    /\ UNCHANGED <<notified, worker, deadline, failures, clock, lastAttempt, history, interval>>

\* and notifies whoever waits at that moment.
MutNotify ==
    /\ main = "notify"
    /\ main' = "join"
    /\ UNCHANGED <<running, notified, worker, deadline, failures, clock, lastAttempt, history, interval>>

Notify ==
    /\ main = "notify"
    /\ notified' = (worker = "waiting")
    /\ main' = "join"
    /\ UNCHANGED <<running, worker, deadline, failures, clock, lastAttempt, history, interval>>

Join ==
    /\ main = "join" /\ worker = "done"
    /\ main' = "down"
    /\ UNCHANGED <<running, notified, worker, deadline, failures, clock, lastAttempt, history, interval>>

-----------------------------------------------------------------------------
(* The user and the time *)

\* update_auto_sync_config, which the thread learns of at its next turn.
SaveInterval ==
    /\ interval' \in Intervals \ {interval}
    /\ UNCHANGED <<running, notified, worker, deadline, failures, main, clock, lastAttempt, history>>

\* A wait that has timed out is over before the minute is.
Tick ==
    /\ clock <= MaxClock
    /\ worker = "attempt" \/ (worker = "waiting" /\ clock < deadline)
    /\ clock' = clock + 1
    /\ UNCHANGED <<running, notified, worker, deadline, failures, main, lastAttempt, history, interval>>

-----------------------------------------------------------------------------

RunCycle == NotDue \/ Disabled \/ Attempt \/ Succeed \/ FailAttempt
Worker == EnterWait \/ Woken \/ Check \/ RunCycle
Main == Notify \/ Join

Next == Worker \/ Elapsed \/ Stop \/ Main \/ SaveInterval \/ Tick

Spec == Init /\ [][Next]_vars

\* The threads are scheduled, and the calls of a sync return (every provider
\* has time-outs).  Nothing is assumed of the timer, nor that the program is stopped.
FairSpec == Spec /\ WF_vars(Worker) /\ WF_vars(Main)

-----------------------------------------------------------------------------
(* Properties *)

\* The stop is never lost: once it has notified, a thread that is still waiting
\* has the notification before it, whatever the order of flag, wait and notify.
NoLostWakeup == main = "join" /\ worker = "waiting" => notified

\* Dropping the scheduler ends the thread and returns without waiting for the
\* timer (the test stop_interrupts_a_long_wait).
StopEnds == main = "notify" ~> main = "down"

\* After the flag was cleared at most the cycle that was already admitted runs.
Admitted == worker \in {"cycle", "attempt"}
NoNewCycle == [][~running /\ ~Admitted => ~Admitted']_vars

\* Consecutive failures double the wait before the next attempt, up to 30
\* minutes (the comment at MAX_BACKOFF).
Doubled(n) == LET minutes == 2 ^ n IN IF minutes < 30 THEN minutes ELSE 30
BackedOff == clock - lastAttempt >= Doubled(streak)
BackoffHolds ==
    [][worker = "cycle" /\ worker' = "attempt" /\ streak > 0 => BackedOff]_vars

\* What the code keeps of it, whatever interval the user chooses and changes:
\* failures in a row add up until one turn of the loop finds the sync not due.
BackoffWhileDue ==
    [][worker = "cycle" /\ worker' = "attempt" /\ streak > 0 /\ ~looked => BackedOff]_vars

=============================================================================
