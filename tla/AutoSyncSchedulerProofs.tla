----------------------- MODULE AutoSyncSchedulerProofs -----------------------
(***************************************************************************)
(* Stopping the auto-sync thread and backing off after failures, without a *)
(* bound on the time.                                                      *)
(***************************************************************************)
EXTENDS AutoSyncScheduler, TLAPS

\* A stop has cleared the flag before it notifies, and a thread that the
\* notification could miss finds the flag cleared.
StopInv ==
    /\ running \in BOOLEAN
    /\ running <=> main = "up"
    /\ NoLostWakeup

LEMMA StopInvHolds == Spec => []StopInv
<1>1. Init => StopInv
  BY DEF Init, StopInv, NoLostWakeup
<1>2. ASSUME StopInv, [Next]_vars PROVE StopInv'
  <2> USE <1>2 DEF StopInv, NoLostWakeup
  <2>1. CASE EnterWait
    BY <2>1 DEF EnterWait
  <2>2. CASE Woken
    BY <2>2 DEF Woken
  <2>3. CASE Elapsed
    BY <2>3 DEF Elapsed
  <2>4. CASE Check
    BY <2>4 DEF Check
  <2>5. CASE RunCycle
    BY <2>5 DEF RunCycle, NotDue, Disabled, Attempt, Succeed, FailAttempt
  <2>6. CASE Stop
    BY <2>6 DEF Stop
  <2>7. CASE Notify
    BY <2>7 DEF Notify
  <2>8. CASE Join
    BY <2>8 DEF Join
  <2>9. CASE Tick
    BY <2>9 DEF Tick
  <2>10. CASE UNCHANGED vars
    BY <2>10 DEF vars
  <2>11. CASE SaveInterval
    BY <2>11 DEF SaveInterval
  <2>12. QED
    BY <2>1, <2>2, <2>3, <2>4, <2>5, <2>6, <2>7, <2>8, <2>9, <2>10, <2>11 DEF Next, Worker, Main
<1>3. QED
  BY <1>1, <1>2, PTL DEF Spec

\* A stop never leaves the thread waiting without a notification.
THEOREM WakeupNotLost == Spec => []NoLostWakeup
<1>1. StopInv => NoLostWakeup
  BY DEF StopInv
<1>2. QED
  BY <1>1, StopInvHolds, PTL

\* Once the flag is cleared the thread begins no further sync cycle.
THEOREM NoCycleAfterStop == Spec => NoNewCycle
<1>1. ASSUME [Next]_vars PROVE [~running /\ ~Admitted => ~Admitted']_vars
  <2> USE DEF Admitted
  <2>1. CASE EnterWait \/ Woken \/ Elapsed \/ Check
    BY <2>1 DEF EnterWait, Woken, Elapsed, Check
  <2>2. CASE RunCycle
    BY <2>2 DEF RunCycle, NotDue, Disabled, Attempt, Succeed, FailAttempt
  <2>3. CASE Stop \/ Notify \/ Join \/ SaveInterval \/ Tick
    BY <2>3 DEF Stop, Notify, Join, SaveInterval, Tick
  <2>4. CASE UNCHANGED vars
    BY <2>4 DEF vars
  <2>5. QED
    BY <1>1, <2>1, <2>2, <2>3, <2>4 DEF Next, Worker, Main
<1>2. QED
  BY <1>1, PTL DEF Spec, NoNewCycle

-----------------------------------------------------------------------------
(* The back-off *)

\* After n failures in a row the thread waits the minutes that the comment says.
LEMMA Doubles ==
    ASSUME NEW n \in 1..MaxCounted
    PROVE  NextInterval(n) = Doubled(n) /\ Doubled(n) \in Nat /\ Doubled(n) >= 2
<1> USE DEF NextInterval, Doubled, Smaller
<1>1. 2^1 = 2 /\ 2^2 = 4 /\ 2^3 = 8 /\ 2^4 = 16 /\ 2^5 = 32 /\ 2^6 = 64
  OBVIOUS
<1>2. CASE n = 1
  BY <1>1, <1>2
<1>3. CASE n = 2
  BY <1>1, <1>3
<1>4. CASE n = 3
  BY <1>1, <1>4
<1>5. CASE n = 4
  BY <1>1, <1>5
<1>6. CASE n = 5
  BY <1>1, <1>6
<1>7. CASE n = 6
  BY <1>1, <1>7
<1>8. QED
  BY <1>2, <1>3, <1>4, <1>5, <1>6, <1>7 DEF MaxCounted

LEMMA CountedType ==
    ASSUME NEW n \in 0..MaxCounted
    PROVE  Counted(n) \in 1..MaxCounted
  BY DEF Counted, Smaller, MaxCounted

\* Until a turn finds no sync due the failures are counted as they come, and a
\* wait that follows one lasts at least what its count asks for.
BackoffInv ==
    /\ clock \in Nat /\ lastAttempt \in Nat /\ deadline \in Nat /\ lastAttempt <= clock
    /\ streak \in 0..MaxCounted /\ failures \in 0..MaxCounted
    /\ ~looked => failures = streak
    /\ streak > 0 /\ ~looked =>
          /\ worker # "start"
          /\ worker = "waiting" => deadline >= lastAttempt + Doubled(streak)
          /\ worker \in {"check", "cycle"} => clock >= lastAttempt + Doubled(streak)

LEMMA BackoffInvHolds == Spec => []BackoffInv
<1>1. Init => BackoffInv
  BY DEF Init, BackoffInv, MaxCounted
<1>2. ASSUME BackoffInv, [Next]_vars PROVE BackoffInv'
  <2> USE <1>2 DEF BackoffInv
  <2>1. streak > 0 /\ ~looked => /\ NextInterval(failures) = Doubled(streak)
                                 /\ Doubled(streak) \in Nat
    BY Doubles
  <2>2. CASE EnterWait
    <3>1. Delay \in Nat
      <4>1. CASE failures = 0
        BY <4>1 DEF Delay, NextInterval
      <4>2. CASE failures > 0
        <5>1. NextInterval(failures) \in Nat
          BY <4>2, Doubles
        <5>2. QED
          BY <5>1 DEF Delay
      <4>3. QED
        BY <4>1, <4>2
    <3>2. streak > 0 /\ ~looked => Delay = Doubled(streak)
      BY <2>1, <2>2 DEF EnterWait, Delay
    <3>3. QED
      BY <2>1, <2>2, <3>1, <3>2 DEF EnterWait, history
  <2>3. CASE Woken \/ Check
    BY <2>1, <2>3 DEF Woken, Check, history
  <2>4. CASE Elapsed
    BY <2>1, <2>4 DEF Elapsed, history
  <2>5. CASE NotDue
    <3>1. ~looked' => ~looked /\ ~(streak > 0)
      BY <2>5, Zenon DEF NotDue
    <3>2. QED
      BY <2>5, <3>1 DEF NotDue, MaxCounted
  <2>6. CASE Disabled \/ Succeed
    BY <2>6 DEF Disabled, Succeed, MaxCounted
  <2>7. CASE Attempt
    BY <2>7 DEF Attempt, history
  <2>8. CASE FailAttempt
    <3>1. /\ failures' = Counted(failures) /\ streak' = Counted(streak)
          /\ worker' = "sleep" /\ worker = "attempt"
          /\ UNCHANGED <<clock, lastAttempt, deadline, looked>>
      BY <2>8 DEF FailAttempt
    <3>2. failures' \in 0..MaxCounted /\ streak' \in 0..MaxCounted
      BY <3>1, CountedType DEF MaxCounted
    <3>3. ~looked' => failures' = streak'
      BY <3>1
    <3>4. QED
      BY <3>1, <3>2, <3>3
  <2>9. CASE Stop \/ Notify \/ Join \/ SaveInterval
    BY <2>9 DEF Stop, Notify, Join, SaveInterval, history
  <2>10. CASE Tick
    BY <2>1, <2>10 DEF Tick, history
  <2>11. CASE UNCHANGED vars
    BY <2>11 DEF vars, history
  <2>12. QED
    BY <2>2, <2>3, <2>4, <2>5, <2>6, <2>7, <2>8, <2>9, <2>10, <2>11 DEF Next, Worker, Main, RunCycle
<1>3. QED
  BY <1>1, <1>2, PTL DEF Spec

\* Failures in a row double the time between the attempts, up to half an hour
\* (next_interval, MAX_BACKOFF), until a turn of the loop finds that no sync is
\* due, whatever intervals the user chooses.
THEOREM BackoffAddsUp == Spec => BackoffWhileDue
<1>1. ASSUME BackoffInv
      PROVE  [worker = "cycle" /\ worker' = "attempt" /\ streak > 0 /\ ~looked => BackedOff]_vars
  <2>1. SUFFICES ASSUME worker = "cycle", streak > 0, ~looked
                 PROVE  BackedOff
    OBVIOUS
  <2>2. Doubled(streak) \in Nat
    BY <1>1, <2>1, Doubles DEF BackoffInv
  <2>3. QED
    BY <1>1, <2>1, <2>2 DEF BackoffInv, BackedOff
<1>2. QED
  BY <1>1, BackoffInvHolds, PTL DEF BackoffWhileDue

=============================================================================
