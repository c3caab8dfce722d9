---------------------------- MODULE ChangeLedger ----------------------------
(***************************************************************************)
(* What a device's sync queue promises, without timestamps, queues or      *)
(* statuses: a local change is acknowledged (no longer waiting to be       *)
(* synced) only when a snapshot that holds it has reached the remote.      *)
(* SyncQueue implements this module.                                       *)
(***************************************************************************)
EXTENDS Naturals

CONSTANTS Items

VARIABLES
    latest,    \* latest[i]: number of changes made to item i on this device
    acked,     \* acked[i]: item i is not waiting to be synced
    safe       \* safe[i]: the newest change of i that a remote snapshot holds

ledgerVars == <<latest, acked, safe>>

Init ==
    /\ latest = [i \in Items |-> 0]
    /\ acked = [i \in Items |-> FALSE]
    /\ safe = [i \in Items |-> 0]

\* Changes put their items back on the queue.
Change(S) ==
    /\ S # {}
    /\ latest' = [i \in Items |-> IF i \in S THEN latest[i] + 1 ELSE latest[i]]
    /\ acked' = [i \in Items |-> IF i \in S THEN FALSE ELSE acked[i]]
    /\ UNCHANGED safe

\* A snapshot reaches the remote. It never takes back what is already there.
Publish ==
    /\ safe' \in [Items -> Nat]
    /\ \A i \in Items : safe'[i] >= safe[i]
    /\ UNCHANGED <<latest, acked>>

\* The items of S leave the queue: the remote holds their latest change.
Acknowledge(S) ==
    /\ \A i \in S : safe[i] >= latest[i]
    /\ acked' = [i \in Items |-> acked[i] \/ i \in S]
    /\ UNCHANGED <<latest, safe>>

\* The device may stop vouching for items (it does not know better).
Doubt(S) ==
    /\ acked' = [i \in Items |-> acked[i] /\ i \notin S]
    /\ UNCHANGED <<latest, safe>>

Next ==
    \/ \E S \in SUBSET Items : Change(S) \/ Doubt(S)
    \/ Publish
    \/ \E S \in SUBSET Items : Acknowledge(S)

Spec == Init /\ [][Next]_ledgerVars

=============================================================================
