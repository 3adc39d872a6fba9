--------------------------- MODULE PeriodicSchedule ---------------------------
(***************************************************************************)
(* What the periodic jobs promise, without queues, tasks and rows: a due   *)
(* job is released, which sets its next run a period ahead, and each       *)
(* release is followed by at most one run.                                 *)
(***************************************************************************)
EXTENDS Integers

CONSTANTS
    Jobs,
    Periods    \* how far ahead a release may put the next one

VARIABLES
    clock,
    next,     \* when a job is to be released next
    active,   \* the jobs that exist and are enabled
    owed      \* releases of a job that no run has answered yet

vars == <<clock, next, active, owed>>

Init ==
    /\ clock = 0
    /\ next = [j \in Jobs |-> 0]
    /\ active = {}
    /\ owed = [j \in Jobs |-> 0]

Advance == clock' = clock + 1 /\ UNCHANGED <<next, active, owed>>

\* A client creates, changes or deletes a job
Configure(j) ==
    /\ next' \in [Jobs -> Int]
    /\ \A k \in Jobs \ {j} : next'[k] = next[k]
    /\ active' \in {active \cup {j}, active \ {j}}
    /\ UNCHANGED <<clock, owed>>

Release(S) ==
    /\ S # {}
    /\ S \subseteq {j \in active : next[j] <= clock}
    /\ \E d \in [S -> Periods] :
          next' = [j \in Jobs |-> IF j \in S THEN clock + d[j] ELSE next[j]]
    /\ owed' = [j \in Jobs |-> IF j \in S THEN owed[j] + 1 ELSE owed[j]]
    /\ UNCHANGED <<clock, active>>

\* The run of a release begins, or turns out to be skipped
Run(j) ==
    /\ owed[j] > 0
    /\ owed' = [owed EXCEPT ![j] = @ - 1]
    /\ UNCHANGED <<clock, next, active>>

\* The worker dies with releases in its hands
Lose ==
    /\ owed' \in [Jobs -> Nat]
    /\ \A j \in Jobs : owed'[j] \in {owed[j], owed[j] - 1}
    /\ UNCHANGED <<clock, next, active>>

Next ==
    \/ Advance
    \/ \E j \in Jobs : Configure(j) \/ Run(j)
    \/ \E S \in SUBSET Jobs : Release(S)
    \/ Lose

Spec == Init /\ [][Next]_vars
=============================================================================
