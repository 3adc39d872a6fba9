------------------------------ MODULE NodePresence ------------------------------
(***************************************************************************)
(* When nodes fall silent: the keepalive check of the worker looks, once   *)
(* per interval, for nodes whose last packet has just become too old,      *)
(* records each of them in NodePresenceHistory and sends it a probe.       *)
(*                                                                         *)
(* The check is one transaction that holds the lock of the configuration   *)
(* row and, after each probe, that of the probed node.  Meanwhile the Paho *)
(* threads of the worker save the nodes they hear, and clients edit the    *)
(* configuration in requests that read the row and save all of it.         *)
(*                                                                         *)
(* Times are integers; last_seen is written some time after it was read    *)
(* from the clock, MaxLag at most.  The nodes are those in scope.  That a  *)
(* configuration is enabled and incomplete, or has another payload type,   *)
(* is excluded by full_clean.                                              *)
(***************************************************************************)
EXTENDS Integers, FiniteSets

CONSTANTS
    Nodes,       \* the nodes the configuration watches
    Readers,     \* interfaces, each with its Paho thread
    Via,         \* the interface the keepalive publishes on
    Clients,     \* requests that edit the configuration
    Nothing,     \* no node, no row
    Offlines,    \* values of offline_after_seconds
    Intervals,   \* values of check_interval_seconds
    MaxLag,      \* bound: how long the save of a node may be under way
    MaxTime,     \* bound: the clock
    MaxEdits,    \* bound: saves of the configuration
    MaxFailures  \* bound: checks that fail, and deaths of the worker

ASSUME NameAssumption == Via \in Readers /\ Nothing \notin Nodes
ASSUME ValueAssumption == Offlines \subseteq Nat /\ Intervals \subseteq Nat \ {0}
ASSUME LagAssumption == MaxLag \in Nat /\ \A o \in Offlines : MaxLag < o

VARIABLES
    now,     \* the clock
    seen,    \* last_seen of each node
    cfg,     \* row of KeepaliveConfig
    events,  \* rows of NodePresenceHistory; edition counts the saves before it
    check,   \* the check in progress
    locked,  \* nodes the transaction of the check has updated
    acked,   \* the broker has acknowledged the probe in progress
    reader,  \* what each Paho thread has heard and not saved yet
    draft,   \* what each client has read of the configuration
    floor,   \* history: from when on silences have been watched
    used     \* how much of each bound is used

vars == <<now, seen, cfg, events, check, locked, acked, reader, draft, floor, used>>

Never == -1     \* last_run_at is null

Idle == [at |-> "idle", now |-> 0, found |-> {}, left |-> {}, on |-> Nothing]
Quiet == [node |-> Nothing, stamp |-> 0]
NoRow == [enabled |-> FALSE, offline |-> 0, interval |-> 0, last |-> Never]
NoDraft == [read |-> FALSE, row |-> NoRow]

Init ==
    /\ now = 0
    /\ seen = [n \in Nodes |-> 0]
    /\ \E o \in Offlines, v \in Intervals :
         cfg = [enabled |-> FALSE, offline |-> o, interval |-> v, last |-> Never]
    /\ events = {}
    /\ check = Idle
    /\ locked = {}
    /\ acked = FALSE
    /\ reader = [i \in Readers |-> Quiet]
    /\ draft = [c \in Clients |-> NoDraft]
    /\ floor = 0
    /\ used = [edits |-> 0, failures |-> 0]

------------------------------------------------------------------------------
(* Helpers *)

\* Mutant: a check also takes the left end of the window
FromLeft(s, left) == s >= left

\* ... which belongs to the window before
AfterLeft(s, left) == s > left

\* Mutant: the right end is left to the next window, which excludes it
BeforeRight(s, right) == s < right

UpToRight(s, right) == s <= right

\* The last run, or a whole interval ago when there is none
Began(row, t) == IF row.last = Never THEN t - row.interval ELSE row.last

\* Nodes that have been silent for offline_after at t, and had not been at the
\* last run
JustSilent(row, t) ==
    {n \in Nodes : /\ AfterLeft(seen[n], Began(row, t) - row.offline)
                   /\ UpToRight(seen[n], t - row.offline)}

\* Mutant: publish waits until the broker acknowledges, however long
NoTimeOut == FALSE

\* publish may give up
MayTimeOut == TRUE

------------------------------------------------------------------------------
(* The clock, and nodes heard *)

\* Time passes; no save of a node takes longer than MaxLag
Tick ==
    /\ now < MaxTime
    /\ \A i \in Readers : reader[i].node # Nothing => now - reader[i].stamp < MaxLag
    /\ now' = now + 1
    /\ UNCHANGED <<seen, cfg, events, check, locked, acked, reader, draft, floor, used>>

\* A packet of n: last_seen is set from the clock
Hear(i, n) ==
    /\ reader[i].node = Nothing
    /\ reader' = [reader EXCEPT ![i] = [node |-> n, stamp |-> now]]
    /\ UNCHANGED <<now, seen, cfg, events, check, locked, acked, draft, floor, used>>

\* ... and saved, once no transaction holds the row
Save(i) ==
    LET n == reader[i].node
    IN  /\ n \in Nodes \ locked
        /\ seen' = [seen EXCEPT ![n] = reader[i].stamp]
        /\ reader' = [reader EXCEPT ![i] = Quiet]
        /\ UNCHANGED <<now, cfg, events, check, locked, acked, draft, floor, used>>

\* The Paho thread of the interface reads the PUBACK of the probe
ReadAck ==
    /\ check.at = "wait" /\ ~acked
    /\ reader[Via].node = Nothing
    /\ acked' = TRUE
    /\ UNCHANGED <<now, seen, cfg, events, check, locked, reader, draft, floor, used>>

------------------------------------------------------------------------------
(* The check *)

Due(row, t) == row.last = Never \/ t - row.last >= row.interval

\* run_check locks the row and lists the nodes that have just fallen silent
Begin ==
    /\ check.at = "idle"
    /\ cfg.enabled
    /\ Due(cfg, now)
    /\ LET found == JustSilent(cfg, now)
       IN  check' = [at |-> "probe", now |-> now,
                     found |-> {[node |-> n, seen |-> seen[n]] : n \in found},
                     left |-> found, on |-> Nothing]
    /\ UNCHANGED <<now, seen, cfg, events, locked, acked, reader, draft, floor, used>>

\* A probe is queued
Probe(n) ==
    /\ check.at = "probe"
    /\ n \in check.left
    /\ check' = [check EXCEPT !.at = "wait", !.left = @ \ {n}, !.on = n]
    /\ acked' = FALSE
    /\ UNCHANGED <<now, seen, cfg, events, locked, reader, draft, floor, used>>

\* It is acknowledged: the node is marked as not reached, which locks its row
Confirm ==
    /\ check.at = "wait" /\ acked
    /\ locked' = locked \cup {check.on}
    /\ check' = [check EXCEPT !.at = "probe", !.on = Nothing]
    /\ UNCHANGED <<now, seen, cfg, events, acked, reader, draft, floor, used>>

\* It is not: the node is left as it is
GiveUp ==
    /\ check.at = "wait"
    /\ MayTimeOut
    /\ check' = [check EXCEPT !.at = "probe", !.on = Nothing]
    /\ UNCHANGED <<now, seen, cfg, events, locked, acked, reader, draft, floor, used>>

\* The interface is not connected, or publishing raises: no more probes
StopProbing ==
    /\ check.at = "probe"
    /\ check.left # {}
    /\ check' = [check EXCEPT !.left = {}]
    /\ UNCHANGED <<now, seen, cfg, events, locked, acked, reader, draft, floor, used>>

EndCheck == check' = Idle /\ locked' = {} /\ acked' = FALSE

\* Mutant: the right end of the window is noted
NoteCutoff(row, t) == [row EXCEPT !.last = t - row.offline]

NoteRun(row, t) == [row EXCEPT !.last = t]

\* The transaction commits
Commit ==
    /\ check.at = "probe"
    /\ check.left = {}
    /\ events' = events \cup {[node |-> f.node, seen |-> f.seen, edition |-> used.edits,
                               offline_at |-> check.now - cfg.offline] : f \in check.found}
    /\ cfg' = NoteRun(cfg, check.now)
    /\ floor' = IF cfg.last = Never THEN Began(cfg, check.now) - cfg.offline ELSE floor
    /\ EndCheck
    /\ UNCHANGED <<now, seen, reader, draft, used>>

\* A statement of the transaction fails: everything is rolled back, and the task
\* notes the run all the same
Fail ==
    /\ used.failures < MaxFailures
    /\ check.at # "idle"
    /\ cfg' = [cfg EXCEPT !.last = now]
    /\ floor' = now - cfg.offline
    /\ used' = [used EXCEPT !.failures = @ + 1]
    /\ EndCheck
    /\ UNCHANGED <<now, seen, events, reader, draft>>

\* The worker dies: the transaction is rolled back
Crash ==
    /\ used.failures < MaxFailures
    /\ used' = [used EXCEPT !.failures = @ + 1]
    /\ EndCheck
    /\ reader' = [i \in Readers |-> Quiet]
    /\ UNCHANGED <<now, seen, cfg, events, draft, floor>>

------------------------------------------------------------------------------
(* Clients *)

\* update_config reads the row, which no lock prevents
ReadConfig(c) ==
    /\ ~draft[c].read
    /\ used.edits < MaxEdits
    /\ draft' = [draft EXCEPT ![c] = [read |-> TRUE, row |-> cfg]]
    /\ UNCHANGED <<now, seen, cfg, events, check, locked, acked, reader, floor, used>>

\* ... and saves all of it, once no check holds it
SaveConfig(c) ==
    /\ draft[c].read
    /\ check.at = "idle"
    /\ used.edits < MaxEdits
    /\ \E e \in BOOLEAN, o \in Offlines, v \in Intervals :
         /\ cfg' = [enabled |-> e, offline |-> o, interval |-> v, last |-> draft[c].row.last]
         /\ floor' = draft[c].row.last - o
    /\ draft' = [draft EXCEPT ![c] = NoDraft]
    /\ used' = [used EXCEPT !.edits = @ + 1]
    /\ UNCHANGED <<now, seen, events, check, locked, acked, reader>>

------------------------------------------------------------------------------

Checking == (\E n \in Nodes : Probe(n)) \/ Confirm \/ GiveUp \/ StopProbing \/ Commit

Next ==
    \/ Tick \/ ReadAck \/ Begin \/ Checking \/ Fail \/ Crash
    \/ \E i \in Readers : Save(i) \/ \E n \in Nodes : Hear(i, n)
    \/ \E c \in Clients : ReadConfig(c) \/ SaveConfig(c)

Spec == Init /\ [][Next]_vars

\* The worker's main thread keeps running; the network and the Paho threads owe
\* nothing
FairSpec == Spec /\ WF_vars(Checking)

------------------------------------------------------------------------------
(* Properties *)

\* Every variable has its type.
TypeOK ==
    /\ now \in Nat
    /\ seen \in [Nodes -> Nat]
    /\ cfg \in [enabled : BOOLEAN, offline : Offlines, interval : Intervals,
                last : Nat \cup {Never}]
    /\ events \subseteq [node : Nodes, seen : Nat, edition : Nat, offline_at : Int]
    /\ check \in [at : {"idle", "probe", "wait"}, now : Nat,
                  found : SUBSET [node : Nodes, seen : Nat],
                  left : SUBSET Nodes, on : Nodes \cup {Nothing}]
    /\ locked \subseteq Nodes
    /\ acked \in BOOLEAN
    /\ reader \in [Readers -> [node : Nodes \cup {Nothing}, stamp : Nat]]
    /\ draft \in [Clients -> [read : BOOLEAN,
                              row : [enabled : BOOLEAN, offline : Nat, interval : Nat,
                                     last : Nat \cup {Never}]]]
    /\ floor \in Int
    /\ used \in [edits : Nat, failures : Nat]

\* While no client saves the configuration, a silence is recorded at most once,
\* whatever checks are late, fail or die half-way.
RecordedOnceUnedited ==
    \A e, f \in events :
        e.node = f.node /\ e.seen = f.seen /\ e.edition = f.edition => e = f

\* No silence falls between two checks: a node silent for offline_after at the
\* last run has been recorded, if that began after silences were watched, that is
\* after the last edit of the configuration and the last check that failed.
NoSilenceMissed ==
    \A n \in Nodes :
        floor < seen[n] /\ seen[n] <= cfg.last - cfg.offline
          => \E e \in events : e.node = n /\ e.seen = seen[n]

\* A check ends, although the Paho thread that has to read the acknowledgement it
\* waits for may wait for the transaction of the check.
CheckEnds == check.at # "idle" ~> check.at = "idle"

\* "Records when nodes transition from online to offline."
RecordedOnce ==
    \A e, f \in events : e.node = f.node /\ e.seen = f.seen => e = f
=============================================================================
