--------------------------- MODULE ReactivePublisher ---------------------------
(***************************************************************************)
(* The reactive publisher of services/publisher_service.py: a traceroute   *)
(* is injected towards a node whose packet was received, at most max_tries *)
(* times per attempt window.                                               *)
(*                                                                         *)
(* The configuration is one database row.  The web process and the worker  *)
(* each have a PublisherService with a cached copy of it; only the worker  *)
(* receives packets.  Both run ServiceManager's                            *)
(* _configure_publisher_reactive_runtime: the web process after each edit  *)
(* of the row, the worker when it boots and at the start of every task     *)
(* that publishes.  Within a process the steps below are atomic by         *)
(* _reactive_lock; the database does not know that lock.                   *)
(***************************************************************************)
EXTENDS Integers, Sequences

CONSTANTS
    Nodes,        \* nodes packets come from
    Web, Worker,  \* the two processes
    Unloaded,     \* a process that has no copy of the row
    Tries,        \* values of max_tries clients send
    Top,          \* no client asks for more tries
    Window,       \* REACTIVE attempt window
    Refresh,      \* how old the worker's copy may be
    MaxTime,      \* bound: length of a behaviour
    MaxPackets,   \* bound: packets received
    MaxEdits,     \* bound: edits of the configuration
    MaxTasks,     \* bound: publishing tasks
    MaxCrashes    \* bound: deaths of the worker

ASSUME ProcessAssumption == Web # Worker
ASSUME TriesAssumption == Top \in Nat \ {0} /\ Tries \subseteq {t \in Int : t <= Top}
ASSUME WindowAssumption == Window \in Nat \ {0} /\ Refresh \in Nat

VARIABLES
    now,      \* the clock
    db,       \* the row: enabled, max_tries, updated_at
    copy,     \* _reactive_config of each process
    on,       \* _reactive_enabled of each process
    step,     \* how far each process is in configuring its runtime
    loaded,   \* the copy it means to install
    read,     \* _reactive_last_refresh of the worker
    tried,    \* _reactive_attempts of the worker: count and first
    log,      \* history: times of the injections towards each node
    base,     \* history: length of log when the attempts were last cleared
    off,      \* history: since when the row says disabled
    used      \* how much of each bound is used

vars == <<now, db, copy, on, step, loaded, read, tried, log, base, off, used>>
history == <<log, base, off>>

Processes == {Web, Worker}
Never == -1
Row == [enabled : BOOLEAN, tries : 0..Top, stamp : Nat]
OptRow == Row \cup {Unloaded}
Steps == {"idle", "resolve", "load", "install", "switch"}
Attempts == [count : Nat, first : Int]
NoAttempts == [n \in Nodes |-> [count |-> 0, first |-> Never]]

\* Both processes have booted on a row that is disabled
Init ==
    /\ now = 0
    /\ db \in [enabled : {FALSE}, tries : 1..Top, stamp : {0}]
    /\ copy = [p \in Processes |-> db]
    /\ on = [p \in Processes |-> FALSE]
    /\ step = [p \in Processes |-> "idle"]
    /\ loaded = [p \in Processes |-> Unloaded]
    /\ read = Never
    /\ tried = NoAttempts
    /\ log = [n \in Nodes |-> <<>>]
    /\ base = [n \in Nodes |-> 0]
    /\ off = 0
    /\ used = [packets |-> 0, edits |-> 0, tasks |-> 0, crashes |-> 0]

------------------------------------------------------------------------------
(* Helpers *)

\* Mutant: max_tries is stored as the client sent it
Unclamped(t) == t

\* max(0, max_tries)
Clamp(t) == IF t < 0 THEN 0 ELSE t

Clear ==
    /\ tried' = NoAttempts
    /\ base' = [n \in Nodes |-> Len(log[n])]

\* off is the history of the column enabled
WriteEnabled(value) ==
    off' = IF value THEN Never ELSE IF db.enabled THEN now ELSE off

\* The copy is recent enough to skip the refresh
Recent == read # Never /\ Refresh > 0 /\ now - read < Refresh

\* Mutant: the row is only looked at when updated_at has changed
WantedIfNewer ==
    IF copy[Worker] # Unloaded /\ copy[Worker].stamp = db.stamp
    THEN on[Worker] ELSE db.enabled

\* _refresh_reactive_state: start and stop save enabled without updated_at
Wanted == db.enabled

\* Mutant: one try too many
AtMost(count, tries) == count <= tries

\* data["count"] < max_tries
Below(count, tries) == count < tries

\* The attempt window of a node is over, or has not begun
WindowOver(a) == a.count = 0 \/ now - a.first >= Window

\* _should_inject_for_node, given the attempts a of the node and the limit
MayInject(a, tries) == tries > 0 /\ (WindowOver(a) \/ Below(a.count, tries))

Attempt(a) == IF WindowOver(a) THEN [count |-> 1, first |-> now]
                               ELSE [a EXCEPT !.count = @ + 1]

------------------------------------------------------------------------------
(* Clients, in the web process *)

\* update_reactive_config: every column of the cached copy is saved, with the
\* fields the client sent; the runtime is configured next
UpdateConfig(enabled, tries) ==
    LET row == [enabled |-> enabled, tries |-> tries, stamp |-> db.stamp + 1]
    IN  /\ step[Web] = "idle"
        /\ used.edits < MaxEdits
        /\ db' = row
        /\ copy' = [copy EXCEPT ![Web] = row]
        /\ WriteEnabled(enabled)
        /\ step' = [step EXCEPT ![Web] = "resolve"]
        /\ used' = [used EXCEPT !.edits = @ + 1]
        /\ UNCHANGED <<now, on, loaded, read, tried, log, base>>

EditEnabled(enabled) == UpdateConfig(enabled, copy[Web].tries)

EditTries(t) == UpdateConfig(copy[Web].enabled, Clamp(t))

------------------------------------------------------------------------------
(* _configure_publisher_reactive_runtime, in either process *)

\* load_reactive_config, in _resolve_reactive_publisher and again after it
LoadConfig(p) ==
    /\ step[p] \in {"resolve", "load"}
    /\ copy' = [copy EXCEPT ![p] = db]
    /\ loaded' = [loaded EXCEPT ![p] = db]
    /\ step' = [step EXCEPT ![p] = IF @ = "resolve" THEN "load" ELSE "install"]
    /\ UNCHANGED <<now, db, on, read, tried, history, used>>

\* configure_reactive_runtime: what was loaded replaces what an ingest thread
\* may have read since
InstallConfig(p) ==
    /\ step[p] = "install"
    /\ copy' = [copy EXCEPT ![p] = loaded[p]]
    /\ step' = [step EXCEPT ![p] = "switch"]
    /\ UNCHANGED <<now, db, on, loaded, read, tried, history, used>>

\* start_reactive_service or stop_reactive_service, as the loaded row says;
\* both save the column enabled and clear the attempts
Switch(p) ==
    LET enabled == loaded[p].enabled
    IN  /\ step[p] = "switch"
        /\ on' = [on EXCEPT ![p] = enabled]
        /\ db' = [db EXCEPT !.enabled = enabled]
        /\ WriteEnabled(enabled)
        /\ copy' = [copy EXCEPT ![p].enabled = enabled]
        /\ IF p = Worker THEN Clear ELSE UNCHANGED <<tried, base>>
        /\ step' = [step EXCEPT ![p] = "idle"]
        /\ loaded' = [loaded EXCEPT ![p] = Unloaded]
        /\ UNCHANGED <<now, read, log, used>>

------------------------------------------------------------------------------
(* Worker *)

\* A task that publishes begins with initialize_publisher_service
PublishTask ==
    /\ step[Worker] = "idle"
    /\ used.tasks < MaxTasks
    /\ step' = [step EXCEPT ![Worker] = "resolve"]
    /\ used' = [used EXCEPT !.tasks = @ + 1]
    /\ UNCHANGED <<now, db, copy, on, loaded, read, tried, history>>

\* What on_packet_received works with: _refresh_reactive_state reads the row
\* unless the copy is recent, and forgets the attempts when the switch moved
CopyNow ==
    IF copy[Worker] # Unloaded /\ (Recent \/ copy[Worker].stamp = db.stamp)
    THEN copy[Worker] ELSE db
OnNow == IF Recent THEN on[Worker] ELSE Wanted
Moved == OnNow # on[Worker]
TriedNow == IF Moved THEN NoAttempts ELSE tried

ReceivePacket ==
    /\ used.packets < MaxPackets
    /\ used' = [used EXCEPT !.packets = @ + 1]
    /\ read' = IF Recent THEN read ELSE now
    /\ copy' = [copy EXCEPT ![Worker] = CopyNow]
    /\ on' = [on EXCEPT ![Worker] = OnNow]
    /\ base' = IF Moved THEN [n \in Nodes |-> Len(log[n])] ELSE base
    /\ UNCHANGED <<now, db, step, loaded, off>>

\* No attempt: the service is off, the packet does not match the configured
\* node, interfaces or ports, or the tries are used up
IgnorePacket ==
    /\ ReceivePacket
    /\ tried' = TriedNow
    /\ UNCHANGED log

\* A packet of node n makes the worker try a traceroute towards n
Inject(n) ==
    /\ ReceivePacket
    /\ OnNow
    /\ MayInject(TriedNow[n], CopyNow.tries)
    /\ tried' = [TriedNow EXCEPT ![n] = Attempt(@)]
    /\ log' = [log EXCEPT ![n] = Append(@, now)]

\* The worker dies and boots again: load_enabled_interfaces, start_all, and
\* initialize_publisher_service, which configures the runtime
Crash ==
    /\ used.crashes < MaxCrashes
    /\ used' = [used EXCEPT !.crashes = @ + 1]
    /\ copy' = [copy EXCEPT ![Worker] = Unloaded]
    /\ loaded' = [loaded EXCEPT ![Worker] = Unloaded]
    /\ on' = [on EXCEPT ![Worker] = FALSE]
    /\ step' = [step EXCEPT ![Worker] = "resolve"]
    /\ read' = Never
    /\ Clear
    /\ UNCHANGED <<now, db, log, off>>

Tick ==
    /\ now < MaxTime
    /\ now' = now + 1
    /\ UNCHANGED <<db, copy, on, step, loaded, read, tried, history, used>>

Next ==
    \/ \E enabled \in BOOLEAN : EditEnabled(enabled)
    \/ \E t \in Tries : EditTries(t)
    \/ \E p \in Processes : LoadConfig(p) \/ InstallConfig(p) \/ Switch(p)
    \/ PublishTask
    \/ IgnorePacket
    \/ \E n \in Nodes : Inject(n)
    \/ Crash
    \/ Tick

Spec == Init /\ [][Next]_vars

------------------------------------------------------------------------------
(* Properties *)

\* Every variable has its type.
TypeOK ==
    /\ now \in Nat
    /\ db \in Row
    /\ copy \in [Processes -> OptRow]
    /\ on \in [Processes -> BOOLEAN]
    /\ step \in [Processes -> Steps]
    /\ loaded \in [Processes -> OptRow]
    /\ read \in Int
    /\ tried \in [Nodes -> Attempts]
    /\ log \in [Nodes -> Seq(Nat)]
    /\ base \in [Nodes -> Nat]
    /\ off \in Int
    /\ used \in [packets : Nat, edits : Nat, tasks : Nat, crashes : Nat]

\* Positions of log[n] that hold 2 * Top injections in less than a window
Burst(n, from) ==
    \E k \in from + 1 .. Len(log[n]) :
        /\ k + 2 * Top - 1 <= Len(log[n])
        /\ log[n][k + 2 * Top - 1] - log[n][k] < Window

\* As long as the attempts are not cleared, a node gets fewer than twice the
\* limit of injections in any stretch as long as the window: the windows are
\* not sliding ones, and the tail of one may meet the head of the next.
LimitBetweenClears == \A n \in Nodes : ~Burst(n, base[n])

\* Whoever has disabled the service (a client, or a process that switches it
\* off again), the worker injects nothing once its copy is due for a refresh.
SilentWhenOff ==
    off # Never =>
        \A n \in Nodes : \A k \in DOMAIN log[n] :
            log[n][k] <= off \/ log[n][k] < off + Refresh

\* "Attempt windows / rate limiting to avoid repeated injection loops": the
\* limit holds, clears or not, while nobody touches the configuration.
LimitHolds == used.edits <= 1 /\ used.crashes = 0 => \A n \in Nodes : ~Burst(n, 0)
=============================================================================
