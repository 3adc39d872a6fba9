------------------------------- MODULE ProbePath -------------------------------
(***************************************************************************)
(* Latency probes towards one node: how a traceroute leaves the worker,    *)
(* how its answer comes back, and what the database says of it meanwhile.  *)
(*                                                                         *)
(* The threads are the worker's main thread, Task, which runs the          *)
(* publishing tasks, and one Paho thread per MQTT interface.  A Paho       *)
(* thread is the only one that writes to and reads from its connection:    *)
(* while it runs a callback it does neither.  The callback of a received   *)
(* packet may itself publish (the reactive publisher), under               *)
(* _reactive_lock; publish waits for the acknowledgement of the broker.    *)
(***************************************************************************)
EXTENDS Integers, Sequences, FiniteSets

CONSTANTS
    Interfaces,   \* MQTT interfaces, each with its Paho thread
    Task,         \* the worker's main thread
    Nobody,       \* no thread, no interface
    MaxProbes,    \* bound: probes published
    MaxHeard,     \* bound: echoes and answers that reach the worker
    MaxPackets,   \* bound: packets of the node that answer nothing
    MaxCrashes    \* bound: deaths of the worker

ASSUME ThreadAssumption == Task \notin Interfaces /\ Nobody \notin Interfaces \cup {Task}
ASSUME InterfacesAssumption == IsFiniteSet(Interfaces)
ASSUME BoundAssumption == MaxProbes \in Nat

VARIABLES
    msg,       \* each probe: the interface it is published on and how far it is
    heard,     \* echoes and answers that have reached an interface
    thread,    \* what each thread is doing
    lock,      \* holder of _reactive_lock
    packets,   \* probes whose own packet is in the database
    flag,      \* latency_reachable of the node (FALSE stands for null too)
    rows,      \* NodeLatencyHistory of the node, oldest first
    recorded,  \* history: the last probe recorded as pending
    answered,  \* history: probes an answer of which was matched to its request
    used       \* how much of each bound is used

vars == <<msg, heard, thread, lock, packets, flag, rows, recorded, answered, used>>

Probes == 1..MaxProbes
Threads == Interfaces \cup {Task}
Stages == {"idle", "save", "reach", "find", "write", "dispatch", "ignored",
           "publish", "mark", "create"}
Bare(stage) == [at |-> stage, id |-> 0, pass |-> 0, seen |-> FALSE, pick |-> 0]
Idle == Bare("idle")

Init ==
    /\ msg = [m \in Probes |-> [via |-> Nobody, state |-> "new"]]
    /\ heard = {}
    /\ thread = [t \in Threads |-> Idle]
    /\ lock = Nobody
    /\ packets = {}
    /\ flag = FALSE
    /\ rows = <<>>
    /\ recorded = 0
    /\ answered = {}
    /\ used = [probes |-> 0, packets |-> 0, crashes |-> 0]

------------------------------------------------------------------------------
(* Helpers *)

\* Mutant: the acknowledgement is read while the thread runs a callback
InAnyCase(i) == TRUE

\* The Paho thread is in its loop, not in a callback
InLoop(i) == thread[i].at = "idle"

\* Mutant: publish waits until the broker acknowledges, however long
Never(t) == FALSE

\* Five seconds of waiting may be over before, or just when, the acknowledgement
\* is seen
MayTimeOut(t) == TRUE

Pending == {k \in DOMAIN rows : ~rows[k].answered}

\* Mutant: the row of the probe itself is not looked for
AnyPending(m) == Pending

\* The rows that _update_latency_history may update: the probe's own, or else
\* any pending row of the node
RowsFor(m) ==
    LET own == {k \in DOMAIN rows : rows[k].id = m}
    IN  IF own # {} THEN own ELSE Pending

Goto(t, stage) == thread' = [thread EXCEPT ![t].at = stage]

\* The handler is through; the publisher service sees the packet now
Dispatch(t) == thread' = [thread EXCEPT ![t] = Bare("dispatch")]

\* Queue a new probe on interface i, by thread t, which waits for it
Publish(t, i) ==
    LET m == used.probes + 1
    IN  /\ used.probes < MaxProbes
        /\ used' = [used EXCEPT !.probes = m]
        /\ msg' = [msg EXCEPT ![m] = [via |-> i, state |-> "queued"]]
        /\ thread' = [thread EXCEPT ![t] =
                        [at |-> "publish", id |-> m, pass |-> 0, seen |-> FALSE, pick |-> 0]]

\* The thread is through with its publication
Finish(t) ==
    /\ thread' = [thread EXCEPT ![t] = Idle]
    /\ lock' = IF lock = t THEN Nobody ELSE lock

------------------------------------------------------------------------------
(* The connection of an interface *)

\* The oldest queued message leaves
Transmit(i) ==
    /\ InLoop(i)
    /\ \E m \in Probes :
        /\ msg[m] = [via |-> i, state |-> "queued"]
        /\ \A k \in Probes : msg[k] = [via |-> i, state |-> "queued"] => m <= k
        /\ msg' = [msg EXCEPT ![m].state = "sent"]
    /\ UNCHANGED <<heard, thread, lock, packets, flag, rows, recorded, answered, used>>

\* PUBACK
ReadAck(i) ==
    /\ InLoop(i)
    /\ \E m \in Probes :
        /\ msg[m] = [via |-> i, state |-> "sent"]
        /\ msg' = [msg EXCEPT ![m].state = "acked"]
    /\ UNCHANGED <<heard, thread, lock, packets, flag, rows, recorded, answered, used>>

OnAir(m) == msg[m].state \in {"sent", "acked"}

\* The worker hears its own probe: the packet is stored
ReadEcho(i, m) ==
    /\ InLoop(i)
    /\ OnAir(m) /\ <<"echo", m, i>> \notin heard
    /\ Cardinality(heard) < MaxHeard
    /\ heard' = heard \cup {<<"echo", m, i>>}
    /\ packets' = packets \cup {m}
    /\ Goto(i, "ignored")
    /\ UNCHANGED <<msg, lock, flag, rows, recorded, answered, used>>

\* A packet of the node: on_message reads the node, to save all of it later.  An
\* answer is processed twice, by the handler of its port and by
\* _process_probe_response, or only by the latter (a routing error)
Read(i, m) ==
    /\ InLoop(i)
    /\ \E pass \in IF m = 0 THEN {2} ELSE {1, 2} :
         thread' = [thread EXCEPT ![i] =
                      [at |-> "save", id |-> m, pass |-> pass, seen |-> flag, pick |-> 0]]

\* ... that answers probe m; each interface may hear a copy
ReadAnswer(i, m) ==
    /\ Read(i, m)
    /\ OnAir(m) /\ <<"answer", m, i>> \notin heard
    /\ Cardinality(heard) < MaxHeard
    /\ heard' = heard \cup {<<"answer", m, i>>}
    /\ UNCHANGED <<msg, lock, packets, flag, rows, recorded, answered, used>>

\* ... that answers nothing
ReadOther(i) ==
    /\ Read(i, 0)
    /\ used.packets < MaxPackets
    /\ used' = [used EXCEPT !.packets = @ + 1]
    /\ UNCHANGED <<msg, heard, lock, packets, flag, rows, recorded, answered>>

------------------------------------------------------------------------------
(* Handling a packet of the node *)

\* from_node.save(): every column, with the flag as it was read
SaveNode(i) ==
    /\ thread[i].at = "save"
    /\ flag' = thread[i].seen
    /\ IF thread[i].id = 0 THEN Dispatch(i) ELSE Goto(i, "reach")
    /\ UNCHANGED <<msg, heard, lock, packets, rows, recorded, answered, used>>

\* The request is looked up; if it is on file the node is reachable
Reach(i) ==
    LET m == thread[i].id
    IN  /\ thread[i].at = "reach"
        /\ m \in packets
        /\ flag' = TRUE
        /\ answered' = answered \cup {m}
        /\ Goto(i, "find")
        /\ UNCHANGED <<msg, heard, lock, packets, rows, recorded, used>>

\* ... and if it is not, this pass does nothing
NoRequest(i) ==
    /\ thread[i].at = "reach"
    /\ thread[i].id \notin packets
    /\ IF thread[i].pass = 1 THEN thread' = [thread EXCEPT ![i].pass = 2]
                             ELSE Dispatch(i)
    /\ UNCHANGED <<msg, heard, lock, packets, flag, rows, recorded, answered, used>>

\* The oldest of them, or none
FindRow(i) ==
    /\ thread[i].at = "find"
    /\ \E k \in 0..Len(rows) :
        /\ k = 0 <=> RowsFor(thread[i].id) = {}
        /\ k > 0 => k \in RowsFor(thread[i].id)
        /\ \A j \in RowsFor(thread[i].id) : k <= j
        /\ thread' = [thread EXCEPT ![i].at = "write", ![i].pick = k]
    /\ UNCHANGED <<msg, heard, lock, packets, flag, rows, recorded, answered, used>>

\* The row found is answered, or a new one is.  Between the two passes the
\* handler of traceroutes reads and saves the nodes of the route.
WriteRow(i) ==
    LET k == thread[i].pick
    IN  /\ thread[i].at = "write"
        /\ rows' = IF k > 0 THEN [rows EXCEPT ![k].answered = TRUE]
                            ELSE Append(rows, [id |-> thread[i].id, answered |-> TRUE])
        /\ IF thread[i].pass = 2
           THEN Dispatch(i)
           ELSE \E stage \in {"save", "reach"} :
                  thread' = [thread EXCEPT ![i].at = stage, ![i].pass = 2,
                                           ![i].seen = flag]
        /\ UNCHANGED <<msg, heard, lock, packets, flag, recorded, answered, used>>

\* on_packet_received, under the lock, decides to do nothing
Ignore(i) ==
    /\ thread[i].at \in {"dispatch", "ignored"}
    /\ lock = Nobody
    /\ thread' = [thread EXCEPT ![i] = Idle]
    /\ UNCHANGED <<msg, heard, lock, packets, flag, rows, recorded, answered, used>>

\* ... or to send a traceroute, through the interface that heard the packet, the
\* first one that did, or the fallback; the lock is held until it is done
Inject(i, j) ==
    /\ thread[i].at = "dispatch"
    /\ lock = Nobody
    /\ lock' = i
    /\ Publish(i, j)
    /\ UNCHANGED <<heard, packets, flag, rows, recorded, answered>>

------------------------------------------------------------------------------
(* Publishing *)

\* Mutant: the task keeps the lock while it publishes
TaskProbeLocked(i) ==
    /\ thread[Task].at = "idle"
    /\ lock = Nobody
    /\ lock' = Task
    /\ Publish(Task, i)
    /\ UNCHANGED <<heard, packets, flag, rows, recorded, answered>>

\* A publishing task configures the reactive service, under the lock, and
\* publishes without it
TaskProbe(i) ==
    /\ thread[Task].at = "idle"
    /\ lock = Nobody
    /\ Publish(Task, i)
    /\ UNCHANGED <<heard, lock, packets, flag, rows, recorded, answered>>

\* publish sees the acknowledgement and returns True
Confirm(t) ==
    /\ thread[t].at = "publish"
    /\ msg[thread[t].id].state = "acked"
    /\ Goto(t, "mark")
    /\ UNCHANGED <<msg, heard, lock, packets, flag, rows, recorded, answered, used>>

\* publish gives up and returns False; the message stays queued
TimeOut(t) ==
    /\ thread[t].at = "publish"
    /\ MayTimeOut(t)
    /\ Finish(t)
    /\ UNCHANGED <<msg, heard, packets, flag, rows, recorded, answered, used>>

\* The node has a probe out: it is unreachable until the answer comes
MarkPending(t) ==
    /\ thread[t].at = "mark"
    /\ flag' = FALSE
    /\ Goto(t, "create")
    /\ UNCHANGED <<msg, heard, lock, packets, rows, recorded, answered, used>>

CreatePending(t) ==
    /\ thread[t].at = "create"
    /\ rows' = Append(rows, [id |-> thread[t].id, answered |-> FALSE])
    /\ recorded' = thread[t].id
    /\ Finish(t)
    /\ UNCHANGED <<msg, heard, packets, flag, answered, used>>

\* The worker dies: what was not sent is lost, the database stays
Crash ==
    /\ used.crashes < MaxCrashes
    /\ used' = [used EXCEPT !.crashes = @ + 1]
    /\ thread' = [t \in Threads |-> Idle]
    /\ lock' = Nobody
    /\ msg' = [m \in Probes |->
                 IF msg[m].state = "queued" THEN [msg[m] EXCEPT !.state = "lost"] ELSE msg[m]]
    /\ UNCHANGED <<heard, packets, flag, rows, recorded, answered>>

------------------------------------------------------------------------------

Connection(i) ==
    \/ Transmit(i) \/ ReadAck(i) \/ ReadOther(i)
    \/ \E m \in Probes : ReadEcho(i, m) \/ ReadAnswer(i, m)

Handle(i) == SaveNode(i) \/ Reach(i) \/ NoRequest(i) \/ FindRow(i) \/ WriteRow(i) \/ Ignore(i)

Wait(t) == Confirm(t) \/ TimeOut(t) \/ MarkPending(t) \/ CreatePending(t)

Next ==
    \/ \E i \in Interfaces : Connection(i) \/ Handle(i) \/ TaskProbe(i)
    \/ \E i, j \in Interfaces : Inject(i, j)
    \/ \E t \in Threads : Wait(t)
    \/ Crash

Spec == Init /\ [][Next]_vars

\* Threads keep running; the network and the clients owe nothing
Fairness ==
    /\ \A i \in Interfaces : WF_vars(Handle(i))
    /\ \A t \in Threads : WF_vars(Wait(t))

FairSpec == Spec /\ Fairness

------------------------------------------------------------------------------
(* Properties *)

\* Every variable has its type.
TypeOK ==
    /\ msg \in [Probes -> [via : Interfaces \cup {Nobody},
                           state : {"new", "queued", "sent", "acked", "lost"}]]
    /\ heard \subseteq {"echo", "answer"} \X Probes \X Interfaces
    /\ thread \in [Threads -> [at : Stages, id : 0..MaxProbes, pass : 0..2,
                               seen : BOOLEAN, pick : Nat]]
    /\ lock \in Interfaces \cup {Nobody}
    /\ packets \subseteq Probes
    /\ flag \in BOOLEAN
    /\ rows \in Seq([id : Probes, answered : BOOLEAN])
    /\ recorded \in 0..MaxProbes
    /\ answered \subseteq Probes
    /\ used \in [probes : 0..MaxProbes, packets : Nat, crashes : Nat]

\* A traceroute injected through the interface whose thread handles the packet is
\* never confirmed: publish blocks that thread until the timeout, reports a
\* failure, and no pending row is ever recorded for it.
OwnThreadUnconfirmed ==
    \A i \in Interfaces :
        thread[i].at \in {"mark", "create"} => msg[thread[i].id].via # i

\* However the publisher and the threads that hear copies of the answer race, a
\* probe has at most the publisher's row and one row of each thread.
FewRows ==
    \A m \in Probes :
        Cardinality({k \in DOMAIN rows : rows[k].id = m}) <= 1 + Cardinality(Interfaces)

\* No thread stays in a callback or in a publication for ever, although a Paho
\* thread waits for acknowledgements under a lock that other Paho threads, which
\* would have to read them, wait for.
EveryThreadReturns == \A t \in Threads : thread[t].at # "idle" ~> thread[t].at = "idle"

\* "Indicates whether the most recent latency probe received a response."
FlagTellsAnswer ==
    (\A t \in Threads : thread[t].at = "idle") /\ recorded \in answered => flag
=============================================================================
