----------------------------- MODULE NodeDetails ----------------------------
(***************************************************************************)
(* The details of one node, in a dialog of the web client.  Each section   *)
(* is loaded by an effect of its own, run again whenever what it depends on *)
(* changes; the cleanup of a run cancels it, and a cancelled run changes    *)
(* nothing when its answer comes.  The packets of a port follow the port    *)
(* selected in the section of port activity.                                *)
(*                                                                         *)
(* What a section holds is known by its key, the arguments it was asked     *)
(* with.  A behaviour may follow some of the sections only.                 *)
(***************************************************************************)
CONSTANTS
  NdNodes, \* ids of nodes
  Ports,   \* ports a node may have used
  Ranges   \* time ranges of the telemetry and latency sections

Sections == {"positions", "telemetry", "latency", "activity", "packets"}
None == "none"
Failed == "failed"
Default == "default"

VARIABLES
  ndFollowed, \* the sections followed
  ndNode,     \* node, None when the dialog is closed
  ndRange,    \* telemetryRange, and the applied range of the latency section
  ndPort,     \* selectedPort
  ndPorts,    \* portActivity, the ports of its rows
  ndShown,    \* per section, the key of what it holds, or how it failed
  ndLoading,  \* sections with a spinner
  ndRuns      \* runs of effects still waiting for their answers

ndVars == <<ndFollowed, ndNode, ndRange, ndPort, ndPorts, ndShown, ndLoading, ndRuns>>

NoKey == [node |-> None, arg |-> None]
FailedKey == [node |-> Failed, arg |-> None]
Keys == [node : NdNodes, arg : Ranges \cup Ports \cup {None, Default}]

NdTypeOK ==
  /\ ndFollowed \subseteq Sections
  /\ ndNode \in NdNodes \cup {None}
  /\ ndRange \in [{"telemetry", "latency"} -> Ranges \cup {Default}]
  /\ ndPort \in Ports \cup {None} /\ ndPorts \subseteq Ports
  /\ ndShown \in [Sections -> Keys \cup {NoKey, FailedKey}]
  /\ ndLoading \subseteq ndFollowed
  /\ ndRuns \subseteq [section : Sections, key : Keys, cancelled : BOOLEAN]

-----------------------------------------------------------------------------
\* The arguments of a section's effect: it does not run without a node, nor the
\* packets without a port.
Arg(s, range, port) ==
  CASE s \in {"telemetry", "latency"} -> range[s]
    [] s = "packets" -> port
    [] OTHER -> None
KeyOf(s, node, range, port) ==
  IF node = None \/ (s = "packets" /\ port = None) THEN NoKey
  ELSE [node |-> node, arg |-> Arg(s, range, port)]
Key(s) == KeyOf(s, ndNode, ndRange, ndPort)

\* Mutant: the effects have no cleanup
NotCancelled(changed) == ndRuns

\* The cleanups of some sections' effects.
Cancelled(changed) ==
  {IF r.section \in changed THEN [r EXCEPT !.cancelled = TRUE] ELSE r : r \in ndRuns}

\* The state changes: the effects of the sections that depend on the change are
\* cleaned up, and run again where they have something to load.
Rerun(changed, node, range, port) ==
  LET again == {s \in changed \cap ndFollowed : KeyOf(s, node, range, port) # NoKey} IN
  /\ ndNode' = node /\ ndRange' = range /\ ndPort' = port
  /\ ndRuns' = Cancelled(changed) \cup
       {[section |-> s, key |-> KeyOf(s, node, range, port), cancelled |-> FALSE] : s \in again}
  /\ ndLoading' = ndLoading \cup again
  /\ UNCHANGED ndFollowed

\* setPortPackets([])
PacketsCleared(shown) == [shown EXCEPT !["packets"] = NoKey]

-----------------------------------------------------------------------------
(* The dialog.                                                             *)

\* The dialog is mounted.  Its latency section is asked for a week, and at once
\* again for the days around now, which is the default.
OpenDetails(node) ==
  /\ ndNode = None
  /\ Rerun(Sections, node, [s \in {"telemetry", "latency"} |-> Default], None)
  /\ UNCHANGED <<ndPorts, ndShown>>

\* onClose: the dialog is unmounted, and its state lost.
CloseDetails ==
  /\ ndNode # None
  /\ ndNode' = None /\ ndPort' = None /\ ndPorts' = {} /\ ndLoading' = {}
  /\ ndShown' = [s \in Sections |-> NoKey]
  /\ ndRange' = [s \in {"telemetry", "latency"} |-> Default]
  /\ ndRuns' = Cancelled(Sections)
  /\ UNCHANGED ndFollowed

\* The dialog is given another node while it is open.
Retarget(node) ==
  /\ ndNode \notin {None, node}
  /\ Rerun(Sections, node, ndRange, ndPort)
  /\ ndShown' = IF ndPort = None THEN ndShown ELSE PacketsCleared(ndShown)
  /\ UNCHANGED ndPorts

\* The ranges of the telemetry section, and Apply and Reset of the latency section.
ChooseRange(s, r) ==
  /\ ndNode # None /\ r # ndRange[s]
  /\ Rerun({s}, ndNode, [ndRange EXCEPT ![s] = r], ndPort)
  /\ UNCHANGED <<ndPorts, ndShown>>

\* handlePortClick
PortAfter(p) == IF p = ndPort THEN None ELSE p

\* A row is shown unless its section is loading or failed.
ClickPort(p) ==
  /\ ndNode # None /\ "activity" \notin ndLoading /\ p \in ndPorts
  /\ Rerun({"packets"}, ndNode, ndRange, PortAfter(p))
  /\ ndShown' = PacketsCleared(ndShown)
  /\ UNCHANGED ndPorts

-----------------------------------------------------------------------------
(* Answers.                                                                *)

\* A run that was cancelled changes nothing.
Ignored(r) ==
  /\ r.cancelled
  /\ ndRuns' = ndRuns \ {r}
  /\ UNCHANGED <<ndFollowed, ndNode, ndRange, ndPort, ndPorts, ndShown, ndLoading>>

\* The port selected goes with the rows: its packets are dropped, their run
\* cancelled, and their spinner left as it is, as nothing shows it.
Rows(ports, shown) ==
  LET gone == ndPort \notin ports IN
  /\ ndPorts' = ports
  /\ ndPort' = IF gone THEN None ELSE ndPort
  /\ ndShown' = IF gone /\ ndPort # None THEN PacketsCleared(shown) ELSE shown

Answered(r, key) ==
  LET shown == [ndShown EXCEPT ![r.section] = key] IN
  /\ ~r.cancelled
  /\ ndLoading' = ndLoading \ {r.section}
  /\ IF r.section # "activity"
       THEN ndShown' = shown /\ ndRuns' = ndRuns \ {r} /\ UNCHANGED <<ndPort, ndPorts>>
       ELSE /\ \E ports \in SUBSET Ports :
                 /\ key = FailedKey => ports = {}
                 /\ Rows(ports, shown)
            /\ ndRuns' = (IF ndPort' # ndPort THEN Cancelled({"packets"}) ELSE ndRuns) \ {r}
  /\ UNCHANGED <<ndFollowed, ndNode, ndRange>>

Arrives(r) == Answered(r, r.key)
Fails(r) == Answered(r, FailedKey)

-----------------------------------------------------------------------------
NdInit ==
  /\ ndFollowed \in {{"positions"}, {"telemetry"}, {"latency"}, {"activity", "packets"}}
  /\ ndNode = None /\ ndRange = [s \in {"telemetry", "latency"} |-> Default]
  /\ ndPort = None /\ ndPorts = {} /\ ndShown = [s \in Sections |-> NoKey]
  /\ ndLoading = {} /\ ndRuns = {}

NdNext ==
  \/ \E n \in NdNodes : OpenDetails(n) \/ Retarget(n)
  \/ CloseDetails
  \/ \E s \in {"telemetry", "latency"} \cap ndFollowed, r \in Ranges \cup {Default} : ChooseRange(s, r)
  \/ \E p \in Ports : ClickPort(p)
  \/ \E r \in ndRuns : Ignored(r) \/ Arrives(r) \/ Fails(r)

NdSpec == NdInit /\ [][NdNext]_ndVars

\* The packets are there when a port is selected, the other sections always.
InView(s) == Key(s) # NoKey

-----------------------------------------------------------------------------
\* What a section shows without its spinner is what the node, the range and the
\* port of this moment ask for, or an error; and a spinner is never left without a
\* run that will take it away.
SectionsTrue ==
  \A s \in ndFollowed : InView(s) =>
    IF s \in ndLoading THEN [section |-> s, key |-> Key(s), cancelled |-> FALSE] \in ndRuns
                       ELSE ndShown[s] \in {Key(s), FailedKey}

\* The port whose packets are shown is one of the rows, once they are there.
PortListed == ndPort # None /\ "activity" \notin ndLoading => ndPort \in ndPorts
=============================================================================
