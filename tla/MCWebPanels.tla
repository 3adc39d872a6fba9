----------------------------- MODULE MCWebPanels -----------------------------
(***************************************************************************)
(* The panels of the web client that show what the server holds, and its   *)
(* graph and map.  They share no state: a behaviour follows one of them,   *)
(* and the others stay as they begin.                                      *)
(***************************************************************************)
EXTENDS Integers, Sequences, FiniteSets

CONSTANTS
  LkFilters, Links, Tabs, LkSlots,
  MaxCaptures, CpSlots,
  VnNodes, MaxKeys, VnSlots,
  NdNodes, Ports, Ranges,
  Interfaces, Entries, MaxCommands,
  Start, Goal, Between, Uncounted, HopLimits, PathLimit,
  TfNodes, MaxEdgeHops,
  NsNodes, NsForeign, NsSlots,
  NgFilters, NgIfaces, NgVersions, NgLists, MaxFetches, MaxAsks,
  NmNodes, MaxLoads

\* The bounds let something happen.
ASSUME CapturesAssumption == MaxCaptures \in Nat \ {0}
ASSUME VirtualAssumption == MaxKeys \in Nat \ {0}
ASSUME MapAssumption == MaxLoads \in Nat \ {0}

\* No node is the one the details show when they are closed.
ASSUME DetailsAssumption == "none" \notin NdNodes

\* The first and the second node selected differ, and there are finitely many others.
ASSUME PathsAssumption ==
  /\ Start # Goal /\ {Start, Goal} \cap Between = {} /\ IsFiniteSet(Between)
  /\ Uncounted \subseteq Between /\ HopLimits \subseteq Nat /\ PathLimit \in Nat \ {0}

\* No node has the broker's id.
ASSUME TransformAssumption == MaxEdgeHops \in Nat /\ "mqtt_broker" \notin TfNodes

ASSUME GraphAssumption ==
  {MaxFetches, MaxAsks} \subseteq Nat \ {0} /\ NgLists \subseteq SUBSET NgIfaces

VARIABLES
  part,
  lkFilter, lkList, lkSelected, lkLink, lkPackets, lkTab, lkListing, lkLoading, lkStalled, lkReq,
  lkOlder, lkInOrder,
  cpList, cpLoading, cpRefreshing, cpSubmitting, cpDeleting, cpClearing, cpReq, cpServer, cpStarted,
  cpAlone, cpNewer, cpOlder, cpTrusted,
  vnList, vnListing, vnForm, vnOptions, vnSaving, vnPrefilling, vnConfirm, vnRotating, vnDeleting,
  vnShown, vnReq, vnKeys, vnMixed,
  ndFollowed, ndNode, ndRange, ndPort, ndPorts, ndShown, ndLoading, ndRuns,
  ovList, ovKnown, ovLoading, ovRefreshing, ovError, ovFetching, ovFetch, ovOpen, ovIface, ovBusy,
  ovCommands, ovServer, ovTrusted,
  gpLinks, gpZero, gpMax, gpStep, gpQueue, gpSeen, gpNear, gpPaths,
  tfView, tfSettings, tfRecent, tfEdges, tfDrawn, tfGraph,
  nsFirst, nsSecond, nsPending, nsReq,
  ngFilter, ngRaw, ngLoading, ngError, ngBusy, ngSel, ngKnown, ngBuilt, ngCanvas, ngTimer, ngFetches,
  ngAsks, ngMixed,
  nmShown, nmChunk, nmData, nmLoading, nmLoads, nmFocused, nmShould, nmTimer, nmSelected, nmView

links == <<lkFilter, lkList, lkSelected, lkLink, lkPackets, lkTab, lkListing, lkLoading, lkStalled,
           lkReq, lkOlder, lkInOrder>>
captures == <<cpList, cpLoading, cpRefreshing, cpSubmitting, cpDeleting, cpClearing, cpReq, cpServer,
              cpStarted, cpAlone, cpNewer, cpOlder, cpTrusted>>
virtual == <<vnList, vnListing, vnForm, vnOptions, vnSaving, vnPrefilling, vnConfirm, vnRotating,
             vnDeleting, vnShown, vnReq, vnKeys, vnMixed>>
details == <<ndFollowed, ndNode, ndRange, ndPort, ndPorts, ndShown, ndLoading, ndRuns>>
overview == <<ovList, ovKnown, ovLoading, ovRefreshing, ovError, ovFetching, ovFetch, ovOpen, ovIface,
              ovBusy, ovCommands, ovServer, ovTrusted>>
paths == <<gpLinks, gpZero, gpMax, gpStep, gpQueue, gpSeen, gpNear, gpPaths>>
transform == <<tfView, tfSettings, tfRecent, tfEdges, tfDrawn, tfGraph>>
selection == <<nsFirst, nsSecond, nsPending, nsReq>>
graph == <<ngFilter, ngRaw, ngLoading, ngError, ngBusy, ngSel, ngKnown, ngBuilt, ngCanvas, ngTimer,
           ngFetches, ngAsks, ngMixed>>
map == <<nmShown, nmChunk, nmData, nmLoading, nmLoads, nmFocused, nmShould, nmTimer, nmSelected,
         nmView>>

L == INSTANCE LinksPanel
C == INSTANCE CapturesPanel
V == INSTANCE VirtualNodes
D == INSTANCE NodeDetails
O == INSTANCE OverviewPanel
P == INSTANCE GraphPaths
T == INSTANCE GraphTransform
S == INSTANCE NodeSelection
G == INSTANCE NetworkGraph
M == INSTANCE NetworkMap

vars == <<part, links, captures, virtual, details, overview, paths, transform, selection, graph, map>>

Parts == {"links", "captures", "virtual", "details", "overview", "paths", "transform", "selection",
          "graph", "map"}

\* A part that is not followed begins in one state.
Init ==
  /\ part \in Parts
  /\ L!LkInit /\ (part # "links" => lkFilter = CHOOSE f \in LkFilters : TRUE)
  /\ C!CpInit /\ (part # "captures" => cpStarted = 0)
  /\ V!VnInit
  /\ D!NdInit /\ (part # "details" => ndFollowed = {"positions"})
  /\ O!OvInit /\ (part # "overview" => ovServer = ovList)
  /\ S!NsInit
  /\ G!NgInit /\ (part # "graph" => ngFilter = CHOOSE f \in NgFilters : TRUE)
  /\ M!NmInit
  /\ P!GpInit /\ (part # "paths" => gpLinks = {} /\ gpZero = {} /\ gpMax = 0)
  /\ IF part = "transform" THEN T!TfInit
     ELSE /\ tfView = "graph" /\ tfSettings = [pairs |-> FALSE, force |-> FALSE, direct |-> FALSE]
          /\ tfRecent = {} /\ tfEdges = [e \in TfNodes \X TfNodes |-> T!Absent]
          /\ tfDrawn = FALSE /\ tfGraph = [nodes |-> {}, links |-> {}]

Next ==
  \/ /\ part = "links" /\ L!LkNext
     /\ UNCHANGED <<part, captures, virtual, details, overview, paths, transform, selection, graph, map>>
  \/ /\ part = "captures" /\ C!CpNext
     /\ UNCHANGED <<part, links, virtual, details, overview, paths, transform, selection, graph, map>>
  \/ /\ part = "virtual" /\ V!VnNext
     /\ UNCHANGED <<part, links, captures, details, overview, paths, transform, selection, graph, map>>
  \/ /\ part = "details" /\ D!NdNext
     /\ UNCHANGED <<part, links, captures, virtual, overview, paths, transform, selection, graph, map>>
  \/ /\ part = "overview" /\ O!OvNext
     /\ UNCHANGED <<part, links, captures, virtual, details, paths, transform, selection, graph, map>>
  \/ /\ part = "paths" /\ P!GpNext
     /\ UNCHANGED <<part, links, captures, virtual, details, overview, transform, selection, graph, map>>
  \/ /\ part = "transform" /\ T!TfNext
     /\ UNCHANGED <<part, links, captures, virtual, details, overview, paths, selection, graph, map>>
  \/ /\ part = "selection" /\ S!NsNext
     /\ UNCHANGED <<part, links, captures, virtual, details, overview, paths, transform, graph, map>>
  \/ /\ part = "graph" /\ G!NgNext
     /\ UNCHANGED <<part, links, captures, virtual, details, overview, paths, transform, selection, map>>
  \/ /\ part = "map" /\ M!NmNext
     /\ UNCHANGED <<part, links, captures, virtual, details, overview, paths, transform, selection, graph>>

Spec == Init /\ [][Next]_vars

\* Bounds of the run.  A behaviour in which two changes of the virtual nodes were under way
\* together is followed while every node has its first key; one of the graph, while
\* it has at most three requests in flight.
VirtualBound == part = "virtual" /\ vnMixed => \A n \in VnNodes : vnKeys[n] = 1
GraphBound == part = "graph" => Len(ngFetches) + Len(ngAsks) <= 3

\* The types of the part that is followed.
PanelsTypeOK ==
  CASE part = "links" -> L!LkTypeOK
    [] part = "captures" -> C!CpTypeOK
    [] part = "virtual" -> V!VnTypeOK
    [] part = "details" -> D!NdTypeOK
    [] part = "overview" -> O!OvTypeOK
    [] part = "paths" -> P!GpTypeOK
    [] part = "transform" -> T!TfTypeOK
    [] part = "selection" -> S!NsTypeOK
    [] part = "graph" -> G!NgTypeOK
    [] part = "map" -> M!NmTypeOK

\* What a panel shows without a spinner is of the link, the node, the port and the
\* range chosen at this moment, whatever answers were still on their way when the
\* choice was made; a focus handed to the map waits for the markers, and is that of its
\* timer (not for the map itself: on a page that is still loading the map, the timer
\* uses the focus up and nothing is shown).
ShownIsChosen ==
  /\ part = "links" => L!ShowsSelected /\ L!ShowsFiltered
  /\ part = "details" => D!SectionsTrue /\ D!PortListed
  /\ part = "map" => M!FocusWaitsForMarkers

\* Lists are the server's when nothing is in flight and nothing failed, came late, was
\* skipped or was done by another client (cpTrusted, ovTrusted): a capture whose refresh
\* a stale flag skipped, and statuses that landed out of order, are outside of it.  The
\* guard that lets one load of the overview at a time is never left up.  The private key
\* on display is the one the server holds, if it was not made beside another change
\* (vnMixed); a form saves the identity of its node, if no late suggestion fell into it.
ListsAreServers ==
  /\ part = "captures" => C!CapturesListed
  /\ part = "overview" => O!GuardTellsLoad /\ O!StatusesListed
  /\ part = "virtual" => V!ShownKeyIsCurrent /\ V!EditKeepsIdentity

\* While its list can be trusted (cpTrusted: nothing failed, came late, was skipped or was
\* done by another client since the list was last right) the panel does not ask for a
\* second capture beside one that runs.  Once the refresh after a start was skipped by
\* the flag of a closure it does ask for one: that case is outside of the property.
OneCaptureAtATime == C!OneCaptureAtATime

\* The graph draws who heard whom, the selection is one node or two, the paths
\* highlighted are the routes between them, and once everything was answered the
\* canvas shows the data of the settings and the interfaces chosen.
GraphIsTrue ==
  /\ part = "paths" => P!PathsAreRoutes
  /\ part = "transform" => T!DrawnIsHeard
  /\ part = "selection" => S!SelectionIsPair
  /\ part = "graph" => G!SettledCanvasIsChoice
=============================================================================
