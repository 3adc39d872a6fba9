----------------------------- MODULE GraphPaths -----------------------------
(***************************************************************************)
(* What the graph view highlights: with one node selected the nodes and    *)
(* links within reach of it, with two the paths from the first to the      *)
(* second.  Both are breadth-first searches over simple directed paths; an *)
(* action is one turn of the loop of a search.  Nodes of an interface are  *)
(* not counted as hops.                                                    *)
(*                                                                         *)
(* The neighbours of a node come in the order of the links, which may be   *)
(* any.                                                                    *)
(***************************************************************************)
EXTENDS Integers, Sequences, FiniteSets, SequencesExt

CONSTANTS
  Start,     \* the node selected first
  Goal,      \* the node selected second
  Between,   \* the other nodes
  Uncounted, \* those of them that may be interfaces
  HopLimits, \* values of the control "Max Hops"
  PathLimit  \* bound: maxPaths, 100 in the code

GpNodes == {Start, Goal} \cup Between

VARIABLES
  gpLinks, \* the directed links of the graph
  gpZero,  \* zeroHopNodes
  gpMax,   \* maxHops
  gpStep,  \* which search runs: "reach", "paths", or "done"
  gpQueue, \* queue: paths to extend
  gpSeen,  \* visited: paths extended
  gpNear,  \* reachableNodesFromSelected and reachableLinksFromSelected
  gpPaths  \* pathsBetweenNodes

gpVars == <<gpLinks, gpZero, gpMax, gpStep, gpQueue, gpSeen, gpNear, gpPaths>>

Steps(p) == {<<p[i], p[i + 1]>> : i \in 1 .. Len(p) - 1}

GpTypeOK ==
  /\ gpLinks \subseteq GpNodes \X GpNodes /\ gpZero \subseteq Uncounted /\ gpMax \in HopLimits
  /\ gpStep \in {"reach", "paths", "done"}
  /\ gpQueue \in Seq(Seq(GpNodes)) /\ gpSeen \subseteq Seq(GpNodes)
  /\ gpNear.nodes \subseteq GpNodes /\ gpNear.links \subseteq gpLinks
  /\ gpPaths \in Seq(Seq(GpNodes)) /\ Len(gpPaths) <= PathLimit

GpInit ==
  /\ gpLinks \in SUBSET {l \in ({Start} \cup Between) \X (Between \cup {Goal}) : l[1] # l[2]}
  /\ gpZero \in SUBSET Uncounted /\ gpMax \in HopLimits
  /\ gpStep = "reach" /\ gpQueue = <<<<Start>>>> /\ gpSeen = {}
  /\ gpNear = [nodes |-> {}, links |-> {}] /\ gpPaths = <<>>

-----------------------------------------------------------------------------
Neighbours(n) == {m \in GpNodes : <<n, m>> \in gpLinks}

\* The nodes between the ends of a path that count.  (HopsToEnd: the last node is counted too.)
HopsToEnd(p) == Cardinality({i \in 2 .. Len(p) : p[i] \notin gpZero})
Hops(p) == Cardinality({i \in 2 .. Len(p) - 1 : p[i] \notin gpZero})

Extensions(p) == {Append(p, m) : m \in Neighbours(p[Len(p)]) \ ToSet(p)}

Extend(p) ==
  /\ gpSeen' = gpSeen \cup {p}
  /\ \E more \in SetToSeqs(Extensions(p)) : gpQueue' = Tail(gpQueue) \o more

Drop == gpQueue' = Tail(gpQueue) /\ UNCHANGED gpSeen

\* findReachableNodes and findReachableLinks are the same search.
ReachStep ==
  /\ gpStep = "reach" /\ gpQueue # <<>>
  /\ LET p == Head(gpQueue) IN
       \/ Hops(p) > gpMax /\ Drop
       \/ Hops(p) <= gpMax /\ Extend(p)
  /\ UNCHANGED <<gpLinks, gpZero, gpMax, gpStep, gpNear, gpPaths>>

ReachDone ==
  /\ gpStep = "reach" /\ gpQueue = <<>>
  /\ gpNear' = [nodes |-> UNION {ToSet(p) : p \in gpSeen}, links |-> UNION {Steps(p) : p \in gpSeen}]
  /\ gpStep' = "paths" /\ gpQueue' = <<<<Start>>>> /\ gpSeen' = {}
  /\ UNCHANGED <<gpLinks, gpZero, gpMax, gpPaths>>

PathStep ==
  /\ gpStep = "paths" /\ gpQueue # <<>> /\ Len(gpPaths) < PathLimit
  /\ LET p == Head(gpQueue) IN
       \/ p[Len(p)] = Goal /\ gpPaths' = Append(gpPaths, p) /\ Drop
       \/ p[Len(p)] # Goal /\ Hops(p) >= gpMax /\ Drop /\ UNCHANGED gpPaths
       \/ p[Len(p)] # Goal /\ Hops(p) < gpMax /\ Extend(p) /\ UNCHANGED gpPaths
  /\ UNCHANGED <<gpLinks, gpZero, gpMax, gpStep, gpNear>>

\* The number that comes i-th in a set of numbers.
Nth(numbers, i) == CHOOSE n \in numbers : Cardinality({m \in numbers : m < n}) = i - 1

\* The paths are checked against the links once more when the search is over, and
\* those that pass keep their order.
PathDone ==
  /\ gpStep = "paths" /\ (gpQueue = <<>> \/ Len(gpPaths) = PathLimit)
  /\ LET valid == {n \in 1 .. Len(gpPaths) : Steps(gpPaths[n]) \subseteq gpLinks}
     IN  gpPaths' = [i \in 1 .. Cardinality(valid) |-> gpPaths[Nth(valid, i)]]
  /\ gpStep' = "done" /\ gpQueue' = <<>> /\ gpSeen' = {}
  /\ UNCHANGED <<gpLinks, gpZero, gpMax, gpNear>>

GpNext == ReachStep \/ ReachDone \/ PathStep \/ PathDone

GpSpec == GpInit /\ [][GpNext]_gpVars

-----------------------------------------------------------------------------
\* The simple directed paths from the first node to the second, and how many
\* counted nodes a path passes: stated without the search.
Routes ==
  {r \in {<<Start>> \o m \o <<Goal>> : m \in SetToAllKPermutations(Between)} : Steps(r) \subseteq gpLinks}
Passed(r) == Cardinality(ToSet(r) \ (gpZero \cup {Start, Goal}))

\* What is found is shortest first, within the limit of hops and drawn on links
\* that the single selection highlights too; and unless it is cut at maxPaths,
\* no route of at most maxHops nodes is missed.  (findPathsBetweenNodes stops at
\* currentHops >= maxHops, the other two at currentHops > maxHops.)
PathsAreRoutes ==
  gpStep = "done" =>
    /\ ToSet(gpPaths) \subseteq {r \in Routes : Passed(r) <= gpMax}
    /\ \A i \in 1 .. Len(gpPaths) - 1 : Len(gpPaths[i]) <= Len(gpPaths[i + 1])
    /\ \A p \in ToSet(gpPaths) : ToSet(p) \subseteq gpNear.nodes /\ Steps(p) \subseteq gpNear.links
    /\ Len(gpPaths) < PathLimit /\ gpMax > 0 =>
         {r \in Routes : Len(r) - 2 <= gpMax} \subseteq ToSet(gpPaths)

\* A node in reach of the first is reached by a path when it is selected second:
\* an interface does not count toward the limit.  (pathFinding.test.ts:20 says
\* "treats zero-hop nodes as not counting toward hop limit".)
InterfacesCostNothing ==
  gpStep = "done" /\ gpMax > 0 /\ Goal \in gpNear.nodes => gpPaths # <<>>
=============================================================================
