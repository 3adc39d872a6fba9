--------------------------- MODULE GraphTransform ---------------------------
(***************************************************************************)
(* transformNetworkData: from the nodes and edges the server tells to what *)
(* the graph and the map draw.  An edge between two nodes becomes a link,  *)
(* or a chain of links over hidden nodes when its packets came over        *)
(* several hops (the map draws it as one link besides); an edge from a     *)
(* node to itself says that the node was heard over MQTT.                  *)
(*                                                                         *)
(* Of an edge only what decides is kept: whether its signal is zero (heard *)
(* over MQTT), its hops, and whether it lies in the chosen time range.     *)
(* Colours, widths and distances of links are left out; of an edge from a  *)
(* node to itself only whether it is there and in range is read.           *)
(***************************************************************************)
EXTENDS Integers, Sequences

CONSTANTS
  TfNodes,   \* nodes the server tells
  MaxEdgeHops\* bound on the hops of an edge

Absent == [there |-> FALSE, mqtt |-> FALSE, hops |-> 0, recent |-> FALSE]
Heard == {e \in [there : {TRUE}, mqtt : BOOLEAN, hops : 0 .. MaxEdgeHops, recent : BOOLEAN] :
            e.mqtt => e.hops = 0}
Broker == <<"mqtt_broker">>
Pairs == TfNodes \X TfNodes

VARIABLES
  tfView,     \* "graph" or "map"
  tfSettings, \* showBidirectionalOnly, forceBidirectional, excludeMultiHop
  tfRecent,   \* the nodes within the time range
  tfEdges,    \* the edge from one node to another
  tfDrawn,    \* the transformation was applied
  tfGraph     \* its nodes and links

tfVars == <<tfView, tfSettings, tfRecent, tfEdges, tfDrawn, tfGraph>>

\* The topology asks for no broker and may force links; the map does the reverse.
TfInit ==
  /\ tfEdges \in [Pairs -> {Absent} \cup Heard]
  /\ \A n \in TfNodes : tfEdges[<<n, n>>] = Absent \/ tfEdges[<<n, n>>].mqtt
  /\ tfView \in {"graph", "map"}
  /\ tfSettings \in [pairs : BOOLEAN, force : BOOLEAN, direct : BOOLEAN]
  /\ tfView = "map" => ~tfSettings.force
  /\ tfRecent \in SUBSET TfNodes
  /\ tfDrawn = FALSE /\ tfGraph = [nodes |-> {}, links |-> {}]

Swap(e) == <<e[2], e[1]>>

-----------------------------------------------------------------------------
InRange(e) == tfEdges[e].there /\ tfEdges[e].recent /\ {e[1], e[2]} \subseteq tfRecent

\* Nodes that were heard over MQTT within the range.
SelfDirected == {n \in TfNodes : InRange(<<n, n>>)}

Filtered ==
  LET kept == {e \in Pairs : e[1] # e[2] /\ InRange(e)}
  IN  IF tfSettings.pairs THEN {e \in kept : Swap(e) \in kept} ELSE kept

\* Every edge to draw, with what is known of it.  An assumed reverse has no signal.
Edges ==
  [e \in Filtered \cup (IF tfSettings.force THEN {Swap(f) : f \in Filtered} ELSE {}) |->
     IF e \in Filtered THEN tfEdges[e] ELSE [tfEdges[Swap(e)] EXCEPT !.mqtt = TRUE]]

\* Edges without a signal are left out, and those over several hops on demand.
Drawn == {e \in DOMAIN Edges : ~Edges[e].mqtt /\ (tfSettings.direct => Edges[e].hops = 0)}

\* Mutant: the names of hidden nodes begin anew with each edge
HiddenAnew(e, i) == <<"hidden", "", "", i>>
\* hiddenNodeCounter names the hidden nodes of an edge apart from all others.
Hidden(e, i) == <<"hidden", e[1], e[2], i>>

Chain(e) ==
  LET n == Edges[e].hops
      at(i) == IF i = 0 THEN <<e[1]>> ELSE IF i = n + 1 THEN <<e[2]>> ELSE Hidden(e, i)
  IN  {[from |-> at(i), to |-> at(i + 1), hops |-> 0, segment |-> n > 0] : i \in 0 .. n}

Whole(e) == [from |-> <<e[1]>>, to |-> <<e[2]>>, hops |-> Edges[e].hops, segment |-> FALSE]

BrokerLinks ==
  {[from |-> <<n>>, to |-> Broker, hops |-> 1, segment |-> FALSE] : n \in SelfDirected}
    \cup {[from |-> Broker, to |-> <<n>>, hops |-> 1, segment |-> FALSE] : n \in SelfDirected}

Transform ==
  /\ ~tfDrawn /\ tfDrawn' = TRUE
  /\ tfGraph' =
       [nodes |-> {<<n>> : n \in tfRecent}
                    \cup (UNION {{Hidden(e, i) : i \in 1 .. Edges[e].hops} : e \in Drawn})
                    \cup (IF tfView = "map" /\ SelfDirected # {} THEN {Broker} ELSE {}),
        links |-> (UNION {Chain(e) : e \in Drawn})
                    \cup (IF tfView = "map" THEN {Whole(e) : e \in Drawn} \cup BrokerLinks ELSE {})]
  /\ UNCHANGED <<tfView, tfSettings, tfRecent, tfEdges>>

TfNext == Transform

TfSpec == TfInit /\ [][TfNext]_tfVars

-----------------------------------------------------------------------------

\* The links the map shows for its setting of hops (visibleLinks): links of the
\* broker, of hidden nodes and those over more hops are left out.
Visible(maxHops) ==
  {l \in tfGraph.links :
     /\ tfSettings.pairs => \E r \in tfGraph.links : r.from = l.to /\ r.to = l.from
     /\ Broker \notin {l.from, l.to} /\ ~l.segment /\ l.hops <= maxHops}

HiddenNodes == {n \in tfGraph.nodes : Len(n) = 4}
Ways(from, to) ==
  {w \in UNION {{<<from>> \o inner \o <<to>> : inner \in [1 .. k -> HiddenNodes]} : k \in 0 .. MaxEdgeHops} :
     \A i \in 1 .. Len(w) - 1 : \E l \in tfGraph.links : l.from = w[i] /\ l.to = w[i + 1]}

\* Stated on what the server told: a was heard by b over the air, lately, and as asked.
HeardBy(a, b) ==
  LET there(x, y) == tfEdges[<<x, y>>].there /\ tfEdges[<<x, y>>].recent
  IN  /\ {a, b} \subseteq tfRecent /\ there(a, b) /\ ~tfEdges[<<a, b>>].mqtt
      /\ tfSettings.direct => tfEdges[<<a, b>>].hops = 0
      /\ tfSettings.pairs => there(b, a)

\* Two nodes are joined in the drawing exactly when one heard the other, and by one
\* chain of its own: no hidden node is shared by two edges, no link hangs in the air,
\* and what the map shows of it passes no more hops than asked for.
DrawnIsHeard ==
  tfDrawn =>
    /\ \A l \in tfGraph.links : {l.from, l.to} \subseteq tfGraph.nodes
    /\ \A a, b \in TfNodes : a # b =>
         /\ HeardBy(a, b) = (Ways(<<a>>, <<b>>) # {})
         /\ tfView = "graph" => \A v, w \in Ways(<<a>>, <<b>>) : v = w
    /\ \A h \in HiddenNodes : \E in, out \in tfGraph.links :
         /\ {l \in tfGraph.links : l.to = h} = {in}
         /\ {l \in tfGraph.links : l.from = h} = {out}
    /\ \A m \in 0 .. MaxEdgeHops : \A l \in Visible(m) :
         \E a, b \in TfNodes : l.from = <<a>> /\ l.to = <<b>> /\ tfEdges[<<a, b>>].hops <= m

\* "Create reverse links if forceBidirectional is enabled" (networkTransforms.ts:203).
AssumedLinksDrawn ==
  tfDrawn /\ tfSettings.force =>
    \A a, b \in TfNodes : Ways(<<a>>, <<b>>) # {} => Ways(<<b>>, <<a>>) # {}

TfTypeOK ==
  /\ tfGraph.nodes \subseteq {<<n>> : n \in tfRecent} \cup {Broker} \cup
                             {Hidden(e, i) : e \in Pairs, i \in 1 .. MaxEdgeHops}
  /\ tfGraph.links \subseteq [from : tfGraph.nodes, to : tfGraph.nodes, hops : 0 .. MaxEdgeHops \cup {1},
                              segment : BOOLEAN]
=============================================================================
