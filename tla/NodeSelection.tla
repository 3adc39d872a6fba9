--------------------------- MODULE NodeSelection ---------------------------
(***************************************************************************)
(* The selection of one or two nodes of the graph.  A click asks the       *)
(* server for the node and the selection changes only when it answers, so  *)
(* several clicks may be waiting and their answers come in any order; each *)
(* is applied to the selection of that moment.  A node of an interface can *)
(* be clicked but the server does not know it.                             *)
(***************************************************************************)
EXTENDS FiniteSets

CONSTANTS
  NsNodes,    \* nodes the server knows
  NsForeign,  \* nodes of interfaces, that it does not know
  NsSlots     \* bound on requests in flight together

None == "none"

VARIABLES
  nsFirst,   \* selectedNodeId
  nsSecond,  \* secondSelectedNodeId
  nsPending, \* pendingFocus
  nsReq      \* requests in flight: kind, node, and whether its effect is current

nsVars == <<nsFirst, nsSecond, nsPending, nsReq>>

NoRequest == [kind |-> None, node |-> None, active |-> FALSE]
Waiting == {i \in NsSlots : nsReq[i] # NoRequest}

NsInit ==
  /\ nsFirst = None /\ nsSecond = None /\ nsPending = None
  /\ nsReq = [i \in NsSlots |-> NoRequest]

-----------------------------------------------------------------------------
Ask(i, kind, n) ==
  /\ i \in NsSlots \ Waiting
  /\ nsReq' = [nsReq EXCEPT ![i] = [kind |-> kind, node |-> n, active |-> TRUE]]

ClickNode(n) ==
  /\ \E i \in NsSlots : Ask(i, "click", n)
  /\ UNCHANGED <<nsFirst, nsSecond, nsPending>>

\* A node given by the address or the store is selected alone; the effect runs
\* again, and gives up what it began, when another is given or the address changes.
FocusOn(n) ==
  /\ nsPending' = n
  /\ \E i \in NsSlots \ Waiting :
       nsReq' = [j \in NsSlots |-> IF j = i THEN [kind |-> "focus", node |-> n, active |-> TRUE]
                                   ELSE IF nsReq[j].kind = "focus" THEN [nsReq[j] EXCEPT !.active = FALSE]
                                   ELSE nsReq[j]]
  /\ UNCHANGED <<nsFirst, nsSecond>>

\* Mutant: the first node clicked again is not told from another
SecondOf(first, second, n) ==
  IF first = None THEN <<n, None>>
  ELSE IF second = n THEN <<first, None>>
  ELSE <<first, n>>
\* First node; the same again clears; else second node, its removal, or its replacement.
Chosen(first, second, n) ==
  IF first = None THEN <<n, None>>
  ELSE IF first = n THEN <<None, None>>
  ELSE IF second = n THEN <<first, None>>
  ELSE <<first, n>>

\* Mutant: the node is selected though the server does not know it
ClickTaken(i) ==
  /\ nsReq[i].kind = "click"
  /\ nsFirst' = Chosen(nsFirst, nsSecond, nsReq[i].node)[1]
  /\ nsSecond' = Chosen(nsFirst, nsSecond, nsReq[i].node)[2]
  /\ nsReq' = [nsReq EXCEPT ![i] = NoRequest]
  /\ UNCHANGED nsPending

ClickAnswered(i) ==
  /\ nsReq[i].kind = "click" /\ nsReq[i].node \in NsNodes
  /\ nsFirst' = Chosen(nsFirst, nsSecond, nsReq[i].node)[1]
  /\ nsSecond' = Chosen(nsFirst, nsSecond, nsReq[i].node)[2]
  /\ nsReq' = [nsReq EXCEPT ![i] = NoRequest]
  /\ UNCHANGED nsPending

\* selectNodeById does not ask whether its effect is current.
FocusAnswered(i) ==
  /\ nsReq[i].kind = "focus" /\ nsReq[i].node \in NsNodes
  /\ nsFirst' = nsReq[i].node /\ nsSecond' = None
  /\ nsPending' = IF nsReq[i].active THEN None ELSE nsPending
  /\ nsReq' = [nsReq EXCEPT ![i] = NoRequest]

AskFails(i) ==
  /\ i \in Waiting
  /\ nsPending' = IF nsReq[i].kind = "focus" /\ nsReq[i].active THEN None ELSE nsPending
  /\ nsReq' = [nsReq EXCEPT ![i] = NoRequest]
  /\ UNCHANGED <<nsFirst, nsSecond>>

\* The background, or the × of a panel.
ClearSelection ==
  /\ nsFirst # None /\ nsFirst' = None /\ nsSecond' = None
  /\ UNCHANGED <<nsPending, nsReq>>

\* Offered by the panel of paths, which two selected nodes show.
SwapNodes ==
  /\ nsFirst # None /\ nsSecond # None
  /\ nsFirst' = nsSecond /\ nsSecond' = nsFirst
  /\ UNCHANGED <<nsPending, nsReq>>

NsNext ==
  \/ \E n \in NsNodes \cup NsForeign : ClickNode(n) \/ FocusOn(n)
  \/ \E i \in NsSlots : ClickAnswered(i) \/ FocusAnswered(i) \/ AskFails(i)
  \/ ClearSelection \/ SwapNodes

-----------------------------------------------------------------------------
NsTypeOK ==
  /\ {nsFirst, nsSecond} \subseteq NsNodes \cup {None}
  /\ nsPending \in NsNodes \cup NsForeign \cup {None}
  /\ \A i \in NsSlots : nsReq[i] = NoRequest \/
       nsReq[i] \in [kind : {"click", "focus"}, node : NsNodes \cup NsForeign, active : BOOLEAN]

\* However answers come, there is no second node without a first and the two differ:
\* paths are sought between them, and a search from a node to itself finds none.
\* A focus that is pending has a request of its own, which ends it.
SelectionIsPair ==
  /\ nsSecond # None => nsFirst # None /\ nsFirst # nsSecond
  /\ nsPending # None => \E i \in NsSlots : nsReq[i] = [kind |-> "focus", node |-> nsPending, active |-> TRUE]
=============================================================================
