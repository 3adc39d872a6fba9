----------------------------- MODULE OneShotForm ----------------------------
(***************************************************************************)
(* The form of the one-shot publications of the web client: the action,    *)
(* the source and what the form says about it, the target.  The lists of    *)
(* nodes arrive once per visit; the defaults come from the browser's        *)
(* storage; the action and the target may come with the address of the      *)
(* page, whose effect runs again whenever the form or the lists change.     *)
(*                                                                         *)
(* An action of this module is a handler together with the effects that    *)
(* follow its render, up to the render that changes nothing.  The gateway  *)
(* is kept as the source is; the channel is in ChannelFields.              *)
(***************************************************************************)
EXTENDS Naturals, FiniteSets

CONSTANTS
  OsActions, \* one-shot actions followed
  Nodes,     \* nodes of the network
  Foreign,   \* names typed that are no node's
  Selectable,\* nodes the server lets a client publish from
  Telling,   \* nodes with a hardware model, a position and metrics
  MaxSends   \* bound on publications in flight

None == "none"
Unset == ""
TypedIn == "typed"

Detailed == {"nodeinfo", "position", "telemetry-publish"} \cap OsActions
Addresses == [action : OsActions, target : Nodes] \cup {[action |-> None, target |-> Unset]}
NoAddress == [action |-> None, target |-> Unset]
Whose == Nodes \cup {Unset, TypedIn}

VARIABLES
  osAction,  \* selectedAction, with isConfiguring
  osSource,  \* sourceNode
  osObj,     \* selectedSourceNodeObj
  osTarget,  \* targetNode
  osAck,     \* wantAck
  osNames,   \* whose names and public key the node-info fields hold
  osValues,  \* of each detailed action, whose hardware model, position or metrics
  osListed,  \* the nodes have arrived
  osSelect,  \* selectableNodes
  osAddress, \* the page's address
  osClearing,\* the address is being replaced by one without action
  osSending, \* publications in flight
  osStored,  \* the defaults in the browser's storage
  osTyped    \* history: a name was typed over since it was last filled in

osVars == <<osAction, osSource, osObj, osTarget, osAck, osNames, osValues, osListed, osSelect,
            osAddress, osClearing, osSending, osStored, osTyped>>
lists == <<osListed, osSelect>>
address == <<osAddress, osClearing>>
details == <<osNames, osValues, osTyped>>

OsTypeOK ==
  /\ osAction \in OsActions \cup {None}
  /\ osSource \in Nodes \cup Foreign \cup {Unset} /\ osObj \in Nodes \cup {Unset}
  /\ osTarget \in Nodes \cup Foreign \cup {Unset}
  /\ osNames \in Whose /\ osValues \in [Detailed -> Whose]
  /\ osSelect \subseteq Nodes /\ osAddress \in Addresses /\ osSending \in 0..MaxSends
  /\ osStored \in [source : Nodes \cup Foreign \cup {Unset}, ack : BOOLEAN]
  /\ {osAck, osListed, osClearing, osTyped} \subseteq BOOLEAN

-----------------------------------------------------------------------------
(* The effects.                                                            *)

\* isVirtualRestrictionActive
Restricting(listed, select) == listed /\ select # {} /\ Cardinality(select) < Cardinality(Nodes)

\* Mutant: the restriction is looked at when the lists arrive and not when a name is typed
AllowedOnArrival(source, listed, select) ==
  IF Restricting(listed, select) /\ ~osListed /\ source \notin select THEN Unset ELSE source

\* The effect of the restriction: a source, or gateway, that is not on the list is emptied.
Allowed(source, listed, select) ==
  IF Restricting(listed, select) /\ source \notin select THEN Unset ELSE source

\* The node a source names, or the one the handler set; none after a restriction.
ObjectOf(source, obj, listed, select) ==
  IF Allowed(source, listed, select) # source THEN Unset
  ELSE IF source \in Nodes /\ listed THEN source ELSE obj

\* Mutant: the fields are filled in when the node changes and not when the action does
FilledByNode(asked, action, obj) == obj # Unset /\ obj # osObj

\* The effect of filling in what is known of the node runs when the node or the
\* action changes, to the one asked for or on to that of the address.
FilledIn(asked, action, obj) == obj # Unset /\ (obj # osObj \/ asked # osAction \/ action # asked)

Details(asked, action, obj) ==
  LET fill == FilledIn(asked, action, obj) IN
  /\ osNames' = IF fill /\ action = "nodeinfo" THEN obj ELSE osNames
  /\ osTyped' = (osTyped /\ ~(fill /\ action = "nodeinfo"))
  /\ osValues' = [a \in Detailed |-> IF fill /\ a = action /\ obj \in Telling THEN obj ELSE osValues[a]]

\* What the form is after a step that makes its fields these.
Settled(action, source, obj, target, ack, listed, select) ==
  LET wanted == IF osAddress'.action = None THEN action ELSE osAddress'.action
      told == osAddress'.action # None /\
              (wanted # osAction \/ wanted # action \/ ack # osAck \/ listed # osListed \/ osAddress' # osAddress)
      acked == ack \/ (osAddress'.action # None /\ wanted = "reachability-test")
      from == Allowed(source, listed, select)
      node == ObjectOf(source, obj, listed, select)
  IN  /\ osAction' = wanted
      /\ osTarget' = IF told THEN osAddress'.target ELSE target
      /\ osAck' = acked
      /\ osSource' = from /\ osObj' = node
      /\ osListed' = listed /\ osSelect' = select
      /\ osStored' = [source |-> from, ack |-> acked]
      /\ Details(action, wanted, node)

-----------------------------------------------------------------------------
(* The handlers.                                                           *)

\* The lists arrive; a server that tells of no selectable nodes allows all.
ListsArrive ==
  /\ ~osListed
  /\ \E answer \in {Selectable, {}} :
       /\ osAddress' = osAddress
       /\ Settled(osAction, osSource, osObj, osTarget, osAck, TRUE, IF answer = {} THEN Nodes ELSE answer)
  /\ UNCHANGED <<osClearing, osSending>>

\* A card of the page.
ClickAction(a) ==
  /\ osAction = None /\ osAddress' = osAddress
  /\ Settled(a, osSource, osObj, osTarget, osAck \/ a = "reachability-test", osListed, osSelect)
  /\ UNCHANGED <<osClearing, osSending>>

Configuring == osAction # None

TypeSource(n) ==
  /\ Configuring /\ n # osSource /\ osAddress' = osAddress
  /\ Settled(osAction, n, Unset, osTarget, osAck, osListed, osSelect)
  /\ UNCHANGED <<osClearing, osSending>>

\* A suggestion: the nodes that may be selected.
ChooseSource(n) ==
  /\ Configuring /\ n \in osSelect /\ osAddress' = osAddress
  /\ Settled(osAction, n, n, osTarget, osAck, osListed, osSelect)
  /\ UNCHANGED <<osClearing, osSending>>

TypeTarget(n) ==
  /\ Configuring /\ osAddress' = osAddress
  /\ Settled(osAction, osSource, osObj, n, osAck, osListed, osSelect)
  /\ UNCHANGED <<osClearing, osSending>>

\* A reachability test always asks for an acknowledgement.
ToggleAck ==
  /\ Configuring /\ osAction # "reachability-test" /\ osAddress' = osAddress
  /\ Settled(osAction, osSource, osObj, osTarget, ~osAck, osListed, osSelect)
  /\ UNCHANGED <<osClearing, osSending>>

\* The names, the hardware model, the coordinates and the metrics typed by hand.
TypeNames ==
  /\ osAction = "nodeinfo"
  /\ osNames' = TypedIn /\ osTyped' = TRUE
  /\ UNCHANGED <<osAction, osSource, osObj, osTarget, osAck, osValues, lists, address, osSending, osStored>>

TypeValues ==
  /\ osAction \in Detailed
  /\ osValues' = [osValues EXCEPT ![osAction] = TypedIn]
  /\ UNCHANGED <<osAction, osSource, osObj, osTarget, osAck, osNames, osTyped, lists, address, osSending, osStored>>

\* Cancel, the arrow, and the answer of a publication: the form closes and the
\* address is replaced.  The address of the moment opens it again.
Leave ==
  /\ osAddress' = osAddress
  /\ osClearing' = TRUE
  /\ Settled(None, osSource, osObj, osTarget, osAck, osListed, osSelect)

CancelAction == Configuring /\ Leave /\ UNCHANGED osSending

\* handleStartAction: a form that is not complete gets a toast.  Nothing keeps
\* the button from a second click.
StartAction ==
  /\ Configuring /\ osSending < MaxSends
  /\ osAction = "nodeinfo" => osNames # Unset /\ osValues[osAction] # Unset
  /\ osAction \in Detailed => osValues[osAction] # Unset
  /\ osSending' = osSending + 1
  /\ UNCHANGED <<osAction, osSource, osObj, osTarget, osAck, details, lists, address, osStored>>

\* Its answer closes whatever form is open; an error is a toast.
SendSucceeds == osSending > 0 /\ osSending' = osSending - 1 /\ Leave
SendFails ==
  /\ osSending > 0 /\ osSending' = osSending - 1
  /\ UNCHANGED <<osAction, osSource, osObj, osTarget, osAck, details, lists, address, osStored>>

\* The new address: without the action.  The form is what it was.
AddressCleared ==
  /\ osClearing /\ osClearing' = FALSE
  /\ osAddress' = NoAddress
  /\ Settled(osAction, osSource, osObj, osTarget, osAck, osListed, osSelect)
  /\ UNCHANGED osSending

\* The page is visited: by its tab, or from a button of a node.
Visited(stored, url) ==
  LET reach == url.action = "reachability-test" IN
  /\ osAddress' = url /\ osClearing' = FALSE
  /\ osAction' = url.action
  /\ osTarget' = url.target
  /\ osSource' = stored.source /\ osObj' = Unset
  /\ osAck' = (stored.ack \/ reach)
  /\ osNames' = Unset /\ osValues' = [a \in Detailed |-> Unset] /\ osTyped' = FALSE
  /\ osListed' = FALSE /\ osSelect' = {} /\ osSending' = 0
  /\ osStored' = [source |-> stored.source, ack |-> stored.ack \/ reach]

Visit(url) == Visited(osStored, url)

-----------------------------------------------------------------------------
OsInit ==
  /\ osAction = None /\ osSource = Unset /\ osObj = Unset /\ osTarget = Unset /\ osAck = FALSE
  /\ osNames = Unset /\ osValues = [a \in Detailed |-> Unset] /\ osTyped = FALSE
  /\ osListed = FALSE /\ osSelect = {} /\ osAddress = NoAddress /\ osClearing = FALSE
  /\ osSending = 0 /\ osStored = [source |-> Unset, ack |-> FALSE]

OsNext ==
  \/ ListsArrive \/ ToggleAck \/ TypeNames \/ TypeValues
  \/ \E a \in OsActions : ClickAction(a)
  \/ \E n \in Nodes \cup Foreign \cup {Unset} : TypeSource(n) \/ TypeTarget(n)
  \/ \E n \in Nodes : ChooseSource(n)
  \/ CancelAction \/ StartAction \/ SendSucceeds \/ SendFails \/ AddressCleared
  \/ \E url \in Addresses : Visit(url)

-----------------------------------------------------------------------------
\* Once the nodes are known a form never holds a source the server would not
\* publish from, if it restricts any: whether the name was typed, chosen, stored
\* by an earlier visit, or there before the lists.
SourceAllowed == Restricting(osListed, osSelect) => osSource \in osSelect \cup {Unset}

\* The names of a node-info form are those of the node it is sent from, unless
\* somebody typed others since they were filled in: in whatever order the action,
\* the source and the lists came.
NamesOfSource ==
  osAction = "nodeinfo" /\ osListed /\ osSource \in Nodes /\ ~osTyped => osNames = osSource
=============================================================================
