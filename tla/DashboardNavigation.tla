------------------------ MODULE DashboardNavigation -------------------------
(***************************************************************************)
(* The dashboard of the web client: which panel is shown, and how a user   *)
(* who starts an action from the details of a node is brought back to them. *)
(* The address of the page decides the panel; every navigation is computed *)
(* from the address a handler saw when it was rendered, and the address    *)
(* changes later, when the router commits it.  The node to come back to is *)
(* told twice, in the address and in the browser's session storage.        *)
(*                                                                         *)
(* A panel that is left loses its state.  An action stands for a handler   *)
(* and the effects that follow; the load of the node to come back to and   *)
(* the answer of a publication are steps of their own.                     *)
(***************************************************************************)
CONSTANTS
  DnNodes,   \* nodes whose details are shown
  DnActions, \* actions of the buttons: reachability-test, traceroute
  DnTabs     \* tabs: overview, network, actions, and others

None == "none"

VARIABLES
  dnUrl,     \* the committed address
  dnNav,     \* the navigation the router has not committed yet
  dnTab,     \* activeTab: the panel that is mounted
  dnForm,    \* the action whose form the actions panel shows
  dnFocus,   \* pendingFocus of the mounted panel
  dnShown,   \* the node whose details the panel shows
  dnStore,   \* publishing-return-focus in the session storage
  dnSent,    \* the address seen by the handler of a publication in flight
  dnHere,    \* the form of that publication is still mounted
  dnOwed,    \* history: the node, and the panel, to come back to
  dnCrossed  \* history: a navigation was computed from an outdated address or lost to
             \* a reload, or a launch did not wait for the node of the last one

dnVars == <<dnUrl, dnNav, dnTab, dnForm, dnFocus, dnShown, dnStore, dnSent, dnHere, dnOwed, dnCrossed>>
panel == <<dnTab, dnForm, dnFocus, dnShown, dnHere>>

Url(tab, action, returnTab, focus) == [tab |-> tab, action |-> action, returnTab |-> returnTab, focus |-> focus]
NoUrl == Url(None, None, None, None)
Home == Url("overview", None, None, None)
Urls == [tab : DnTabs, action : DnActions \cup {None}, returnTab : DnTabs \cup {None}, focus : DnNodes \cup {None}]

Place(node, tab) == [node |-> node, tab |-> tab]
Nowhere == Place(None, None)
Places == [node : DnNodes \cup {None}, tab : DnTabs \cup {None}]

\* Tabs whose details a launch brings the user back to.
Preserving == {"overview", "network"}

DnTypeOK ==
  /\ dnUrl \in Urls /\ {dnNav, dnSent} \subseteq Urls \cup {NoUrl}
  /\ dnTab \in DnTabs
  /\ dnForm \in DnActions \cup {None}
  /\ dnFocus \in [node : DnNodes \cup {None}, source : {"query", "storage", None}]
  /\ dnShown \in DnNodes \cup {None}
  /\ {dnStore, dnOwed} \subseteq Places
  /\ {dnHere, dnCrossed} \subseteq BOOLEAN

-----------------------------------------------------------------------------
(* The effects of a panel.                                                 *)

NoFocus == [node |-> None, source |-> None]

\* The effect that looks for a node to come back to, in the address and then in
\* the storage; it leaves what is pending as it is when there is none.
FocusFor(tab, url, pending) ==
  IF tab \notin Preserving THEN NoFocus
  ELSE IF url.focus # None THEN [node |-> url.focus, source |-> "query"]
  ELSE IF dnStore'.tab = tab THEN [node |-> dnStore'.node, source |-> "storage"]
  ELSE pending

\* A panel is mounted under the address.
Mounted(tab, url) ==
  /\ dnTab' = tab
  /\ dnForm' = IF tab = "actions" THEN url.action ELSE None
  /\ dnFocus' = FocusFor(tab, url, NoFocus)
  /\ dnShown' = None /\ dnHere' = FALSE

\* The panel stays and the address changes under it.
Readdressed(url) ==
  /\ dnTab' = dnTab
  /\ dnForm' = IF dnTab = "actions" /\ url.action # None THEN url.action ELSE dnForm
  /\ dnFocus' = IF url.focus # dnUrl.focus THEN FocusFor(dnTab, url, dnFocus) ELSE dnFocus
  /\ UNCHANGED <<dnShown, dnHere>>

\* The router takes a navigation computed from a base in the place of any it has
\* not committed; the base is outdated if it is not the latest address (the base
\* of a panel that is gone always is).
Navigate(base, url) ==
  /\ dnNav' = url
  /\ dnCrossed' = (dnCrossed \/ base # IF dnNav = NoUrl THEN dnUrl ELSE dnNav)

-----------------------------------------------------------------------------
\* updateQueryParams
TabUrl(tab) == [dnUrl EXCEPT !.tab = tab, !.returnTab = None, !.action = IF tab = "actions" THEN @ ELSE None]

\* handleTabChange: the clicked panel is mounted, and the effect of the address,
\* which is still the old one, mounts the old panel again.
ClickTab(tab) ==
  /\ Navigate(dnUrl, TabUrl(tab))
  /\ UNCHANGED <<dnUrl, dnStore, dnSent, dnOwed>>
  /\ IF tab = dnTab THEN UNCHANGED panel ELSE Mounted(dnTab, dnUrl)

\* The router commits: another tab mounts its panel.
Commit ==
  /\ dnNav # NoUrl
  /\ dnUrl' = dnNav /\ dnNav' = NoUrl
  /\ UNCHANGED <<dnStore, dnSent, dnOwed, dnCrossed>>
  /\ IF dnNav.tab = dnTab THEN Readdressed(dnNav) ELSE Mounted(dnNav.tab, dnNav)

\* A node of the panel is shown, or its details closed.
ShowNode(n) ==
  /\ dnTab # "actions" /\ dnShown' = n
  /\ UNCHANGED <<dnUrl, dnNav, dnTab, dnForm, dnFocus, dnStore, dnSent, dnHere, dnOwed, dnCrossed>>

\* handleLaunch, the buttons of the details: an address of its own.
Launch(action) ==
  LET origin == dnUrl.tab
      preserve == origin \in Preserving
      place == IF preserve THEN Place(dnShown, origin) ELSE Nowhere
  IN  /\ dnShown # None
      /\ dnNav' = Url("actions", action, origin, IF preserve THEN dnShown ELSE None)
      /\ dnStore' = place /\ dnOwed' = place
      /\ dnCrossed' = (dnCrossed \/ dnFocus # NoFocus)
      /\ UNCHANGED <<dnUrl, panel, dnSent>>

\* A card of the actions panel.
ClickCard(action) ==
  /\ dnTab = "actions" /\ dnForm = None /\ dnForm' = action
  /\ UNCHANGED <<dnUrl, dnNav, dnTab, dnFocus, dnShown, dnStore, dnSent, dnHere, dnOwed, dnCrossed>>

\* clearActionParams, from the address the handler saw
ClearedUrl(base) ==
  [base EXCEPT !.action = None, !.returnTab = None,
               !.tab = IF base.returnTab \in {None, "actions"} THEN @ ELSE base.returnTab]

\* The form closes, and opens again while the address has the action.
FormLeft == IF dnForm = None THEN None ELSE dnUrl.action

\* Cancel, and the arrow.
Cancel ==
  /\ dnForm # None
  /\ dnForm' = FormLeft
  /\ Navigate(dnUrl, ClearedUrl(dnUrl))
  /\ UNCHANGED <<dnUrl, dnTab, dnFocus, dnShown, dnStore, dnSent, dnHere, dnOwed>>

Start ==
  /\ dnForm # None /\ dnSent = NoUrl
  /\ dnSent' = dnUrl /\ dnHere' = TRUE
  /\ UNCHANGED <<dnUrl, dnNav, dnTab, dnForm, dnFocus, dnShown, dnStore, dnOwed, dnCrossed>>

\* The publication is answered: wherever the user is by now, the address becomes
\* the one the form was sent from, without its action.
Sent ==
  /\ dnSent # NoUrl /\ dnSent' = NoUrl
  /\ dnForm' = IF dnHere THEN FormLeft ELSE dnForm
  /\ dnHere' = FALSE
  /\ Navigate(IF dnHere THEN dnSent ELSE NoUrl, ClearedUrl(dnSent))
  /\ UNCHANGED <<dnUrl, dnTab, dnFocus, dnShown, dnStore, dnOwed>>

SendFails ==
  /\ dnSent # NoUrl /\ dnSent' = NoUrl /\ dnHere' = FALSE
  /\ UNCHANGED <<dnUrl, dnNav, dnTab, dnForm, dnFocus, dnShown, dnStore, dnOwed, dnCrossed>>

\* Mutant: the address keeps the node the user came back to
FocusKept == dnUrl

WithoutFocus == [dnUrl EXCEPT !.focus = None]

\* The pending node is loaded and shown, or cannot be; both of its traces go.
FocusDone ==
  /\ dnFocus # NoFocus /\ dnFocus' = NoFocus
  /\ dnShown' \in {dnFocus.node, dnShown}
  /\ IF dnFocus.source = "query" /\ dnUrl.focus # None
       THEN Navigate(dnUrl, WithoutFocus) ELSE UNCHANGED <<dnNav, dnCrossed>>
  /\ dnStore' = Nowhere /\ dnOwed' = Nowhere
  /\ UNCHANGED <<dnUrl, dnTab, dnForm, dnSent, dnHere>>

\* The page is loaded again, or entered anew after a login.
Enter(url) ==
  /\ dnUrl' = url /\ dnNav' = NoUrl /\ dnSent' = NoUrl
  /\ dnCrossed' = (dnCrossed \/ dnNav # NoUrl)
  /\ UNCHANGED <<dnStore, dnOwed>>
  /\ Mounted(url.tab, url)

-----------------------------------------------------------------------------
DnInit ==
  /\ dnUrl = Home /\ dnNav = NoUrl /\ dnTab = "overview" /\ dnForm = None
  /\ dnFocus = NoFocus /\ dnShown = None /\ dnStore = Nowhere
  /\ dnSent = NoUrl /\ dnHere = FALSE /\ dnOwed = Nowhere /\ dnCrossed = FALSE

DnNext ==
  \/ \E tab \in DnTabs : ClickTab(tab)
  \/ \E n \in DnNodes \cup {None} : ShowNode(n)
  \/ \E action \in DnActions : Launch(action) \/ ClickCard(action)
  \/ Commit \/ Cancel \/ Start \/ Sent \/ SendFails \/ FocusDone
  \/ Enter(dnUrl) \/ Enter(Home)

-----------------------------------------------------------------------------
\* Of what a launch owes, a panel shows the owed node and nothing else ...
OwedNodeShown == FocusDone => dnFocus.node = dnOwed.node

\* ... and its panel, once shown under a settled address, does give it back.
OwedIsPending == dnOwed # Nowhere /\ dnOwed.tab = dnTab /\ dnNav = NoUrl => dnFocus.node = dnOwed.node

\* The node a user started an action from is given back when its panel is shown
\* again, and once only: cancelled, sent, or left by another tab, reloaded or not.
\* The two traces are never paid both, unless a navigation was computed from an
\* address that was outdated or lost to a reload, or the next launch did not wait
\* for the node of the last one.
FocusGivenBackOnce == [][~dnCrossed => OwedNodeShown /\ OwedIsPending]_dnVars
=============================================================================
