----------------------------- MODULE NetworkMap -----------------------------
(***************************************************************************)
(* The map of the web client: markers for the nodes whose coordinates are  *)
(* known, a selected one, and the focus another view hands over.  The      *)
(* focus lives in a context above the tabs; on the map a timer of 500 ms   *)
(* applies it, and begins anew whenever the markers change.  The map       *)
(* itself is a chunk of the page that is loaded when it is first opened:   *)
(* until it is here there is no map to fly on and no marker to click, but  *)
(* the timer does not wait for it.                                         *)
(*                                                                         *)
(* Of the data a node's coordinates are kept: unknown, zero, or other.     *)
(* GraphTransform models the links.                                        *)
(***************************************************************************)
EXTENDS Integers, FiniteSets

CONSTANTS
  NmNodes, \* nodes
  MaxLoads \* bound on fetches in flight together

None == "none"

VARIABLES
  nmShown,    \* the map's tab is open
  nmChunk,    \* the map's code: not asked for, on its way, or here
  nmData,     \* graphData: the coordinates of the nodes told
  nmLoading,  \* isLoading
  nmLoads,    \* fetches in flight
  nmFocused,  \* focusedNodeId
  nmShould,   \* shouldFocusOnLoad
  nmTimer,    \* the node the timer was set for
  nmSelected, \* selectedNode
  nmView      \* where the map was flown to last

nmVars ==
  <<nmShown, nmChunk, nmData, nmLoading, nmLoads, nmFocused, nmShould, nmTimer, nmSelected, nmView>>

NoData == [n \in NmNodes |-> "unknown"]
Answers == [NmNodes -> {"unknown", "zero", "other"}]

NmTypeOK ==
  /\ {nmShown, nmLoading, nmShould} \subseteq BOOLEAN /\ nmData \in Answers
  /\ nmChunk \in {"unasked", "coming", "here"}
  /\ nmLoads \in 0 .. MaxLoads
  /\ {nmFocused, nmTimer, nmSelected, nmView} \subseteq NmNodes \cup {None}

NmInit ==
  /\ nmShown = FALSE /\ nmChunk = "unasked" /\ nmData = NoData /\ nmLoading = FALSE /\ nmLoads = 0
  /\ nmFocused = None /\ nmShould = FALSE /\ nmTimer = None /\ nmSelected = None /\ nmView = None

-----------------------------------------------------------------------------
\* A coordinate of zero counts as none.
Positioned(data) == {n \in NmNodes : data[n] = "other"}

\* Mutant: the timer is set when the map opens, whatever it shows
TimerAtOnce(shown, should, focused, data) == IF shown /\ should THEN focused ELSE None
\* The effect: a timer for the focus handed over, once there are markers.
TimerFor(shown, should, focused, data) ==
  IF shown /\ should /\ Positioned(data) # {} THEN focused ELSE None

\* The effect, cleaned up and run again, after a step that changes what it depends on.
Rerun == nmTimer' = TimerFor(nmShown', nmShould', nmFocused', nmData')

\* mapRef.current is set.
Mounted == nmShown /\ nmChunk = "here"

\* Another number of markers makes another map, which is not where the last was flown to.
Remount ==
  nmView' = IF Cardinality(Positioned(nmData')) = Cardinality(Positioned(nmData)) THEN nmView ELSE None

\* The map is opened, by the panel of a node with that node to focus on, or from the menu.
OpenMap(n) ==
  /\ ~nmShown /\ nmShown' = TRUE
  /\ nmChunk' = IF nmChunk = "unasked" THEN "coming" ELSE nmChunk
  /\ nmFocused' = (IF n = None THEN nmFocused ELSE n) /\ nmShould' = (nmShould \/ n # None)
  /\ nmData' = NoData /\ nmLoading' = TRUE /\ nmLoads' = 1
  /\ nmSelected' = None /\ nmView' = None /\ Rerun

\* The page keeps the chunk, whatever tab is open when it comes.
ChunkLoads ==
  /\ nmChunk = "coming" /\ nmChunk' = "here"
  /\ UNCHANGED <<nmShown, nmData, nmLoading, nmLoads, nmFocused, nmShould, nmTimer, nmSelected, nmView>>

\* Another tab: the context keeps the focus.
LeaveMap ==
  /\ nmShown /\ nmShown' = FALSE
  /\ nmLoads' = 0 /\ nmLoading' = FALSE /\ nmData' = NoData /\ nmSelected' = None /\ nmView' = None
  /\ UNCHANGED <<nmChunk, nmFocused, nmShould>> /\ Rerun

\* handleRefresh, from the button or every 60 s.
Refresh ==
  /\ nmShown /\ ~nmLoading /\ nmLoads < MaxLoads
  /\ nmLoading' = TRUE /\ nmLoads' = nmLoads + 1
  /\ UNCHANGED <<nmShown, nmChunk, nmData, nmFocused, nmShould, nmTimer, nmSelected, nmView>>

\* A setting that the data depends on: what is shown is transformed anew, and fetched.
ChangeSetting ==
  /\ nmShown /\ nmLoads < MaxLoads
  /\ nmLoading' = TRUE /\ nmLoads' = nmLoads + 1
  /\ \E told \in SUBSET NmNodes : nmData' = [n \in NmNodes |-> IF n \in told THEN nmData[n] ELSE "unknown"]
  /\ UNCHANGED <<nmShown, nmChunk, nmFocused, nmShould, nmSelected>> /\ Remount /\ Rerun

DataArrives ==
  /\ nmLoads > 0 /\ nmLoads' = nmLoads - 1 /\ nmLoading' = FALSE
  /\ nmData' \in Answers
  /\ UNCHANGED <<nmShown, nmChunk, nmFocused, nmShould, nmSelected>> /\ Remount /\ Rerun

LoadFails ==
  /\ nmLoads > 0 /\ nmLoads' = nmLoads - 1 /\ nmLoading' = FALSE
  /\ UNCHANGED <<nmShown, nmChunk, nmData, nmFocused, nmShould, nmTimer, nmSelected, nmView>>

\* focusOnNode.  A node without a marker is not focused on: some other is flown to instead.
FocusOn(n) ==
  \/ Mounted /\ n \in Positioned(nmData) /\ nmView' = n /\ nmSelected' = n
  \/ Mounted /\ n \notin Positioned(nmData) /\ nmView' \in Positioned(nmData) /\ UNCHANGED nmSelected
  \/ ~Mounted /\ UNCHANGED <<nmView, nmSelected>>

\* The focus is used up, whether there was a map to show it on or not.
TimerFires ==
  /\ nmTimer # None /\ FocusOn(nmTimer)
  /\ nmShould' = FALSE /\ nmFocused' = None
  /\ UNCHANGED <<nmShown, nmChunk, nmData, nmLoading, nmLoads>> /\ Rerun

ClickMarker(n) ==
  /\ Mounted /\ n \in Positioned(nmData)
  /\ nmSelected' = IF nmSelected = n THEN None ELSE n
  /\ UNCHANGED <<nmShown, nmChunk, nmData, nmLoading, nmLoads, nmFocused, nmShould, nmTimer, nmView>>

CloseNode ==
  /\ nmSelected # None /\ nmSelected' = None
  /\ UNCHANGED <<nmShown, nmChunk, nmData, nmLoading, nmLoads, nmFocused, nmShould, nmTimer, nmView>>

FlyToAny ==
  /\ Mounted /\ nmView' \in Positioned(nmData)
  /\ UNCHANGED <<nmShown, nmChunk, nmData, nmLoading, nmLoads, nmFocused, nmShould, nmTimer, nmSelected>>

NmNext ==
  \/ \E n \in NmNodes \cup {None} : OpenMap(n)
  \/ ChunkLoads \/ LeaveMap \/ Refresh \/ ChangeSetting \/ DataArrives \/ LoadFails \/ TimerFires
  \/ \E n \in NmNodes : ClickMarker(n)
  \/ CloseNode \/ FlyToAny

NmSpec == NmInit /\ [][NmNext]_nmVars

-----------------------------------------------------------------------------
\* Up to its timer a focus handed over is neither lost nor forgotten: it waits in the
\* context while there is no marker, across other tabs too, its timer runs as soon as
\* there is one and is that of the newest focus; without a focus, or off the map, no
\* timer runs.  What the timer finds is another matter: it waits for the markers and not
\* for the map, and on a page still loading the map it uses the focus up (FocusMeetsMap).
FocusWaitsForMarkers ==
  /\ (nmFocused # None) = nmShould
  /\ nmTimer # None <=> nmShown /\ nmShould /\ \E n \in NmNodes : nmData[n] = "other"
  /\ nmTimer # None => nmTimer = nmFocused

\* "Small delay to ensure map is fully rendered": when the timer uses a focus up the map
\* is there to show it.
FocusMeetsMap == [][nmFocused # None /\ nmFocused' = None => Mounted]_nmVars
=============================================================================
