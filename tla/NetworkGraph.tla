---------------------------- MODULE NetworkGraph ----------------------------
(***************************************************************************)
(* The data behind the graph view.  The hook useNetworkData fetches nodes  *)
(* and edges for the settings and transforms them anew when a setting      *)
(* changes; an effect asks for the interfaces and builds their nodes and   *)
(* links from what it was run with; both are merged, and the merged graph  *)
(* is copied, difference by difference, to the canvas.  A refresh copies a *)
(* second time, from a timer, the graph of the moment it was asked for.    *)
(* Nothing cancels a request.                                              *)
(*                                                                         *)
(* The settings are one value.  Data is told apart by the settings it was  *)
(* fetched for and by a version: what the server holds may change between  *)
(* two fetches, and change back.  There is some data once a fetch was      *)
(* answered.  GraphTransform says what becomes of it.                      *)
(***************************************************************************)
EXTENDS Integers, Sequences

CONSTANTS
  NgFilters,  \* values of the settings
  NgIfaces,   \* ids of interfaces
  NgVersions, \* versions of what the server holds, each above 0
  NgLists,    \* the lists of them the server may tell
  MaxFetches, \* bound on fetches in flight together
  MaxAsks     \* bound on requests for interfaces in flight together

None == "none"

VARIABLES
  ngFilter,  \* the settings
  ngRaw,     \* rawData
  ngLoading, \* isLoading
  ngError,   \* error
  ngBusy,    \* isIncrementalLoading
  ngSel,     \* selectedInterfaceIds
  ngKnown,   \* allInterfaces
  ngBuilt,   \* interfaceNodes and interfaceLinks
  ngCanvas,  \* currentGraphDataRef
  ngTimer,   \* the timer of a refresh, with the graph it copies
  ngFetches, \* fetches in flight, oldest first
  ngAsks,    \* requests for interfaces in flight, oldest first
  ngMixed    \* history: an answer overtook an older one, or a timer undid a change

ngVars == <<ngFilter, ngRaw, ngLoading, ngError, ngBusy, ngSel, ngKnown, ngBuilt, ngCanvas, ngTimer,
            ngFetches, ngAsks, ngMixed>>

Data(filter, version) == [filter |-> filter, version |-> version]
NoData == Data(None, 0)

\* Built from data, from the nodes that the graph showed of it for some settings, and
\* for the settings of that moment.
Built(shown, raw, nodes, filter) == [shown |-> shown, raw |-> raw, nodes |-> nodes, filter |-> filter]
NotBuilt == Built({}, NoData, None, None)

\* What mergedGraphData holds: transformed data, and the nodes of interfaces.
Merged(raw, filter, built) == [raw |-> raw, filter |-> filter, built |-> built]
Empty == Merged(NoData, None, NotBuilt)
NoTimer == [on |-> FALSE, graph |-> Empty]

Fetch(filter, refresh, seen) == [filter |-> filter, refresh |-> refresh, seen |-> seen]
Ask(raw, nodes, filter, sel) == [raw |-> raw, nodes |-> nodes, filter |-> filter, sel |-> sel]

Rest(q, i) == [j \in 1 .. Len(q) - 1 |-> IF j < i THEN q[j] ELSE q[j + 1]]

NgInit ==
  /\ ngFilter \in NgFilters /\ ngRaw = NoData
  /\ ngLoading = TRUE /\ ngError = FALSE /\ ngBusy = FALSE
  /\ ngSel = {} /\ ngKnown = {} /\ ngBuilt = NotBuilt
  /\ ngCanvas = Merged(NoData, ngFilter, NotBuilt) /\ ngTimer = NoTimer
  /\ ngFetches = <<Fetch(ngFilter, FALSE, Empty)>> 
  /\ ngAsks = <<Ask(NoData, ngFilter, ngFilter, {})>>
  /\ ngMixed = FALSE

-----------------------------------------------------------------------------
\* The effect on the merged graph: nodes and links are added, updated, removed.
Diff == ngCanvas' = Merged(ngRaw', ngFilter', ngBuilt')

\* The effect on the data, the settings and the selection of interfaces.
AskAgain(rest) ==
  Len(rest) < MaxAsks /\ ngAsks' = Append(rest, Ask(ngRaw', ngFilter', ngFilter', ngSel'))

\* Other settings or data: the effect runs with the nodes the graph showed for the
\* settings of before, and again once the hook has transformed the data there is.
AskTwice(before) ==
  AskAgain(IF ngRaw' = NoData THEN ngAsks
                              ELSE Append(ngAsks, Ask(ngRaw', before, ngFilter', ngSel')))

ChangeSetting(f) ==
  /\ f # ngFilter /\ Len(ngFetches) < MaxFetches
  /\ ngFilter' = f /\ ngLoading' = TRUE /\ ngError' = FALSE
  /\ ngFetches' = Append(ngFetches, Fetch(f, FALSE, Empty))
  /\ UNCHANGED <<ngRaw, ngSel, ngBuilt>>
  /\ AskTwice(ngFilter) /\ Diff
  /\ UNCHANGED <<ngBusy, ngKnown, ngTimer, ngMixed>>

\* The button, or the timer of 60 s.
Refresh ==
  /\ ~ngBusy /\ ~ngLoading /\ Len(ngFetches) < MaxFetches
  /\ ngBusy' = TRUE /\ ngLoading' = TRUE /\ ngError' = FALSE
  /\ ngFetches' = Append(ngFetches, Fetch(ngFilter, TRUE, Merged(ngRaw, ngFilter, ngBuilt)))
  /\ UNCHANGED <<ngFilter, ngRaw, ngSel, ngKnown, ngBuilt, ngCanvas, ngTimer, ngAsks, ngMixed>>

StartTimer(r) ==
  ngTimer' = IF r.refresh THEN [on |-> TRUE, graph |-> r.seen] ELSE ngTimer

FetchAnswered(i) ==
  /\ i <= Len(ngFetches)
  /\ \E v \in NgVersions : ngRaw' = Data(ngFetches[i].filter, v)
  /\ ngLoading' = FALSE
  /\ UNCHANGED <<ngFilter, ngSel, ngBuilt>>
  /\ AskTwice(ngFetches[i].filter) /\ Diff /\ StartTimer(ngFetches[i])
  /\ ngFetches' = Rest(ngFetches, i) /\ ngMixed' = (ngMixed \/ i > 1)
  /\ UNCHANGED <<ngError, ngBusy, ngKnown>>

\* The hook tells of the failure by its error only: the refresh goes on.
FetchFails(i) ==
  /\ i <= Len(ngFetches)
  /\ ngError' = TRUE /\ ngLoading' = FALSE /\ StartTimer(ngFetches[i])
  /\ ngFetches' = Rest(ngFetches, i) /\ ngMixed' = (ngMixed \/ i > 1)
  /\ UNCHANGED <<ngFilter, ngRaw, ngBusy, ngSel, ngKnown, ngBuilt, ngCanvas, ngAsks>>

\* The closure of the refresh is copied, over what has been merged since.
TimerCopies ==
  /\ ngTimer.on
  /\ ngCanvas' = ngTimer.graph /\ ngBusy' = FALSE /\ ngTimer' = NoTimer
  /\ ngMixed' = (ngMixed \/ (ngAsks = <<>> /\ ngTimer.graph # Merged(ngRaw, ngFilter, ngBuilt)))
  /\ UNCHANGED <<ngFilter, ngRaw, ngLoading, ngError, ngSel, ngKnown, ngBuilt, ngFetches, ngAsks>>

ToggleIface(n) ==
  /\ n \in ngKnown
  /\ ngSel' = IF n \in ngSel THEN ngSel \ {n} ELSE ngSel \cup {n}
  /\ UNCHANGED <<ngFilter, ngRaw, ngBuilt>> /\ AskAgain(ngAsks)
  /\ UNCHANGED <<ngLoading, ngError, ngBusy, ngKnown, ngCanvas, ngTimer, ngFetches, ngMixed>>

SelectAll ==
  /\ ngKnown # {} /\ ngSel' = ngKnown
  /\ UNCHANGED <<ngFilter, ngRaw, ngBuilt>> /\ AskAgain(ngAsks)
  /\ UNCHANGED <<ngLoading, ngError, ngBusy, ngKnown, ngCanvas, ngTimer, ngFetches, ngMixed>>

\* Of the selection what still exists, or every interface.
Selectable(known, sel) == IF sel \cap known = {} THEN known ELSE sel \cap known

\* Another selection than it was run with runs the effect again.
IfacesAnswered(i, known) ==
  /\ i <= Len(ngAsks)
  /\ LET a == ngAsks[i]
         sel == Selectable(known, a.sel)
     IN  /\ ngKnown' = known
         /\ ngBuilt' = Built(sel, a.raw, a.nodes, a.filter)
         /\ UNCHANGED <<ngFilter, ngRaw>>
         /\ \/ sel # a.sel /\ ngSel' = sel /\ AskAgain(Rest(ngAsks, i))
            \/ sel = a.sel /\ UNCHANGED ngSel /\ ngAsks' = Rest(ngAsks, i)
         /\ ngMixed' = (ngMixed \/ i > 1)
  /\ Diff
  /\ UNCHANGED <<ngLoading, ngError, ngBusy, ngTimer, ngFetches>>

IfacesFail(i) ==
  /\ i <= Len(ngAsks)
  /\ ngKnown' = {} /\ ngBuilt' = NotBuilt /\ UNCHANGED <<ngFilter, ngRaw>> /\ Diff
  /\ ngAsks' = Rest(ngAsks, i) /\ ngMixed' = (ngMixed \/ i > 1)
  /\ UNCHANGED <<ngLoading, ngError, ngBusy, ngSel, ngTimer, ngFetches>>

\* A behaviour is followed until an answer overtakes another or a timer undoes a change.
NgNext ==
  /\ ~ngMixed
  /\ \/ \E f \in NgFilters : ChangeSetting(f)
     \/ Refresh \/ TimerCopies \/ SelectAll
     \/ \E i \in 1 .. MaxFetches : FetchAnswered(i) \/ FetchFails(i)
     \/ \E n \in NgIfaces : ToggleIface(n)
     \/ \E i \in 1 .. MaxAsks : IfacesFail(i) \/ \E known \in NgLists : IfacesAnswered(i, known)

NgSpec == NgInit /\ [][NgNext]_ngVars

-----------------------------------------------------------------------------
Datas == [filter : NgFilters, version : NgVersions] \cup {NoData}
Builts == [shown : SUBSET NgIfaces, raw : Datas, nodes : NgFilters \cup {None},
           filter : NgFilters \cup {None}]
NgTypeOK ==
  /\ ngFilter \in NgFilters /\ ngRaw \in Datas
  /\ {ngLoading, ngError, ngBusy, ngMixed, ngTimer.on} \subseteq BOOLEAN
  /\ ngSel \subseteq NgIfaces /\ ngKnown \subseteq NgIfaces /\ ngBuilt \in Builts
  /\ {ngCanvas, ngTimer.graph} \subseteq
       [raw : Datas, filter : NgFilters \cup {None}, built : Builts]
  /\ Len(ngFetches) <= MaxFetches /\ Len(ngAsks) <= MaxAsks

Settled == ngFetches = <<>> /\ ngAsks = <<>> /\ ~ngTimer.on

\* Once everything was answered, in the order it was asked, the canvas shows the data
\* the hook holds, which is that of the settings, and the interfaces selected, built from
\* this data and from the nodes the graph shows of it; a selection never ends empty
\* while there are interfaces; and no spinner stays.  An answer that overtook another is
\* outside of it, and so is a timer that put older data back when nothing was on its way
\* that merges anew (ngMixed); one that did while something was is repaired.
SettledCanvasIsChoice ==
  Settled /\ ~ngMixed =>
    /\ ngCanvas = Merged(ngRaw, ngFilter, ngBuilt)
    /\ ~ngError => ngRaw.filter = ngFilter
    /\ ngBuilt \in {NotBuilt, Built(ngSel, ngRaw, ngFilter, ngFilter)}
    /\ ngKnown # {} => ngSel # {} /\ ngSel \subseteq ngKnown
    /\ ~ngLoading /\ ~ngBusy
=============================================================================
