----------------------------- MODULE LinksPanel -----------------------------
(***************************************************************************)
(* The panel of logical links of the web client: a list that follows the   *)
(* filters, a selected link, and its latest packets.  Each change of a     *)
(* filter sends for a list, whose arrival sends for the details of a link; *)
(* a click on a row sends for details too.  Nothing cancels a request:     *)
(* lists are taken as they come, details only while their link is selected. *)
(*                                                                         *)
(* The filters (search, direction, time range, port) are one value.        *)
(***************************************************************************)
CONSTANTS
  LkFilters, \* values of the filters
  Links,     \* ids of links
  Tabs,      \* channels a packet may be on
  LkSlots    \* bound on requests in flight together

None == "none"
All == "all"

VARIABLES
  lkFilter,  \* debouncedSearch, directionFilter, timeRange and portFilter
  lkList,    \* links, and the filter they were asked for with
  lkSelected,\* selectedLinkId, and its ref
  lkLink,    \* the id of selectedLink
  lkPackets, \* linkPackets: of which link, asked for with which filter, on which channels
  lkTab,     \* activeChannelKey
  lkListing, \* loadingLinks
  lkLoading, \* packetsLoading
  lkStalled, \* packetsStalled
  lkReq,     \* requests in flight
  lkOlder,   \* history: per request, those in flight that were sent before it
  lkInOrder  \* history: since a list was asked for alone, nothing failed or overtook

lkVars == <<lkFilter, lkList, lkSelected, lkLink, lkPackets, lkTab, lkListing, lkLoading, lkStalled,
            lkReq, lkOlder, lkInOrder>>

NoPackets == [link |-> None, filter |-> None, channels |-> {}]
NoRequest == [kind |-> "none", link |-> None, filter |-> None, watched |-> FALSE]
NoList == [links |-> {}, filter |-> None]
Waiting == {i \in LkSlots : lkReq[i] # NoRequest}

LkTypeOK ==
  /\ lkFilter \in LkFilters
  /\ lkList \in [links : SUBSET Links, filter : LkFilters \cup {None}]
  /\ lkSelected \in Links \cup {None} /\ lkLink \in Links \cup {None}
  /\ lkPackets \in [link : Links \cup {None}, filter : LkFilters \cup {None}, channels : SUBSET Tabs]
  /\ lkTab \in Tabs \cup {All}
  /\ {lkListing, lkLoading, lkStalled, lkInOrder} \subseteq BOOLEAN
  /\ lkReq \in [LkSlots -> [kind : {"list", "listed", "details", "none"}, link : Links \cup {None},
                            filter : LkFilters \cup {None}, watched : BOOLEAN]]
  /\ lkOlder \in [LkSlots -> SUBSET LkSlots]

-----------------------------------------------------------------------------
Asking(kind, link, filter) == [kind |-> kind, link |-> link, filter |-> filter, watched |-> kind # "list"]

Send(r) ==
  /\ Waiting # LkSlots
  /\ LET i == CHOOSE j \in LkSlots : j \notin Waiting IN
       lkReq' = [lkReq EXCEPT ![i] = r] /\ lkOlder' = [lkOlder EXCEPT ![i] = Waiting]
  /\ lkInOrder' = (lkInOrder \/ (Waiting = {} /\ r.kind = "list"))

\* A request is over, well or not, in its turn or not.
Over(i, well) ==
  /\ lkReq' = [lkReq EXCEPT ![i] = NoRequest]
  /\ lkOlder' = [j \in LkSlots |-> IF j = i THEN {} ELSE lkOlder[j] \ {i}]
  /\ lkInOrder' = (lkInOrder /\ well /\ lkOlder[i] = {})

\* The packets and the link shown; the channel tab follows them by two effects.
Showing(link, packets) ==
  /\ lkLink' = link /\ lkPackets' = packets
  /\ lkTab' = IF link # lkLink \/ lkTab \notin packets.channels THEN All ELSE lkTab

Nothing == lkSelected' = None /\ Showing(None, NoPackets)

\* loadLinks, up to its first await: at the start, on a change of the filters, and by Refresh.
AskList(filter) == Send(Asking("list", None, filter)) /\ lkListing' = TRUE

ChangeFilter(f) ==
  /\ f # lkFilter /\ lkFilter' = f
  /\ AskList(f)
  /\ UNCHANGED <<lkList, lkSelected, lkLink, lkPackets, lkTab, lkLoading, lkStalled>>

\* The refresh button, disabled while a list is loading.
RefreshLinks ==
  /\ ~lkListing /\ AskList(lkFilter)
  /\ UNCHANGED <<lkFilter, lkList, lkSelected, lkLink, lkPackets, lkTab, lkLoading, lkStalled>>

\* The list is there: the selected link stays if the list has it, else the first is
\* selected, and its details are asked for, with the filters of the list.
ListArrives(i, links) ==
  /\ lkReq[i].kind = "list"
  /\ lkList' = [links |-> links, filter |-> lkReq[i].filter]
  /\ UNCHANGED lkFilter
  /\ \/ /\ links = {}
        /\ Nothing /\ lkListing' = FALSE
        /\ Over(i, TRUE) /\ UNCHANGED <<lkLoading, lkStalled>>
     \/ /\ \E link \in IF lkSelected \in links THEN {lkSelected} ELSE links :
             /\ lkSelected' = link /\ Showing(link, lkPackets)
             /\ lkReq' = [lkReq EXCEPT ![i] = Asking("listed", link, @.filter)]
        /\ lkLoading' = TRUE /\ lkStalled' = FALSE
        /\ lkInOrder' = (lkInOrder /\ lkOlder[i] = {})
        /\ UNCHANGED <<lkListing, lkOlder>>

\* No list: nothing is listed and nothing selected.
ListFails(i) ==
  /\ lkReq[i].kind = "list"
  /\ lkList' = [links |-> {}, filter |-> lkReq[i].filter]
  /\ Nothing /\ lkListing' = FALSE /\ Over(i, FALSE)
  /\ UNCHANGED <<lkFilter, lkLoading, lkStalled>>

\* The rows of the table, which gives way to a spinner while a list is loading.
Rows == IF lkListing THEN {} ELSE lkList.links

\* handleRowClick
ClickRow(link) ==
  /\ link \in Rows
  /\ lkSelected' = link /\ Showing(link, lkPackets)
  /\ lkLoading' = TRUE /\ lkStalled' = FALSE
  /\ Send(Asking("details", link, lkFilter))
  /\ UNCHANGED <<lkFilter, lkList, lkListing>>

channelTabs == lkPackets.channels \cup {All}

ClickChannel(c) ==
  /\ c \in channelTabs /\ lkTab' = c
  /\ UNCHANGED <<lkFilter, lkList, lkSelected, lkLink, lkPackets, lkListing, lkLoading, lkStalled,
                 lkReq, lkOlder, lkInOrder>>

\* Mutant: details are taken whatever is selected by now
CurrentAlways(i) == lkSelected # None

\* selectedLinkIdRef.current === linkId
Current(i) == lkSelected = lkReq[i].link

Details(i) == lkReq[i].kind \in {"listed", "details"}

\* The finally blocks of loadLinkDetails and, around it, of loadLinks.
Finished(i, well) ==
  /\ lkLoading' = (lkLoading /\ ~Current(i)) /\ lkStalled' = (lkStalled /\ ~Current(i))
  /\ lkListing' = (lkListing /\ lkReq[i].kind # "listed")
  /\ Over(i, well)

DetailsArrive(i) ==
  /\ Details(i) /\ Finished(i, TRUE)
  /\ IF Current(i)
       THEN \E channels \in SUBSET Tabs :
              Showing(lkLink, [link |-> lkReq[i].link, filter |-> lkReq[i].filter, channels |-> channels])
       ELSE UNCHANGED <<lkLink, lkPackets, lkTab>>
  /\ UNCHANGED <<lkFilter, lkList, lkSelected>>

DetailsFail(i) ==
  /\ Details(i) /\ Finished(i, FALSE)
  /\ IF Current(i) THEN Showing(lkLink, NoPackets) ELSE UNCHANGED <<lkLink, lkPackets, lkTab>>
  /\ UNCHANGED <<lkFilter, lkList, lkSelected>>

\* The watchdog of a request, six seconds after it was sent.
Stall(i) ==
  /\ lkReq[i].watched
  /\ lkReq' = [lkReq EXCEPT ![i].watched = FALSE]
  /\ lkStalled' = TRUE
  /\ UNCHANGED <<lkFilter, lkList, lkSelected, lkLink, lkPackets, lkTab, lkListing, lkLoading,
                 lkOlder, lkInOrder>>

-----------------------------------------------------------------------------
LkInit ==
  /\ lkFilter \in LkFilters /\ lkList = NoList
  /\ lkSelected = None /\ lkLink = None /\ lkPackets = NoPackets /\ lkTab = All
  /\ lkListing = FALSE /\ lkLoading = FALSE /\ lkStalled = FALSE
  /\ lkReq = [i \in LkSlots |-> NoRequest] /\ lkOlder = [i \in LkSlots |-> {}] /\ lkInOrder = FALSE

LkNext ==
  \/ \E f \in LkFilters : ChangeFilter(f)
  \/ RefreshLinks
  \/ \E link \in Links : ClickRow(link)
  \/ \E c \in Tabs \cup {All} : ClickChannel(c)
  \/ \E i \in LkSlots :
       \/ \E links \in SUBSET Links : ListArrives(i, links)
       \/ ListFails(i) \/ DetailsArrive(i) \/ DetailsFail(i) \/ Stall(i)

LkSpec == LkInit /\ [][LkNext]_lkVars

\* The link whose packets, and their number, are shown: nothing while they are loading.
PacketsShown == IF lkLoading THEN None ELSE lkPackets.link

-----------------------------------------------------------------------------
\* What the panel shows is of the selected link, in every order of answers: the
\* link always, the packets unless a spinner hides them.
ShowsSelected ==
  /\ lkLink = lkSelected
  /\ PacketsShown \in {None, lkSelected}

\* With nothing in flight the list and the packets are those of the filters shown,
\* if the answers since the last list asked for alone came in order and none failed.
ShowsFiltered ==
  Waiting = {} /\ lkInOrder => /\ lkList.filter \in {None, lkFilter}
                               /\ lkPackets.filter \in {None, lkFilter}

\* "start a watchdog to avoid indefinite spinner (6s)": once it fired for the link
\* that is selected, the spinner is not what the panel shows.
StalledShowsNoSpinner == lkStalled => ~lkLoading
=============================================================================
