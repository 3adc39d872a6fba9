---------------------------- MODULE CapturesPanel ---------------------------
(***************************************************************************)
(* The panel of packet captures of the web client.  Starting, stopping and  *)
(* deleting each end by refreshing the list, with the refresh of the render *)
(* they were clicked in: one that was clicked while the list was loading    *)
(* refreshes nothing.  The list also refreshes itself every minute.         *)
(* The server's sessions also end by themselves, at the limit of their size *)
(* or with an error, and other clients start, stop and delete them.         *)
(***************************************************************************)
EXTENDS Naturals

CONSTANTS MaxCaptures, \* bound on the sessions ever started
          CpSlots      \* bound on requests in flight together

Captures == 1..MaxCaptures
NoCapture == 0

VARIABLES
  cpList,       \* sessions, the list shown
  cpLoading,    \* loading, the first load
  cpRefreshing, \* refreshing
  cpSubmitting, \* submitting
  cpDeleting,   \* deletingId
  cpClearing,   \* deletingAll
  cpReq,        \* requests in flight
  cpServer,     \* the server's sessions
  cpStarted,    \* the server's count of sessions ever started
  cpAlone,      \* history: the sessions that ended by themselves
  cpNewer,      \* history: lists on their way that are newer than the one shown
  cpOlder,      \* history: per list on its way, those on their way that were read before it
  cpTrusted     \* history: since the list was last right with nothing in flight, no request
                \* failed, was late or skipped its refresh, and no other client did anything

cpVars == <<cpList, cpLoading, cpRefreshing, cpSubmitting, cpDeleting, cpClearing, cpReq, cpServer,
            cpStarted, cpAlone, cpNewer, cpOlder, cpTrusted>>
history == <<cpAlone, cpNewer, cpOlder>>
flags == <<cpLoading, cpRefreshing, cpSubmitting, cpDeleting, cpClearing>>

\* Sessions, and those of them that are RUNNING.
Lists == {l \in [ids : SUBSET Captures, running : SUBSET Captures] : l.running \subseteq l.ids}
NoList == [ids |-> {}, running |-> {}]
Free == [kind |-> "none", ph |-> "none", id |-> NoCapture, skip |-> FALSE, list |-> NoList]
Quiet == \A i \in CpSlots : cpReq[i] = Free

CpTypeOK ==
  /\ cpList \in Lists /\ cpServer \in Lists
  /\ {cpLoading, cpRefreshing, cpSubmitting, cpClearing, cpTrusted} \subseteq BOOLEAN
  /\ cpDeleting \in Captures \cup {NoCapture} /\ cpStarted \in 0..MaxCaptures
  /\ cpReq \in [CpSlots -> [kind : {"load", "refresh", "start", "stop", "delete", "clear", "none"},
                            ph : {"sent", "acted", "fetching", "fetched", "none"},
                            id : Captures \cup {NoCapture}, skip : BOOLEAN, list : Lists]]
  /\ cpAlone \subseteq Captures /\ cpNewer \subseteq CpSlots /\ cpOlder \in [CpSlots -> SUBSET CpSlots]

-----------------------------------------------------------------------------
Send(r) ==
  /\ \E i \in CpSlots : cpReq[i] = Free
  /\ cpReq' = [cpReq EXCEPT ![CHOOSE i \in CpSlots : cpReq[i] = Free] = r]
  /\ UNCHANGED <<cpList, cpServer, cpStarted, history, cpTrusted>>

\* The guard of the refreshSessions a handler closed over.
SkipsRefresh == cpRefreshing \/ cpLoading

Asked(kind, id) == [Free EXCEPT !.kind = kind, !.ph = "sent", !.id = id, !.skip = SkipsRefresh]
Fetching(kind) == [Free EXCEPT !.kind = kind, !.ph = "fetching"]

\* The finally blocks.  Deleting one session clears the mark of any.
Cleared(kind) ==
  /\ cpSubmitting' = (cpSubmitting /\ kind # "start")
  /\ cpDeleting' = IF kind = "delete" THEN NoCapture ELSE cpDeleting
  /\ cpClearing' = (cpClearing /\ kind # "clear")

-----------------------------------------------------------------------------
(* The panel.                                                              *)

\* refreshSessions: its button waits for a delete of all, the minute does not.
RefreshSessions ==
  /\ ~SkipsRefresh
  /\ Send(Fetching("refresh")) /\ cpRefreshing' = TRUE
  /\ UNCHANGED <<cpLoading, cpSubmitting, cpDeleting, cpClearing>>

\* Mutant: the button does not wait for the last start
StartAgain ==
  /\ cpList.running = {}
  /\ Send(Asked("start", NoCapture)) /\ cpSubmitting' = TRUE
  /\ UNCHANGED <<cpLoading, cpRefreshing, cpDeleting, cpClearing>>

\* The start button waits for the last start and for the captures listed.
StartOffered == ~cpSubmitting /\ cpList.running = {}

\* The buttons of the rows; a spinner covers them during the first load.
RowButtons == ~cpLoading /\ ~cpClearing

\* handleStartCapture
StartCapture ==
  /\ StartOffered
  /\ Send(Asked("start", NoCapture)) /\ cpSubmitting' = TRUE
  /\ UNCHANGED <<cpLoading, cpRefreshing, cpDeleting, cpClearing>>

\* handleStopCapture, and handleCancelCapture: the buttons of a row that is running.
StopCapture(c) ==
  /\ RowButtons /\ c \in cpList.running
  /\ Send(Asked("stop", c))
  /\ UNCHANGED flags

\* handleDeleteCapture, once confirmed.
DeleteCapture(c) ==
  /\ RowButtons /\ c \in cpList.ids \ cpList.running /\ cpDeleting # c
  /\ Send(Asked("delete", c)) /\ cpDeleting' = c
  /\ UNCHANGED <<cpLoading, cpRefreshing, cpSubmitting, cpClearing>>

\* handleDeleteAllCaptures, once confirmed.
DeleteAll ==
  /\ ~cpClearing /\ cpList.ids # {}
  /\ Send(Asked("clear", NoCapture)) /\ cpClearing' = TRUE
  /\ UNCHANGED <<cpLoading, cpRefreshing, cpSubmitting, cpDeleting>>

-----------------------------------------------------------------------------
(* Requests.                                                               *)

\* What the server does; a session that is gone it cannot stop or delete.
Serve(kind, id) ==
  /\ kind = "start" => cpStarted < MaxCaptures
  /\ kind \in {"stop", "delete"} => id \in cpServer.ids
  /\ cpStarted' = IF kind = "start" THEN cpStarted + 1 ELSE cpStarted
  /\ cpServer' = CASE kind = "start" -> [ids |-> cpServer.ids \cup {cpStarted'},
                                         running |-> cpServer.running \cup {cpStarted'}]
                   [] kind = "stop" -> [cpServer EXCEPT !.running = @ \ {id}]
                   [] kind = "delete" -> [ids |-> cpServer.ids \ {id}, running |-> cpServer.running \ {id}]
                   [] kind = "clear" -> NoList

\* A request of this panel is served.
Act(i) ==
  LET r == cpReq[i] IN
  /\ r.ph = "sent" /\ Serve(r.kind, r.id)
  /\ cpReq' = [cpReq EXCEPT ![i].ph = "acted", ![i].id = NoCapture]
  /\ UNCHANGED <<cpList, flags, history, cpTrusted>>

\* A request of another client is served: the list shown is behind.
OtherActs ==
  /\ \/ \E kind \in {"start", "clear"} : Serve(kind, NoCapture)
     \/ \E kind \in {"stop", "delete"}, c \in cpServer.ids : Serve(kind, c)
  /\ cpTrusted' = FALSE
  /\ UNCHANGED <<cpList, flags, cpReq, history>>

\* _handle_size_limit and _handle_capture_error: a session ends by itself.
EndAlone(c) ==
  /\ c \in cpServer.running
  /\ cpServer' = [cpServer EXCEPT !.running = @ \ {c}]
  /\ cpAlone' = cpAlone \cup {c}
  /\ UNCHANGED <<cpList, flags, cpReq, cpStarted, cpNewer, cpOlder, cpTrusted>>

\* The answer: the refresh of the handler's render is called, and may return at once.
Acted(i) ==
  LET r == cpReq[i] IN
  /\ r.ph = "acted"
  /\ IF r.skip
       THEN /\ cpReq' = [cpReq EXCEPT ![i] = Free]
            /\ Cleared(r.kind) /\ cpTrusted' = FALSE
            /\ UNCHANGED cpRefreshing
       ELSE /\ cpReq' = [cpReq EXCEPT ![i] = Fetching(r.kind)]
            /\ cpRefreshing' = TRUE
            /\ UNCHANGED <<cpSubmitting, cpDeleting, cpClearing, cpTrusted>>
  /\ UNCHANGED <<cpList, cpLoading, cpServer, cpStarted, history>>

ServeList(i) ==
  /\ cpReq[i].ph = "fetching"
  /\ cpReq' = [cpReq EXCEPT ![i].ph = "fetched", ![i].list = cpServer]
  /\ cpNewer' = cpNewer \cup {i} /\ UNCHANGED cpAlone
  /\ cpOlder' = [cpOlder EXCEPT ![i] = {j \in CpSlots : cpReq[j].ph = "fetched"}]
  /\ UNCHANGED <<cpList, flags, cpServer, cpStarted, cpTrusted>>

\* A list is no more on its way.
Without(i) == [j \in CpSlots |-> IF j = i THEN {} ELSE cpOlder[j] \ {i}]

ListLands(i) ==
  LET r == cpReq[i]
      late == i \notin cpNewer
  IN  /\ r.ph = "fetched"
      /\ cpList' = r.list
      /\ cpLoading' = (cpLoading /\ r.kind # "load")
      /\ cpRefreshing' = (cpRefreshing /\ r.kind = "load")
      /\ Cleared(r.kind)
      /\ cpReq' = [cpReq EXCEPT ![i] = Free]
      /\ cpNewer' = cpNewer \ (cpOlder[i] \cup {i}) /\ cpOlder' = Without(i)
      /\ cpTrusted' = ((cpTrusted /\ ~late) \/ (r.list = cpServer /\ \A j \in CpSlots \ {i} : cpReq[j] = Free))
      /\ UNCHANGED <<cpServer, cpStarted, cpAlone>>

\* An error is shown, and the list stays as it is.
Fails(i) ==
  LET r == cpReq[i]
      fetched == r.ph \in {"fetching", "fetched"}
  IN  /\ r # Free
      /\ cpLoading' = (cpLoading /\ r.kind # "load")
      /\ cpRefreshing' = (cpRefreshing /\ (r.kind = "load" \/ ~fetched))
      /\ Cleared(r.kind)
      /\ cpReq' = [cpReq EXCEPT ![i] = Free]
      /\ cpNewer' = cpNewer \ {i} /\ cpOlder' = Without(i)
      /\ cpTrusted' = FALSE
      /\ UNCHANGED <<cpList, cpServer, cpStarted, cpAlone>>

-----------------------------------------------------------------------------
\* The panel begins by loading; the server may hold a session already.
CpInit ==
  /\ cpList = NoList /\ cpLoading = TRUE /\ cpRefreshing = FALSE /\ cpSubmitting = FALSE
  /\ cpDeleting = NoCapture /\ cpClearing = FALSE
  /\ cpServer \in {NoList, [ids |-> {1}, running |-> {1}]}
  /\ cpStarted = (IF cpServer = NoList THEN 0 ELSE 1) /\ cpAlone = {}
  /\ cpReq = [i \in CpSlots |-> IF i = CHOOSE j \in CpSlots : TRUE THEN Fetching("load") ELSE Free]
  /\ cpNewer = {} /\ cpOlder = [i \in CpSlots |-> {}] /\ cpTrusted = (cpServer = NoList)

CpNext ==
  \/ RefreshSessions \/ StartCapture \/ DeleteAll
  \/ \E c \in Captures : StopCapture(c) \/ DeleteCapture(c) \/ EndAlone(c)
  \/ OtherActs
  \/ \E i \in CpSlots : Act(i) \/ Acted(i) \/ ServeList(i) \/ ListLands(i) \/ Fails(i)

-----------------------------------------------------------------------------
\* With nothing in flight the list is the server's, except that a session which ended by
\* itself may go on as running there, if no request failed, no list was overtaken by a
\* newer one, no refresh was skipped and no other client acted.
CapturesListed ==
  Quiet /\ cpTrusted => cpList.ids = cpServer.ids /\ cpList.running \ cpAlone = cpServer.running

\* Under the same conditions the panel does not ask for a second capture beside one that
\* runs: its button is guarded by a list, and the list is not behind.  After a refresh
\* that the flag of a closure skipped (as after the others) it does: the list lacks the
\* capture just started, the button is offered, and a second start is sent.
OneCaptureAtATime ==
  [][\A i \in CpSlots :
       cpReq[i] = Free /\ cpReq'[i].kind = "start" /\ cpTrusted => cpServer.running = {}]_cpVars
=============================================================================
