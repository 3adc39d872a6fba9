--------------------------- MODULE OverviewPanel ----------------------------
(***************************************************************************)
(* The overview of the web client: one load of all its data at a time, and  *)
(* the dialogs opened from its lists.  The dialog of an interface starts,   *)
(* stops or restarts it, has the overview refreshed, and closes itself a    *)
(* moment later.  Of the data, the status of the interfaces is kept.        *)
(***************************************************************************)
EXTENDS Naturals

CONSTANTS
  Interfaces,  \* ids of interfaces
  Entries,     \* rows of the other lists: nodes, channels, ports, metrics
  MaxCommands  \* bound on commands and closing timers under way together

None == "none"
Statuses == {"RUNNING", "STOPPED"}
Dialogs == {"metric", "node", "channel", "port"}

VARIABLES
  ovList,       \* interfaces, their statuses as listed
  ovKnown,      \* something has been loaded
  ovLoading,    \* isLoading
  ovRefreshing, \* isRefreshing
  ovError,      \* error
  ovFetching,   \* isFetchingRef
  ovFetch,      \* the load in flight: its mode, and the statuses once the server has read them
  ovOpen,       \* per dialog, selectedMetric, selectedNode, selectedChannel, selectedPortEntry
  ovIface,      \* selectedInterface, with the status it had when it was clicked
  ovBusy,       \* the interface dialog's loading, success or error
  ovCommands,   \* commands in flight, and the closing timers they leave
  ovServer,     \* the server's statuses
  ovTrusted     \* history: since a load that followed every command, no load failed or was skipped

ovVars == <<ovList, ovKnown, ovLoading, ovRefreshing, ovError, ovFetching, ovFetch, ovOpen, ovIface,
            ovBusy, ovCommands, ovServer, ovTrusted>>
load == <<ovList, ovKnown, ovLoading, ovRefreshing, ovError, ovFetching, ovFetch, ovTrusted>>

NoFetch == [mode |-> "none", read |-> FALSE, list |-> [i \in Interfaces |-> "STOPPED"]]
NoIface == [id |-> None, status |-> None]
NoCommand == [id |-> None, want |-> None, ph |-> "none", own |-> FALSE]
Slots == 1..MaxCommands

OvTypeOK ==
  /\ {ovList, ovServer} \subseteq [Interfaces -> Statuses]
  /\ {ovKnown, ovLoading, ovRefreshing, ovError, ovFetching, ovTrusted} \subseteq BOOLEAN
  /\ ovFetch \in [mode : {"none", "initial", "refresh"}, read : BOOLEAN, list : [Interfaces -> Statuses]]
  /\ ovOpen \in [Dialogs -> Entries \cup {None}]
  /\ ovIface \in [id : Interfaces \cup {None}, status : Statuses \cup {None}]
  /\ ovBusy \in {"idle", "loading", "success", "error"}
  /\ ovCommands \in [Slots -> [id : Interfaces \cup {None}, want : Statuses \cup {None},
                               ph : {"sent", "acted", "closing", "none"}, own : BOOLEAN]]

-----------------------------------------------------------------------------
(* The data.                                                               *)

\* fetchData, up to its first await: nothing when a load is in flight.
FetchData(mode) ==
  IF ovFetching
    THEN ovTrusted' = FALSE /\ UNCHANGED <<ovLoading, ovRefreshing, ovError, ovFetching, ovFetch>>
    ELSE /\ ovFetching' = TRUE /\ ovError' = FALSE
         /\ ovLoading' = (ovLoading \/ mode = "initial")
         /\ ovRefreshing' = (ovRefreshing \/ mode = "refresh")
         /\ ovFetch' = [NoFetch EXCEPT !.mode = mode]
         /\ UNCHANGED ovTrusted

\* Mutant: what is done at the end is not done after an error
FetchDoneOnSuccess ==
  /\ ovLoading' = (ovLoading /\ ovFetch.mode # "initial")
  /\ ovRefreshing' = (ovRefreshing /\ ovFetch.mode # "refresh")
  /\ ovFetching' = ~ovFetch.read /\ ovFetch' = NoFetch

\* Its finally block.
FetchDone ==
  /\ ovLoading' = (ovLoading /\ ovFetch.mode # "initial")
  /\ ovRefreshing' = (ovRefreshing /\ ovFetch.mode # "refresh")
  /\ ovFetching' = FALSE /\ ovFetch' = NoFetch

\* The minute passes, or the button is pressed; during a load neither does anything.
Refresh ==
  /\ ~ovFetching /\ FetchData("refresh")
  /\ UNCHANGED <<ovList, ovKnown, ovOpen, ovIface, ovBusy, ovCommands, ovServer>>

ServerReads ==
  /\ ovFetch.mode # "none" /\ ~ovFetch.read
  /\ ovFetch' = [ovFetch EXCEPT !.read = TRUE, !.list = ovServer]
  /\ UNCHANGED <<ovList, ovKnown, ovLoading, ovRefreshing, ovError, ovFetching, ovOpen, ovIface,
                 ovBusy, ovCommands, ovServer, ovTrusted>>

DataArrive ==
  /\ ovFetch.read
  /\ ovList' = ovFetch.list /\ ovKnown' = TRUE
  /\ FetchDone
  /\ ovTrusted' = (ovTrusted \/ (ovFetch.list = ovServer /\ \A s \in Slots : ovCommands[s].ph \notin {"sent", "acted"}))
  /\ UNCHANGED <<ovError, ovOpen, ovIface, ovBusy, ovCommands, ovServer>>

\* The commands of a dialog that was closed go on without it.
Disowned == [s \in Slots |-> [ovCommands[s] EXCEPT !.own = FALSE]]

\* Any one of the requests failed: nothing of the others is used, and the error is
\* shown in place of the panel until the next load.  What is open is unmounted.
DataFail ==
  /\ ovFetch.mode # "none" /\ FetchDone
  /\ ovError' = TRUE /\ ovTrusted' = FALSE
  /\ ovBusy' = "idle" /\ ovCommands' = Disowned
  /\ UNCHANGED <<ovList, ovKnown, ovOpen, ovIface, ovServer>>

-----------------------------------------------------------------------------
(* The dialogs.                                                            *)

\* The panel is there; a dialog covers the lists.
PanelShown == ~ovLoading /\ ~ovError
Uncovered == PanelShown /\ ovIface = NoIface /\ \A d \in Dialogs : ovOpen[d] = None

\* The cards, the nodes, the channels and the ports, each of which opens a dialog.
Cards == Uncovered /\ ovKnown

OpenDialog(d, e) ==
  /\ Cards
  /\ ovOpen' = [ovOpen EXCEPT ![d] = e]
  /\ UNCHANGED <<load, ovIface, ovBusy, ovCommands, ovServer>>

CloseDialog(d) ==
  /\ PanelShown /\ ovIface = NoIface /\ ovOpen[d] # None
  /\ ovOpen' = [ovOpen EXCEPT ![d] = None]
  /\ UNCHANGED <<load, ovIface, ovBusy, ovCommands, ovServer>>

\* The focus of an address or of an action that ended: whatever else is open.
FocusNode(e) ==
  /\ ovOpen' = [ovOpen EXCEPT !["node"] = e]
  /\ UNCHANGED <<load, ovIface, ovBusy, ovCommands, ovServer>>

\* handleInterfaceClick: on the list, or inside a node's or a channel's dialog.
OpenInterface(i) ==
  /\ PanelShown /\ ovKnown /\ ovIface = NoIface /\ ovOpen["metric"] = None /\ ovOpen["port"] = None
  /\ ovIface' = [id |-> i, status |-> ovList[i]] /\ ovBusy' = "idle"
  /\ UNCHANGED <<load, ovOpen, ovCommands, ovServer>>

\* handleCloseInterfaceModal: the dialog's own state is lost with it.
Closed == ovIface' = NoIface /\ ovBusy' = "idle"

CloseInterface ==
  /\ PanelShown /\ ovIface # NoIface /\ Closed
  /\ ovCommands' = Disowned
  /\ UNCHANGED <<load, ovOpen, ovServer>>

\* handleStart and handleRestart, and handleStop, which is offered by the status
\* the dialog was opened with.
Command(want) ==
  /\ PanelShown /\ ovIface # NoIface /\ ovBusy # "loading"
  /\ want = "STOPPED" => ovIface.status # "STOPPED"
  /\ \E s \in Slots :
       /\ ovCommands[s] = NoCommand /\ \A u \in Slots : u < s => ovCommands[u] # NoCommand
       /\ ovCommands' = [ovCommands EXCEPT ![s] = [id |-> ovIface.id, want |-> want, ph |-> "sent", own |-> TRUE]]
  /\ ovBusy' = "loading"
  /\ UNCHANGED <<load, ovOpen, ovIface, ovServer>>

ServerActs(s) ==
  /\ ovCommands[s].ph = "sent"
  /\ ovServer' = [ovServer EXCEPT ![ovCommands[s].id] = ovCommands[s].want]
  /\ ovCommands' = [ovCommands EXCEPT ![s].ph = "acted"]
  /\ UNCHANGED <<load, ovOpen, ovIface, ovBusy>>

\* Mutant: the overview is not told
CommandSucceedsAlone(s) ==
  /\ ovCommands[s].ph = "acted"
  /\ ovCommands' = [ovCommands EXCEPT ![s].ph = "closing", ![s].id = None, ![s].want = None]
  /\ ovBusy' = IF ovCommands[s].own THEN "success" ELSE ovBusy
  /\ UNCHANGED <<load, ovOpen, ovIface, ovServer>>

\* The overview is refreshed, and the dialog closes in 0.8 s.
CommandSucceeds(s) ==
  /\ ovCommands[s].ph = "acted"
  /\ ovCommands' = [ovCommands EXCEPT ![s].ph = "closing", ![s].id = None, ![s].want = None]
  /\ ovBusy' = IF ovCommands[s].own THEN "success" ELSE ovBusy
  /\ FetchData("refresh")
  /\ UNCHANGED <<ovList, ovKnown, ovOpen, ovIface, ovServer>>

CommandFails(s) ==
  /\ ovCommands[s].ph \in {"sent", "acted"}
  /\ ovCommands' = [ovCommands EXCEPT ![s] = NoCommand]
  /\ ovBusy' = IF ovCommands[s].own THEN "error" ELSE ovBusy
  /\ ovTrusted' = FALSE
  /\ UNCHANGED <<ovList, ovKnown, ovLoading, ovRefreshing, ovError, ovFetching, ovFetch, ovOpen, ovIface, ovServer>>

\* The timer closes the dialog of whichever interface is open.
TimerCloses(s) ==
  /\ ovCommands[s].ph = "closing" /\ Closed
  /\ ovCommands' = [Disowned EXCEPT ![s] = NoCommand]
  /\ UNCHANGED <<load, ovOpen, ovServer>>

-----------------------------------------------------------------------------
OvInit ==
  /\ ovServer \in [Interfaces -> Statuses]
  /\ ovList = [i \in Interfaces |-> "STOPPED"] /\ ovKnown = FALSE
  /\ ovLoading = TRUE /\ ovRefreshing = FALSE /\ ovError = FALSE
  /\ ovFetching = TRUE /\ ovFetch = [NoFetch EXCEPT !.mode = "initial"]
  /\ ovOpen = [d \in Dialogs |-> None] /\ ovIface = NoIface /\ ovBusy = "idle"
  /\ ovCommands = [s \in Slots |-> NoCommand]
  /\ ovTrusted = FALSE

OvNext ==
  \/ Refresh \/ ServerReads \/ DataArrive \/ DataFail \/ CloseInterface
  \/ \E d \in Dialogs, e \in Entries : OpenDialog(d, e)
  \/ \E d \in Dialogs : CloseDialog(d)
  \/ \E e \in Entries : FocusNode(e)
  \/ \E i \in Interfaces : OpenInterface(i)
  \/ \E want \in Statuses : Command(want)
  \/ \E s \in Slots : ServerActs(s) \/ CommandSucceeds(s) \/ CommandFails(s) \/ TimerCloses(s)

OvSpec == OvInit /\ [][OvNext]_ovVars

-----------------------------------------------------------------------------
\* The guard of the loads is up exactly while one is in flight, and so is one of
\* the two spinners: no error leaves the overview refusing every later refresh.
GuardTellsLoad ==
  /\ ovFetching = (ovFetch.mode # "none")
  /\ (ovLoading \/ ovRefreshing) = ovFetching

\* With no load and no command in flight the statuses listed are the server's,
\* unless a load failed or a command's refresh found another load in flight.
StatusesListed ==
  ovTrusted /\ ~ovFetching /\ (\A s \in Slots : ovCommands[s].ph \notin {"sent", "acted"}) =>
    ovList = ovServer
=============================================================================
