# Stridetastic in TLA+

Stridetastic observes Meshtastic mesh networks: it listens to MQTT brokers (and
serial or TCP devices), decodes the packets, keeps nodes, links and telemetry in
a PostgreSQL database, records captures, probes nodes, and shows all of it in a
web client. This directory models the parts of the server in which threads,
processes, transactions and timeouts meet, and the parts of the web client in which
requests, effects, timers and the user meet; checks them with TLC on small
instances and proves, with TLAPS, what matters most for every instance.

Paths below are relative to `src/api_stridetastic/stridetastic_api/` unless they
start with `src/` or `web:` (`src/web_stridetastic/src/`).

## 1. The system

### Processes and threads

| Actor | What it runs | Source |
|---|---|---|
| web process | Django API; never runs an interface; hands work to the worker as Celery tasks and waits 10 to 15 s for some of them | `controllers/`, `services/service_manager.py`, `services/capture_service.py:133-156` |
| worker, task thread | the only Celery worker, solo pool: one task at a time, acknowledged when it is taken | `tasks/`, `src/compose.yaml:78-99` |
| worker, one Paho thread per MQTT interface | reads the connection, writes to it, and runs the callback of each packet to its end | `interfaces/mqtt_interface.py`, `ingest/mqtt.py`, `mesh/packet/handler.py:1151-1317` |
| Celery beat | queues the periodic scan (30 s), the snapshot, the timeout of nodes and the keepalive check (60 s) | `settings.py` |
| clients | edit configurations, start and stop captures, request publications | `web:lib/api.ts` |

They share the database, the Redis queue, and, inside the worker, the singletons
`CaptureService`, `PublisherService` and `ServiceManager`. Each singleton has a
lock of its own (`_lock`, `_reactive_lock`); no lock spans the database and the
memory, and most saves write every column of a row that was read some time ago.
Nearly every hazard of the server comes from one of these two facts.

The web client is one page of one thread. Its hazards have another source: a
handler or an effect sends a request, the user goes on, and the answer is applied
by a closure that holds the state of the render it was made in. Only the sections
of the node details, the details of a link and the data of the actions panel
protect themselves from an answer that has become stale; everywhere else answers
are applied as they come, and what is shown is right only once everything has
been answered in the order it was asked.

### Components

| Component | State | Operations | Interacts with | What makes it correct |
|---|---|---|---|---|
| **Capture sessions** `services/capture_service.py` | row (status, counters), file on disk, `_active` map of writers | start, activate, stop, cancel, delete, delete all, ingest, size limit, error | API → tasks → service; every Paho thread records into the same writers | the map offers open writers only; an ended session stays ended; the limit holds; packets are counted once; requests end |
| **Periodic jobs** `tasks/publisher_tasks.py`, `models/publisher_models.py` | job rows with `next_run_at`, queue | create, update, delete, scan, execute, mark | beat → scan → one execution task per job → publisher | no burst after downtime, no starvation, a released job runs at most once, a due job runs |
| **Reactive publisher** `services/publisher_service.py` | configuration row, a copy of it in each process, switch, attempts per node | edit, start, stop, refresh, decide on a packet | API and tasks configure it; Paho threads ask it | at most `max_tries` per window; silent once it is switched off |
| **Publishing and probes** `services/publisher_service.py`, `interfaces/mqtt_interface.py`, `mesh/packet/handler.py` | messages under way, `_reactive_lock`, `latency_reachable`, latency rows | publish and wait, mark pending, match answers | tasks, keepalive and reactive publisher publish; Paho threads answer | no thread waits for ever; rows and flag tell which probe was answered |
| **Keepalive** `services/keepalive_service.py`, `tasks/keepalive_tasks.py` | configuration row with `last_run_at`, presence history | run_check in one transaction, edit | reads what the Paho threads save; probes through the publisher | each silence is recorded, once |
| Interface runtime `services/service_manager.py`, `tasks/interface_tasks.py` | wrappers, their status in memory and in the row | load, start, stop, reload, bootstrap | tasks; publishers and threads hold wrappers | status tells whether the loop runs; no publication into a closed client |
| Packet ingestion `mesh/packet/handler.py` | packet, node, position, telemetry, neighbour and edge rows | one handler per port, duplicates | every interface hears copies | duplicates do not multiply rows; route segments carry the right SNR |
| Logical links `models/link_models.py` | counters and flags of a pair of nodes | record_activity | packet ingestion | counts and direction flags agree |
| Metrics `tasks/metrics_tasks.py` | snapshots, reachability | snapshot, mark unreachable | beat; packet ingestion | a node heard in time stays reachable |
| Virtual nodes, keys, encryption `services/virtual_node_service.py`, `services/pki_service.py`, `mesh/encryption/` | identities, keys | create, rotate, encrypt, decrypt | publisher, ingestion | identities are unique |
| Packet crafting `mesh/packet/crafter.py` | none | builds messages | publisher | pure data |
| HTTP API `controllers/` | none of its own | queries, configuration | all of the above | see the configured component |
| Sniffer, websocket services | none | pass-through | ingestion | – |
| **Web session** `web:lib/api.ts`, `web:contexts/AuthContext.tsx`, `web:middleware.ts` | two cookies, the user shown, requests in flight | sign in and out, reload, 401 → refresh → send again | every panel calls through it | the cookies are of whoever is signed in; a call is performed once; calls end |
| **Actions panel** `web:components/actions/PublishingActions.tsx` | forms of two services, of periodic jobs, of one-shot publications; channel, key, PKI; browser storage | load, edit, save, delete, toggle, start, cancel | address of the page, HTTP API | a settled form is what the server holds; no job is created twice; a source is allowed; PKI gives back what it replaced |
| **Dashboard navigation** `web:app/dashboard/page.tsx`, `web:components/NodeActionButtons.tsx`, `web:lib/publishingNavigation.ts` | address, panel, store of the node to come back to | tabs, launch, cancel, start, browser back | all panels | the node is given back, once |
| **Lists and dialogs** `web:components/LinksPanel.tsx`, `CapturesPanel.tsx`, `VirtualNodesPanel.tsx`, `NodeDetailsModal.tsx`, `Overview.tsx` | list, selection, spinners, dialogs, requests in flight | filter, select, start, stop, rotate, delete, refresh | HTTP API, automatic refresh | what is shown is of what is chosen; lists are the server's when nothing is under way; one capture at a time; a key shown is the one in force |
| **Graph and map** `web:components/NetworkGraph.tsx`, `NetworkMap.tsx`, `web:hooks/`, `web:lib/networkTransforms.ts`, `web:lib/pathFinding.ts` | raw and transformed data, interfaces, canvas, selection, focus | fetch, transform, merge, refresh, select, search | HTTP API, map focus context | the drawing is what was heard; paths are routes; the selection is one node or a pair |
| Charts, information panels, placeholders for other actions, administration, deployment, Lua dissector, dashboards | – | presentation, set-up | – | – |

`PROJECT.json` lists them with their files and their status, and every hazard at
its line with the properties that would catch it.

## 2. The modules

Each component module declares its parameters as CONSTANTS with named
assumptions, one action for each step that other threads or processes can
observe, and its properties at the end. What is called a *bound* in a CONSTANT's
comment only makes the state space finite. Operators marked `Mutant:` are
plausible bugs of the definition that follows them; no action uses them. They
are there to show that each property would notice.

### `CaptureSessions`

A session is a row (`status`, `scope`, `packets`, `size`), a file (`disk`, the
number of packets in it, `Missing` when unlinked) and an entry of `active`. The
files are written by `writer` objects, which remember whether they are open and
whether the inode they write to still has a name.

- Web process: `StartCapture` commits a RUNNING row and queues its activation;
  `StartReply`, `StartTimeout`, `StartRefresh` and `StartMarkError` are the wait
  for the task and the except branch; `Request` queues stop, cancel, delete and
  delete-all.
- Paho thread: `SelectTargets`, then either the write loop (`WritePacket`,
  `CountPacket` or `CountRaises`, `PopAtError`, `SaveError`), or the activation of
  running sessions (`QuerySessions`, `IngestCheck`, `IngestOpen`, `IngestOpenFails`,
  `Reselect`), and at the end the handling of full writers (`PopAtLimit`,
  `LimitRaises`, `SaveLimit`).
- Task thread: `Take…` begins a task, and `TaskCheck`, `TaskOpen`, `StopRead`,
  `StopSave`, `CancelSave`, `UnlinkFile`, `NothingToDelete` and `DeleteRow` are its
  steps.
- `Crash`: the worker loses map, writers and the task in hand; rows, files and
  queue stay.

Sizes are counted in packets and the limit likewise; file names, snapshots of the
payload and the pcapng format are abstracted (`activated_any`, the parsing error
and the I/O error are kept as branches).

### `PeriodicJobs`, `PeriodicSchedule`

The unit of time is one beat tick. `ScanJobs` is the transaction of the scan (due
jobs whose row nobody holds, oldest first, at most `Batch`, `next_run_at` advanced):
`select_for_update(skip_locked=True)` leaves out a job whose row a client's write has
locked (`Locked`, `Selectable`), even with room left in the batch. `QueueRun` queues one
execution after the commit; `TakeRun`, `Publish` and `MarkRun` are the execution.
Clients create, read (`ReadForEdit`), lock the row by the statement that writes it
(`BeginWrite`) and commit it: `SaveEdit` (the whole row, inserted again if it is gone)
or `Delete`. `MarkRun` waits for such a lock, a scan does not. `tally` is a history
variable.

`PeriodicSchedule` is the abstract specification: a due job is released, which
moves its next run a period ahead, and each release is owed at most one run. The
refinement maps `owed` to the occurrences of a job in the queue and in the hands
of the scan (`RunsAsScheduled`). `tally` also remembers how often a due job was left
out by scans, how often of these because its row was locked, and how often it and the
others were saved (`NoJobPassedOver` bounds the first without the second; how often
the row may be locked is up to the clients, and only `MaxSkips` bounds it).

### `ReactivePublisher`

One row (`db`), one `copy` per process, the switch `on`, the worker's attempts
`tried`. `_configure_publisher_reactive_runtime` is four steps in either process
(`LoadConfig` twice, `InstallConfig`, `Switch`), because it releases the lock
between them; a received packet is one step (`IgnorePacket`, `Inject`), because
`on_packet_received` holds the lock throughout. `read` is when the worker last
looked at the row; `off` records since when the row says disabled. `Inject` is the
attempt, whether or not the publication succeeds, as in the code. Which packets
match, and through which channel, interface and gateway, is abstracted:
`IgnorePacket` may always happen.

### `ProbePath`

How a traceroute to one node leaves and its answer comes back. A Paho thread in a
callback neither writes to nor reads from its connection (`InLoop`). `publish` waits
until the acknowledgement is there or five seconds are over (`Confirm`, `TimeOut`);
`MarkPending` and `CreatePending` follow a success. A packet of the node goes
through `Read…`, `SaveNode` (the whole row), then for an answer `Reach` or
`NoRequest`, `FindRow` and `WriteRow`, in up to two passes (the handler of the port
and `_process_probe_response`; a routing error takes only the second), and then to
the publisher service under the lock (`Ignore`, `Inject`). Two saves of the node
that follow each other are one step. Disconnections, and what the broker delivers
again after them, are not modelled, nor are several probed nodes.

### `NodePresence`

The keepalive check is one transaction that holds the lock of the configuration
row: `Begin` reads it and lists the nodes whose `last_seen` lies in the window
between the last run and this one; `Probe`, `Confirm` and `GiveUp` publish to each,
and after a confirmation the node's row is locked too; `Commit` records the events
and `last_run_at`. `Fail` rolls back and notes the run outside of the transaction,
as the task does; `Crash` only rolls back. A Paho thread reads the clock in `Hear`
and writes in `Save`, when no transaction holds the row. A client reads the
configuration without a lock and saves all of it.

Nodes are those in scope. A configuration that is enabled and incomplete, or of
another payload type, is refused by `full_clean`. `full_clean` also keeps
`check_interval_seconds` positive, so the branch for an empty window is never taken. `LagAssumption` says
that saving a node takes less time than the shortest silence that counts (which
`MIN_OFFLINE_AFTER_SECONDS` puts at a minute or more).

### The web client

One module for each part that has a state of its own. They share conventions:
requests in flight are slots or a sequence (the bound is the number of them), what
the server does, an answer and an error of each request are separate actions, so that
an answer can be lost when the server has acted; the server is reduced to
what its answers depend on, and a *history* variable (`…Trusted`, `…Mixed`, `…InOrder`)
with the order of what is in flight (`…Older`, `cpNewer`)
remembers that an answer was lost or overtaken, which the client does not
protect itself from: the property says nothing after that, and the model shows
that everything else is harmless. Parts that share no state are composed in
`MCWebForms` and `MCWebPanels`, where a behaviour follows one of them.

- `AuthSession`: cookies, the user, calls with their tokens. `Send`, `Answered`,
  `Refused`, `Refreshed`, `RefreshRefused`, `ReplayRefused`, `RetryRefused`, `GiveUp`
  are the interceptors; a refused refresh goes through them again (`RefreshedDeep`).
  `Serve` is the server, which marks a call it performs (`acted`) and notices when it
  performs one again (`repeated`).
  `SubmitLogin`, `LoggedIn`, `Logout`, `Reload`, `Load`, `Middleware`, `HomeRedirect`
  are pages and context; cookies lapse and tokens expire by themselves.
- `ServiceForms`, `PeriodicForm`, `ChannelFields`, `OneShotForm`: the four kinds of form
  of the actions panel. Units, clamps and defaults of the conversions between a form
  and a configuration are modelled (`FormOf`, `ReactivePayload`, `KeepalivePayload`,
  `Minutes`); what the API stores is taken from its controller (`Stored`). A draft of a
  job is `unsent`, `sent` or `lost` (`pjDraft`): after a create that the server performed
  and whose answer was lost, the form sends it again and makes a twin. `NoTwinJobs`
  says so and exempts it.
- `DashboardNavigation`: the address changes when the router commits it, so handlers
  act on the address of their render (`Navigate`, `Commit`).
- `LinksPanel`: filters, list, selection, details with the watchdog of six seconds.
  `CapturesPanel`: every command ends with the refresh of the closure it was clicked
  in, which that closure's flags may skip: then the list lacks what was done, and
  `OneCaptureAtATime` says nothing until a list is right again (`cpTrusted`). Sessions
  also end by themselves (`EndAlone`), which leaves the list too long but harmless, and
  other clients act (`OtherActs`), which ends the trust. `VirtualNodes`: list, form,
  suggestions, and the keys the server holds; the list is asked for, served, and lands
  or fails in steps of their own (`ListServed`, `ListLands`, `ListFails`).
  `NodeDetails`: one effect for each section, with its cleanup. `OverviewPanel`: one
  load at a time, dialogs, commands to an interface and the timer that closes.
- `GraphTransform`: what nodes and edges become for graph and map, filters and hidden
  chains included. `GraphPaths`: the three breadth-first searches, one turn of a loop
  each. `NodeSelection`: clicks and focus that wait for the server. `NetworkGraph`:
  the hook that fetches, the effect on interfaces, the copies to the canvas. Data is
  told apart by the settings it was fetched for and by a version of what the server
  holds, so that fresh data of the same settings and older data copied over it differ;
  other settings or data run the effect twice (`AskTwice`), with the nodes of before
  and with those of the hook's second transformation.
  `NetworkMap`: markers, focus and its timer, and the map itself, a chunk of the page
  that arrives some time after the tab was opened (`ChunkLoads`) and is mounted anew
  with another number of markers (`Remount`). The timer does not wait for it.

## 3. The runs

All passing runs explore the whole state space within the bounds. The MC modules
add symmetry sets, used only for safety, and what relates modules.
`CHECK_DEADLOCK FALSE` is set everywhere: packets, edits, requests and the clock
are bounded, so a behaviour may come to a legitimate end. That a thread or a
request does not hang is stated as a liveness property instead.

| Run | Bounds | What it shows |
|---|---|---|
| `capture_races` | 1 session, 2 ingest threads, 2 writers, limit of 1 packet, 3 packets, 1 request, 1 death | `ActiveWriterOpen`, `SizeLimitKept`, `NeverOvercounted`, `EndedStaysEnded` under every interleaving of two ingest threads, the task thread and the API |
| `capture_live` | 1 session, 1 ingest thread, 2 requests, 1 death | an accepted stop ends the session (`StopTakesEffect`) and every start request comes to its end (`StartAnswered`) |
| `periodic_jobs` | 2 jobs, batch of 1, 1 client, 1 edit, 1 waiting scan, 1 tick, 1 death, 1 scan that finds a row locked | `RunBudget`, `NoJobPassedOver`, `DueJobRuns` and the refinement `RunsAsScheduled` |
| `periodic_deleted_job` | 1 job, 1 client, 2 edits | counterexample to `DeletedJobGone` |
| `reactive_limits` | 1 node, at most 2 tries, window 2, refresh 2, time 3, 5 packets, 2 edits, 1 task, 1 death | `LimitBetweenClears`, `SilentWhenOff` |
| `probes` | 2 interfaces, 2 probes, 3 echoes or answers, 1 other packet, 1 death | `OwnThreadUnconfirmed`, `FewRows` |
| `probes_return` | the same with 2 echoes or answers and no death | `EveryThreadReturns` |
| `node_presence` | 2 nodes, 1 interface, 1 client, silences of 2 and 3, time 3, 2 edits, 1 failure or death | `RecordedOnceUnedited`, `NoSilenceMissed`, `CheckEnds` |
| `web_session` | 2 sign-ins, 2 calls, 1 expiry of each access token | `OwnSession`, `PerformedOnce`, `CallsEnd` |
| `web_forms` | 2 requests in flight for each form, 1 job, 2 names, 2 channels, 2 nodes, 4 tabs | `SettledFormIsConfig`, `JobsPageIsTrue`, `NoTwinJobs`, `PkiRoundTrip`, `SourceConsistent`, `FocusGivenBackOnce`, `FormsReady` |
| `web_panels` | 2 or 3 requests in flight for each panel, 2 of each thing listed, 3 keys of a virtual node (`VirtualBound`), 2 versions of the graph's data (`GraphBound`); graphs of 4 nodes for paths and 2 for the transformation, up to 2 hops | `ShownIsChosen`, `ListsAreServers`, `OneCaptureAtATime`, `GraphIsTrue` |
| `graph_interfaces_cost` | the 4 nodes of `web_panels` | counterexample to `InterfacesCostNothing` |

Other configurations are kept beside these and run by hand; each finds the
counterexample the section on disagreements names: `MCCaptureSessions_DeletedLeavesNoFile`,
`MCReactivePublisher_LimitHolds`, `MCProbePath_FlagTellsAnswer`, `MCNodePresence_RecordedOnce`,
`AuthSession_ExpiredSessionLeaves`, `ChannelFields_PkiRestoresOwnChannel`,
`NetworkMap_FocusMeetsMap`, `GraphTransform_AssumedLinksDrawn`. `PortsShownTrigger`
(`ServiceForms`), `StalledShowsNoSpinner` (`LinksPanel`) and `KeptUntilClosed`
(`VirtualNodes`) need a configuration with the constants of `MCWebForms_forms` and `MCWebPanels_panels`. One more passes:
`MCCaptureSessions_orphans` checks `SizeLimitKept` and `NeverOvercounted` with 2
sessions, 1 ingest thread, 2 packets and 1 deletion.

Why the bounds are enough for the cases that matter:

- Captures: two ingest threads and the task thread can each open a writer for the
  same session (two writers, so one replaces the other); with a limit of one
  packet the first packet already fills a file while another thread holds its
  writer; the third packet finds what the first two have left. Sessions share
  only the loops over targets and rows, which cut each other short when one of
  them raises: that takes a second session, one thread and a deletion
  (`MCCaptureSessions_orphans`, by hand). The theorems cover any number of sessions, threads and writers.
- Jobs: two due jobs and a batch of one make the order matter; one tick is one
  minimal period, so a job is released, is advanced, and becomes due again, while
  a period of 0 is offered and refused. With two jobs a batch can only pass over
  for the one other job; the theorems have no bound. A job's row
  is found locked by one scan while its write outlasts it; then the other job is taken
  although the batch had room for this one, and the write is committed before or after
  the worker dies.
- Reactive publisher: five packets are one more than a burst needs, so that a
  window may already be under way; three ticks are a window and its successor.
- Probes: two interfaces give the two ways a Paho thread may publish (through
  itself, through another) and two copies of every answer; two probes let an
  answer of the first meet the pending row of the second.
- Keepalive: with an interval of 1, three ticks hold several checks whose windows
  meet at a tick on which a node may have been heard; two nodes let one row be
  locked while the thread that reads the acknowledgement waits to save it.
- Web client: a stale answer needs two requests, and a third only to be overtaken
  twice, which the history variables count as once. Two nodes, links or names tell
  "the chosen one" from "another"; the selection takes three, because a third click
  replaces the second node. Three keys let two rotations of one node overlap: that
  takes two requests. A behaviour with two other changes of the virtual nodes under way
  together is followed while every node has its first key (`VirtualBound`), since nothing
  is said there of a key on display. Two versions of the graph's data are what tells
  fresh data from older data of the same settings. A change of settings or data asks for
  the interfaces twice, so with three requests for them a fetch is answered while one of
  them is in flight. A behaviour of the graph is followed while it has at most three
  requests in flight (`GraphBound`), which also lets one fetch overtake another beside a
  request for interfaces, and until an answer overtakes another or a timer undoes a
  change (`ngMixed`), after which nothing is stated. In
  `GraphPaths` two nodes between the ends give paths of one, two and three links, an
  interface before or after a counted node, and more routes than the limit of hops
  admits; three paths are as many as are cut. In `GraphTransform` two nodes have all
  four edges, a self-directed edge and links of up to two hidden nodes; the numbering
  of hidden nodes over several edges is in it.

### Fairness

- `CaptureSessions!FairSpec`: the solo worker keeps executing tasks, and a request
  is answered or times out (`task.get(timeout=…)`). Ingest threads, packets and
  deaths are free. After a death the property asks nothing, because a task in hand
  was acknowledged already and is lost.
- `PeriodicJobs!FairSpec`: beat keeps queueing scans, the worker keeps taking
  messages, and a statement that has locked a row is committed (`Commit`; Django commits
  each save or delete by itself). The clock and the clients are free: when an edit is
  begun, and when its write takes the lock, is up to them.
- `ProbePath!FairSpec`: each thread goes on with its callback and with its wait
  (`MayTimeOut` is the deadline of `publish`). The network owes nothing: no
  transmission, acknowledgement or answer is fair. Weak fairness is enough for the
  lock, since only publications take it and they are bounded.
- `AuthSession!FairSpec`: a request is answered or fails, and a page that is told to
  leave leaves (`Progress`, `Leave`). `CallsEnd` asks nothing once a refresh token has
  expired: then refreshes of refreshes go on for as long as the server refuses them.
- `ServiceForms!SvcFair`, `PeriodicForm!PjFair`: a request is answered or fails
  (axios has no time-out, the browser and the server have). The user owes nothing.
- `NodePresence!FairSpec`: the task thread goes on with its check. Paho threads and
  acknowledgements are free.

### Disagreements with what the repository says

Two of them are runs (1, 2); the others are run by hand, as said above.

1. `periodic_deleted_job`: `update_periodic_job` saves a row that was deleted since
   it was read, which inserts it again (`controllers/publisher_controller.py:628`),
   after another client was told "Periodic job deleted" (`:642`).
2. `graph_interfaces_cost`: `findPathsBetweenNodes` drops a path whose hops have
   reached the limit (`web:lib/pathFinding.ts:85`), even if only an interface is left
   to pass; the reachable nodes go beyond it (`:147`). A node can be highlighted as
   within reach and have no path. `web:lib/__tests__/pathFinding.test.ts:20` says
   "treats zero-hop nodes as not counting toward hop limit".
3. `FocusMeetsMap`: `focusOnNode` returns when there is no map yet
   (`web:components/NetworkMap.tsx:523`), and the timer that called it clears the focus
   all the same (`:559`). The timer counts 500 ms from the first markers and does not
   wait for the chunk that brings the map (`:25`), so a node handed over on a slow page
   is never focused on, although `:556` calls it "Small delay to ensure map is fully
   rendered".
4. `DeletedLeavesNoFile`: an ingest thread reads a RUNNING row
   (`services/capture_service.py:195`), `delete_capture` removes file and row, and
   then the thread opens the file again (`:199`). The file stays, for a row that is
   gone, although line 405 says "Delete a capture session and remove its file from
   disk."
5. `LimitHolds`: every publishing task starts the reactive service anew,
   which clears the attempts (`services/publisher_service.py:353`), so that the
   promise of `src/docs/FEATURES.md:156`, "Attempt windows / rate limiting to avoid
   repeated injection loops", holds only between two publications.
6. `FlagTellsAnswer`: an answer that is processed before `publish` has returned is
   overwritten by the mark of the pending probe (`services/publisher_service.py:738`),
   and a save of the whole node by another thread undoes it as well
   (`mesh/packet/handler.py:1217`), although `models/node_models.py:184` says the
   flag "Indicates whether the most recent latency probe received a response."
7. `RecordedOnce`: a save of the configuration that waited for a check puts
   `last_run_at` back (`controllers/keepalive_controller.py:150`), and the next check
   records the same silences again, although `models/keepalive_models.py:110` says
   the table "Records when nodes transition from online to offline."
8. `ExpiredSessionLeaves`: a refresh goes through the interceptors itself, so a refused
   one is answered by another (`web:lib/api.ts:66`), and that for as long as the
   cookie is there: the page does not leave for the sign-in, which
   `web:lib/__tests__/api.test.ts:110` ("clears cookies and redirects on refresh
   failure") says of a refresh that is rejected.
9. `PortsShownTrigger`: for a configuration without ports the reactive form shows the
   initial ones as selected, although `models/publisher_models.py:42` calls the stored
   ones the "Allowed Meshtastic port names that should trigger".
10. `PkiRestoresOwnChannel`: the channel PKI put aside is kept for the form, not for
    the job it belongs to (`PublishingActions.tsx:575`, "Remember previous periodic
    channel values to restore on uncheck").
11. `StalledShowsNoSpinner`: the watchdog of the links panel ("to avoid indefinite
    spinner", `web:components/LinksPanel.tsx:171`) leaves the spinner on, which hides
    the message of the watchdog (`:652`).
12. `KeptUntilClosed`: a second new key replaces the one on display, although the
    dialog says keys "are shown only once" (`web:components/VirtualNodesPanel.tsx:947`).
13. `AssumedLinksDrawn`: "Create reverse links if forceBidirectional is enabled"
    (`web:lib/networkTransforms.ts:203`), and the links so made are skipped (`:262`).

## 4. The proofs

Each `…Proofs` module EXTENDS its component (`WebFormsProofs` and `WebPanelsProofs` the
modules that compose the forms and the panels) and needs nothing but the named
assumptions on the constants (and the hypothesis a theorem states). The bounds are
arbitrary natural numbers there, and sets of threads, sessions, nodes, links, requests
in flight and clients are arbitrary (those of jobs, the threads and writers of captures
and probes, and the nodes a path may pass, finite). Every
proof has the same shape: an inductive invariant, one lemma for each group of
actions with a step for each action, and a last step by temporal logic.

| Theorem | Property | Argument |
|---|---|---|
| `CaptureSessionsProofs!TypeCorrect` | `TypeOK` | inductive as it stands |
| `CaptureSessionsProofs!ActiveWriterAlwaysOpen` | `ActiveWriterOpen` | `Safe` adds `HeldOut`: a writer the task thread has popped is not in the map any more, so closing what it holds closes nothing the map offers. A writer is opened for one session only, which makes entries distinct |
| `CaptureSessionsProofs!CountedOnce` | `NeverOvercounted` | `Counts`, with `Rounds`: a thread at its counters has in its hands a writer of the session whose packet it has appended and nobody counted; a writer keeps its session and its place (`Kept`) |
| `CaptureSessionsProofs!FilesStayInLimit` | `SizeLimitKept` | `Roomy` and `FileRoom`, see below |
| `CaptureSessionsProofs!EndedForGood` | `EndedStaysEnded` | an action property: every write of a status is an update by key to an ended status, or the status `stop_capture` read, which `GotPresent` shows was RUNNING or ended |
| `PeriodicJobsProofs!TypeCorrect` | `TypeOK` | with `SliceType`: a slice is a sequence of due jobs |
| `PeriodicJobsProofs!BudgetKept` | `RunBudget` | `Budget`: the releases beyond one for each save fit between the job's birth and the later of now and its next run (`Paid`), because a release needs a next run that is over and sets it a period ahead. A save of a stale row may move the next run anywhere, and pays for that with the release it is allowed itself |
| `PeriodicJobsProofs!NobodyPassedOver` | `NoJobPassedOver` | `Turns`: the batches that left a job out while its row was free, and the jobs that could be ahead of it in the next (`Ahead`), are together no more than the bound. A batch that leaves it out is taken from `Ahead` and goes behind it (`PassedBy`); a save of another job may come ahead again, one of its own lets all of them; a scan that finds its row locked counts apart and takes nobody from `Ahead` |
| `PeriodicJobsProofs!ScheduleImplemented` | `RunsAsScheduled` | `Handed`: what the scan has still to queue is a slice without repetitions, and empty at any other time. Then every action is a release, a run, an edit or a stutter of the schedule (`PlacesAppend`, `PlacesTail`, `PlacesDistinct` count a job's places in the queue) |
| `ReactivePublisherProofs!TypeCorrect` | `TypeOK` | with `Loaded`: a process that installs has loaded |
| `ReactivePublisherProofs!LimitKept` | `LimitBetweenClears` | `Limited`: the log since the last clear consists of the present window, with as many entries as `count`, and older entries that hold no burst with it (`Pace`); `NewWindow` and `SameWindow` append to it |
| `ReactivePublisherProofs!OffMeansSilent` | `SilentWhenOff` | `Quiet`: while the row says disabled, a worker that is still on has read it before, and its copy gets old at most `Refresh` after that |
| `ProbePathProofs!TypeCorrect` | `TypeOK` | with `Busy`: what a thread works on exists |
| `ProbePathProofs!NeverConfirmed` | `OwnThreadUnconfirmed` | `Stuck`: a probe that a Paho thread waits for on its own interface is still queued, since only that thread could transmit it; `Counted`: a probe that was not published yet is nobody's |
| `ProbePathProofs!RowsAreFew` | `FewRows` | `Fits`: the rows of a probe are no more than the threads that have had their turn with it (`Spent`): an interface sets out to append a row only when there is none, and is spent when it has appended; the publisher is spent when it is through, and no two threads publish the same probe (`Sole`) |
| `NodePresenceProofs!TypeCorrect` | `TypeOK` | – |
| `NodePresenceProofs!NoneTwice` | `RecordedOnceUnedited` | `Inv`: events of this edition lie at or below the right end of the last window (`Below`), those of a check in progress above it (`Windowed`), and windows share an end only |
| `NodePresenceProofs!NoneMissed` | `NoSilenceMissed` | a node saved during a check was heard less than `MaxLag` ago and lies in no window (`Fresh`), so that the list of the check is complete when it commits (`Listed`, `Long`) |
| `AuthSessionProofs!TypeCorrect` | `TypeOK` | with `Tracked`: a refresh under way has a token of a session, and a sign-in under way has one left to issue |
| `AuthSessionProofs!CookiesAreOwn` | `OwnSession` | `Own`: a refresh under way that no sign-in or sign-out has made a stray (`StrayFrom`) is one of the session signed in, so that what it writes is its own |
| `AuthSessionProofs!CallsPerformedOnce` | `PerformedOnce` | `Once`: a call that the server has performed (`acted`) has its answer, or has lost it and is over, and is not refused: it is not sent again, so `Serve` never finds its mark set |
| `WebFormsProofs!FormsTypeCorrect` | `FormsTypeOK` | what a form is filled with, and what is sent from it, is of its type (`FieldsTyped`, `ConversionsTyped`), and so are tables of jobs (`TablesAre`) and addresses (`UrlsAre`) |
| `WebFormsProofs!SettledFormShowsConfig` | `SettledFormIsConfig` | `SvcShown`: while requests run one at a time and none fails, one is alone in flight, and once served carries what the server holds; or none is, and the form shows the configuration or was edited |
| `WebFormsProofs!JobsPageAlwaysTrue` | `JobsPageIsTrue` | `ListComes`: a request will still be followed by a list, or the newest list on its way is the server's, or the one shown is. `FormLive`: a deletion of the job in the form was clicked from that form, which it will reset |
| `WebFormsProofs!NoJobSentTwice` | `NoTwinJobs` | `DraftKept`: a draft that was sent, and neither refused nor lost on the way back, is in flight as long as its form is there, and one save at most is in flight (`RequestsKept`) |
| `WebFormsProofs!PkiGivesBack` | `PkiRoundTrip` | `RefsKept`: with the switch on and no other job shown, both refs hold the fields of the moment it was turned on |
| `WebFormsProofs!SourceAlwaysConsistent` | `SourceConsistent` | `NamesKept`: once the lists are there, the node of the form is its source, and untyped names are that node's |
| `WebFormsProofs!FocusAlwaysGivenBack` | `FocusGivenBackOnce` | `OwedKept`: what a launch owes is in the storage; the latest address (`Latest`) names that node or none, a focus that is pending is on it, and where nothing leads away from its panel it is pending there |
| `WebPanelsProofs!PanelsTypeCorrect` | `PanelsTypeOK` | the invariants of the ten panels together (`PanelsSound`); a step is one panel's and the others stutter (`PanelsStep`) |
| `WebPanelsProofs!SectionsAlwaysTrue` | `SectionsTrue` | `NdFresh`: a run that is not cancelled was asked for what its section shows at this moment. Whatever changes a key cancels the runs of its section, by the cleanup (`RerunSound`) or as the port goes with its row (`AnsweredSound`) |
| `WebPanelsProofs!PortAlwaysListed` | `PortListed` | `NdPortless`: without the section of activity there is no port; no node has the id of a closed dialog |
| `WebPanelsProofs!ShownAlwaysChosen` | `ShownIsChosen` | the two above; `LkOrderly`: while answers come in order, a request for filters that are no more has a list for the present ones behind it (`lkOlder`); `NmEffect`: the focus and its timer are as the effect leaves them. That the map is there when the timer fires is not part of it, and is not so (`FocusMeetsMap`) |
| `WebPanelsProofs!GuardAlwaysTells` | `GuardTellsLoad` | `OvLoads`: each spinner belongs to the load in flight, of its mode |
| `WebPanelsProofs!StatusesAlwaysListed` | `StatusesListed` | `OvCurrent`: with no command under way, what the load in flight has read is the server's. A command that succeeds starts a load that has read nothing, or finds one and is not trusted |
| `WebPanelsProofs!ListsAlwaysServers` | `ListsAreServers` | the two above; `CpLastListTrue`: something done has its list to come, or the last list on its way, or the one shown, is the server's but for sessions that ended by themselves, lists being in one order (`CpOrdered`); `VnUnmixed`: a rotation, a save or a deletion runs alone, what a save was answered is the server's key, and so is what is shown while no change is asked for |
| `WebPanelsProofs!NoSecondCapture` | `OneCaptureAtATime` | an action property: one start is in flight at most (`CpOneStart`), and what runs is listed by the list of the start that has not ended and those read after it, or without one by the list shown and those newer (`CpRunningListed`) |
| `WebPanelsProofs!GraphAlwaysTrue` | `GraphIsTrue` | see below for the drawing and the paths; `NsFocusAsked`: a pending focus has its request; `NgFetched`, `NgAsked`, `NgCopied`: what was asked for last is for the settings, the data in its version and the selection of now, and with nothing in flight it is what was built and copied |

The argument for the size limit. A thread *holds* a writer it has found full, or has
written to and not yet counted; other threads have *still to write* to it. While a
writer is in the map, its file is below the limit, plus one packet for each thread
that holds it, plus one for each pair of a thread and an orphaned writer of another
session that thread has *met*, that is, let go of for good (`InRoom`). A packet
moves its thread from those that have to write to those that hold; a thread stops
holding a writer that stays in the map only when it found it below the limit, or when
an orphan raised and cut its round short, and it meets that orphan once, because an
orphan that is in no hands and not in the map never comes back (`StopsHolding`,
`SpentStays`). Nobody both holds a writer and has still to write to it, and once the
writer has left the map nobody new selects it, so position plus threads that have
still to write stay below the limit plus one packet for each thread and each such pair
(`OutRoom`). The invariants were first checked with TLC, with two sessions and a
death of the worker (9 million states).

The argument for the paths. A *walk* is a path of the graph from the first node
that passes no node twice (`GpWalk`), and a queue *waits* for a walk when it holds a
beginning of it (`GpWaits`). The two searches keep: every walk within the limit was
extended, or waits (`GpReaching`, and `GpFinding` for the routes of at most `maxHops`
nodes): taking a path out of the queue puts back every walk one link longer, and a
walk the queue waited for by that path is that path or waits by one of those
(`GpReachTurn`, `GpPathTurn`, over `GpMoved`: what a turn does to a queue). An empty
queue waits for nothing, so nothing is missed. Routes are found shortest first because
the queue is in order and its lengths differ by one at most (`GpOrdered`). The check at the end drops nothing, as what was found are walks.

The argument for the drawing. `TfNodesAre` and `TfLinksAre` say which nodes and links
there are. A way from one node to another enters hidden nodes only, and each of
them has one link in and one out, both of its own edge; so a way, from its first
step on, follows the chain of one edge to its end (`TfWayFollows`, `TfWaysAre`). That
is an induction along the way. The theorems of the library that take a property as a
parameter cannot be used here; `AllNaturals` states induction for a *set* of naturals
instead, from the well-foundedness of `<`, and the proof applies it to the set of
positions up to which way and chain agree.

Two properties had been stated too strongly, and their runs were too small to
notice: `SizeLimitKept` without the orphans fails with a second session (a thread that
writes to a deleted one leaves the other over the limit in the map, which admits a
packet a thread more), and the bound of `NoJobPassedOver` fails with three jobs,
two of which are saved in turn. Both counterexamples came up when the inductive
invariants did not hold; the properties now say what the code does.

The invariants of the web client needed three changes of form in its modules, none in
what they say: the order of requests that was a queue of slots is a relation between
slots now (`lkOlder`, `cpOlder`, `pjOlder`: what was in flight before), because an
inductive invariant speaks of pairs and not of positions; the filter at the end of
`PathDone` picks indices; "one link" is stated without counting. Hence also the
assumptions of `MCWebForms` and `MCWebPanels`: positive bounds, no node or channel
that is the word for none, two different ends of a path, finitely many other nodes.

All properties of the passing runs that are not about liveness are proved. Only
model-checked: the liveness properties (`StopTakesEffect`, `StartAnswered`,
`DueJobRuns`, `EveryThreadReturns`, `CheckEnds`, `CallsEnd`, `FormsReady`), because
TLAPS here proves neither fairness nor ENABLED.

## 5. What is not modelled, and why

- Interface runtime, packet ingestion beyond probes, logical links and metrics of the
  server: planned below. Allocation of identities by the server is one step of
  `VirtualNodes`.
- Ciphers, protobuf crafting and pcapng layout: data transformations of libraries
  or without state.
- Read-only endpoints, admin pages, migrations, seeds, dashboards, the Wireshark
  dissector: presentation and set-up.
- Web client: charts, canvas drawing and touch, styles, information panels, the panels
  that load once and show (`KeyHealthPanel`, `PortDetailsModal`, `ChannelDetailsModal`,
  `InterfacesPanel`, `OverviewMetricHistoryModal`). The cards for tampering, denial
  of service and escalation are imported by their tests only and call nothing.
- Web client, inside modelled parts: suggestions of inputs, drafts of date ranges, the
  search for a hardware model, hovering, the node of the broker in the selection (the
  graph filters it out before it could be clicked).
- Several tabs of a browser: each has its own page; the cookies they share are in
  `AuthSession` for one page only.
- Time-outs of the database, full disks and the loss of Redis: no code handles
  them; a task or a callback that raises is in the models.
- Shutdown (`stop_all`): the processes are killed, never asked.

Hazards of unmodelled or abstracted parts that no property covers:

| Where | What can go wrong |
|---|---|
| `services/capture_service.py:262` | two starts with one name in one second choose the same file |
| `services/publisher_service.py:351` | a disabled service is enabled again by the flag read before |
| `mesh/packet/handler.py:131`, `:189` | an answer fills the oldest pending row; copies overwrite the latency |
| `tasks/metrics_tasks.py:113` | a node heard between two statements has a history row and no change |
| `services/service_manager.py:36`, `:141`, `:163` | status in memory and row differ; a reload stops a wrapper others hold |
| `mesh/packet/handler.py:748`, `:1110`; `models/link_models.py:100` | segments of unknown hops; names unbound for undecoded packets; counters and flag in separate statements |
| `web:components/InterfaceDetailsModal.tsx:25` | the timer of a command closes the dialog of another interface |
| `web:components/actions/PublishingActions.tsx:1640` | a second click on Start publishes twice |
| `web:components/NetworkMap.tsx:284` | a coordinate of 0 counts as unknown |
| `web:components/VirtualNodesPanel.tsx:379` | the private key of a created node is not shown |

## 6. Plan

Done, in the order in which they matter: capture sessions, periodic jobs with
their abstract schedule, reactive publisher, probe path, keepalive, each with its
theorems; then the web client, with theorems about the session, the forms and the
panels. To come:

| Module | Composes | Questions |
|---|---|---|
| `PacketIngest` with `NodeLinks` | `on_message` for several copies of a packet, `record_activity`, `mark_unreachable_nodes`, snapshots | do duplicates multiply rows, do counts and direction flags of a link agree with its packets, does an old packet move `last_activity` back, is a node heard in time ever marked unreachable |
| `InterfaceRuntime` | wrappers, rows, tasks of start, stop and reload, publishers that hold a wrapper | does the status in memory and in the row tell whether a loop runs, may two loops of an interface run, does a publisher use a closed client |
| `RouteSegments` | `build_edge_segments` and other pure functions of the handler | which SNR belongs to which pair, what unknown hops do |
| abstract specifications | a capture as a log with a limit, a probe as a request with at most one answer, a panel as a view of the server | refinement by `CaptureSessions`, `ProbePath` and the panels |
| theorems | – | the modules above, and the refinements |
