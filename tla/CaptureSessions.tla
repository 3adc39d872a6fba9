--------------------------- MODULE CaptureSessions ---------------------------
(***************************************************************************)
(* The PCAP capture sessions of services/capture_service.py.               *)
(*                                                                         *)
(* A session is a database row (status, packet_count, file_size), a file   *)
(* on disk, and, while it records, an entry of the worker's _active map    *)
(* that owns a PcapNgWriter.  Three kinds of thread work on them:          *)
(*   - web requests, which create rows and hand every operation on a       *)
(*     writer to the worker as a Celery task;                              *)
(*   - the worker's task thread (Celery's solo pool: one task at a time);  *)
(*   - one Paho network thread per MQTT interface, which records each      *)
(*     packet it receives (handle_ingest).                                 *)
(* _lock protects the map and nothing else: between two steps of a thread  *)
(* the others may change the row, the map, the writer and the file.        *)
(***************************************************************************)
EXTENDS Integers, Sequences, FiniteSets

CONSTANTS
    Sessions,      \* capture sessions (primary keys)
    Interfaces,    \* MQTT interfaces, one ingest thread each
    Writers,       \* PcapNgWriter objects: bounds how often a file is opened
    Task,          \* the worker's task thread
    AnyInterface,  \* scope of a session whose interface is NULL
    NoWriter,
    NoSession,
    Limit,         \* CAPTURE_MAX_FILESIZE, counted in packets
    Ops,           \* the requests clients make, besides start
    MaxPackets,    \* bound: packets received in a behaviour
    MaxRequests,   \* bound: stop, cancel and delete requests
    MaxCrashes     \* bound: deaths of the worker process

ASSUME ProcAssumption == Task \notin Interfaces
ASSUME NullAssumption == NoWriter \notin Writers /\ NoSession \notin Sessions
ASSUME LimitAssumption == Limit \in Nat \ {0}
ASSUME FiniteAssumption == IsFiniteSet(Interfaces) /\ IsFiniteSet(Writers)
ASSUME BoundAssumption ==
    /\ MaxPackets \in Nat /\ MaxRequests \in Nat /\ MaxCrashes \in Nat
    /\ Ops \subseteq {"stop", "cancel", "delete", "deleteAll"}

VARIABLES
    status,     \* row: CaptureSession.status, or "Absent" / "Deleted"
    scope,      \* row: interface the session is restricted to
    packets,    \* row: packet_count
    size,       \* row: file_size
    disk,       \* packets in the session's file, Missing when there is none
    active,     \* worker: CaptureService._active
    writer,     \* worker: the writers opened so far
    at,         \* where each thread of the worker is
    todo,       \* writers an ingest thread has still to write to
    over,       \* writers an ingest thread has found at the limit
    rows,       \* sessions a thread's loop has still to handle
    cur,        \* the writer an ingest thread is handling
    opening,    \* the session a thread is about to open a writer for
    activated,  \* activated_any of an ingest thread
    measured,   \* bytes_written as read by a thread
    job,        \* the task being executed
    held,       \* writers the task thread has popped
    got,        \* row status as read by stop_capture
    queue,      \* Celery queue
    web,        \* where the start request of each session is
    result,     \* result backend: outcome of the activation task
    used        \* how much of each bound is used

rowVars == <<status, scope, packets, size>>
ingestVars == <<todo, over, cur, activated>>
taskVars == <<job, held, got>>
webVars == <<queue, web, result>>
vars == <<rowVars, disk, active, writer, at, ingestVars, rows, opening,
          measured, taskVars, webVars, used>>

Procs == Interfaces \cup {Task}
Missing == -1
Ended == {"COMPLETED", "ERROR", "CANCELLED"}
Status == {"Absent", "RUNNING", "Deleted"} \cup Ended
Scope == Interfaces \cup {AnyInterface}
OptWriter == Writers \cup {NoWriter}
OptSession == Sessions \cup {NoSession}
Steps == {"idle", "query", "activate", "open", "write", "count", "limit",
          "limitSave", "error", "errorSave", "check", "stopRead", "stopSave",
          "cancelSave", "unlink", "rowDelete"}
WebSteps == {"none", "waiting", "failing", "marking", "done"}
Job == [op : {"activate", "stop", "cancel", "delete", "deleteAll"},
        session : OptSession]
NoJob == [op |-> "deleteAll", session |-> NoSession]
Writer == [session : OptSession, pos : Nat, open : BOOLEAN, linked : BOOLEAN]
Unborn == [session |-> NoSession, pos |-> 0, open |-> FALSE, linked |-> FALSE]

Init ==
    /\ status = [s \in Sessions |-> "Absent"]
    /\ scope = [s \in Sessions |-> AnyInterface]
    /\ packets = [s \in Sessions |-> 0]
    /\ size = [s \in Sessions |-> 0]
    /\ disk = [s \in Sessions |-> Missing]
    /\ active = [s \in Sessions |-> NoWriter]
    /\ writer = [w \in Writers |-> Unborn]
    /\ at = [p \in Procs |-> "idle"]
    /\ todo = [i \in Interfaces |-> {}]
    /\ over = [i \in Interfaces |-> {}]
    /\ rows = [p \in Procs |-> {}]
    /\ cur = [i \in Interfaces |-> NoWriter]
    /\ opening = [p \in Procs |-> NoSession]
    /\ activated = [i \in Interfaces |-> FALSE]
    /\ measured = [p \in Procs |-> 0]
    /\ job = NoJob
    /\ held = {}
    /\ got = "Absent"
    /\ queue = <<>>
    /\ web = [s \in Sessions |-> "none"]
    /\ result = [s \in Sessions |-> "none"]
    /\ used = [packets |-> 0, requests |-> 0, crashes |-> 0]

------------------------------------------------------------------------------
(* Helpers *)

Present(s) == status[s] \in {"RUNNING"} \cup Ended

Matches(s, i) == scope[s] \in {i, AnyInterface}

\* _select_targets: the active captures packets of interface i go to
Targets(i) == {active[s] : s \in {t \in Sessions : /\ active[t] # NoWriter
                                                   /\ Matches(t, i)}}

Closed(W) == [w \in Writers |->
                IF w \in W THEN [writer[w] EXCEPT !.open = FALSE] ELSE writer[w]]

\* PcapNgWriter.bytes_written; Missing stands for the FileNotFoundError that
\* os.path.getsize raises once the writer is closed and the file is unlinked
BytesWritten(w) == IF writer[w].open THEN writer[w].pos
                   ELSE disk[writer[w].session]

\* Mutant: save() without update_fields, which inserts a missing row again
SetStatusResurrecting(s, new) == status' = [status EXCEPT ![s] = new]

\* Mutant: the save uses the status of another model for a stopped session
SetStatusMisnamed(s, new) ==
    status' = [status EXCEPT ![s] = IF ~Present(s) THEN @ ELSE
                                    IF new = "COMPLETED" THEN "STOPPED" ELSE new]

\* An update of a row by primary key: no effect when the row is gone
SetStatus(s, new) ==
    status' = [status EXCEPT ![s] = IF Present(s) THEN new ELSE @]

\* Mutant: the writer is looked up in the map but left there
PopGet(s) == UNCHANGED active

\* self._active.pop(session_id, None), under _lock
Pop(s) == active' = [active EXCEPT ![s] = NoWriter]

\* Mutant: the limit is only noticed once it is exceeded
ExceedsLimit(bytes) == bytes > Limit

\* bytes_written >= self._max_bytes
Full(bytes) == bytes >= Limit

\* Mutant: the packet and its decoded payload are counted separately
CountedTwice(s) == IF Present(s) THEN packets[s] + 2 ELSE packets[s]

\* packet_count = F("packet_count") + 1, by primary key
Counted(s) == IF Present(s) THEN packets[s] + 1 ELSE packets[s]

\* A writer object nobody has opened yet
Fresh(w) == writer[w] = Unborn

------------------------------------------------------------------------------
(* Web process *)

\* start_capture: the row is committed RUNNING before the worker is asked to
\* open its writer
StartCapture(s, sc) ==
    /\ status[s] = "Absent"
    /\ status' = [status EXCEPT ![s] = "RUNNING"]
    /\ scope' = [scope EXCEPT ![s] = sc]
    /\ web' = [web EXCEPT ![s] = "waiting"]
    /\ queue' = Append(queue, [op |-> "activate", session |-> s])
    /\ UNCHANGED <<packets, size, disk, active, writer, at, ingestVars, rows,
                   opening, measured, taskVars, result, used>>

\* _dispatch_worker_task returns: the activation task succeeded or failed
StartReply(s) ==
    /\ web[s] = "waiting"
    /\ result[s] # "none"
    /\ web' = [web EXCEPT ![s] = IF result[s] = "true" THEN "done" ELSE "failing"]
    /\ result' = [result EXCEPT ![s] = "none"]
    /\ UNCHANGED <<rowVars, disk, active, writer, at, ingestVars, rows, opening,
                   measured, taskVars, queue, used>>

\* Mutant: the web process waits for the worker without a timeout
StartWaits(s) == FALSE /\ UNCHANGED vars

\* _dispatch_worker_task gives up; the task stays in the queue or goes on
StartTimeout(s) ==
    /\ web[s] = "waiting"
    /\ web' = [web EXCEPT ![s] = "failing"]
    /\ result' = [result EXCEPT ![s] = "none"]
    /\ UNCHANGED <<rowVars, disk, active, writer, at, ingestVars, rows, opening,
                   measured, taskVars, queue, used>>

\* The except branch: refresh_from_db and the test of the status ...
StartRefresh(s) ==
    /\ web[s] = "failing"
    /\ web' = [web EXCEPT ![s] = IF status[s] = "RUNNING" THEN "marking" ELSE "done"]
    /\ UNCHANGED <<rowVars, disk, active, writer, at, ingestVars, rows, opening,
                   measured, taskVars, queue, result, used>>

\* ... and mark_error on what was read
StartMarkError(s) ==
    /\ web[s] = "marking"
    /\ web' = [web EXCEPT ![s] = "done"]
    /\ SetStatus(s, "ERROR")
    /\ UNCHANGED <<scope, packets, size, disk, active, writer, at, ingestVars,
                   rows, opening, measured, taskVars, queue, result, used>>

\* The stop, cancel and delete endpoints; a request that times out leaves its
\* task in the queue, so waiting for the answer changes nothing
Request(op, s) ==
    /\ op \in Ops
    /\ used.requests < MaxRequests
    /\ \/ op \in {"stop", "cancel"} /\ Present(s)
       \/ op = "delete" /\ status[s] # "Absent"
       \/ op = "deleteAll"
    /\ queue' = Append(queue, [op |-> op, session |-> IF op = "deleteAll"
                                                      THEN NoSession ELSE s])
    /\ used' = [used EXCEPT !.requests = @ + 1]
    /\ UNCHANGED <<rowVars, disk, active, writer, at, ingestVars, rows, opening,
                   measured, taskVars, web, result>>

WebNext ==
    \E s \in Sessions :
        \/ \E sc \in Scope : StartCapture(s, sc)
        \/ StartReply(s)
        \/ StartTimeout(s)
        \/ StartRefresh(s)
        \/ StartMarkError(s)
        \/ \E op \in Ops : Request(op, s)

------------------------------------------------------------------------------
(* Activation: shared by the task thread and the ingest threads *)

\* _register_active_session: PcapNgWriter opens the file "wb", which creates
\* or truncates it, and the new writer w replaces whatever the map held
RegisterActive(s, w) ==
    /\ Fresh(w)
    /\ writer' = [writer EXCEPT ![w] = [session |-> s, pos |-> 0,
                                        open |-> TRUE, linked |-> TRUE]]
    /\ active' = [active EXCEPT ![s] = w]
    /\ disk' = [disk EXCEPT ![s] = 0]
    /\ UNCHANGED status

\* The writer cannot be opened: the session is marked ERROR
RegisterFails(s) ==
    /\ SetStatus(s, "ERROR")
    /\ UNCHANGED <<writer, active, disk>>

------------------------------------------------------------------------------
(* Ingest threads: handle_ingest *)

\* Where the loop over the targets goes when t writers are left and o are full
AfterPacket(t, o) == IF t # {} THEN "write" ELSE IF o # {} THEN "limit" ELSE "idle"

SelectTargets(i) ==
    /\ at[i] = "idle"
    /\ used.packets < MaxPackets
    /\ used' = [used EXCEPT !.packets = @ + 1]
    /\ todo' = [todo EXCEPT ![i] = Targets(i)]
    /\ at' = [at EXCEPT ![i] = IF Targets(i) # {} THEN "write" ELSE "query"]
    /\ UNCHANGED <<rowVars, disk, active, writer, over, cur, activated, rows,
                   opening, measured, taskVars, webVars>>

\* _activate_sessions_for_ingest: the RUNNING rows this interface may feed
QuerySessions(i) ==
    LET running == {s \in Sessions : status[s] = "RUNNING" /\ Matches(s, i)}
    IN  /\ at[i] = "query"
        /\ rows' = [rows EXCEPT ![i] = running]
        /\ at' = [at EXCEPT ![i] = IF running = {} THEN "idle" ELSE "activate"]
        /\ UNCHANGED <<rowVars, disk, active, writer, ingestVars, opening,
                       measured, taskVars, webVars, used>>

\* activate_existing_session up to the decision to open a writer
IngestCheck(i, s) ==
    /\ at[i] = "activate"
    /\ s \in rows[i]
    /\ rows' = [rows EXCEPT ![i] = @ \ {s}]
    /\ \/ /\ active[s] # NoWriter
          /\ activated' = [activated EXCEPT ![i] = TRUE]
          /\ UNCHANGED <<at, opening>>
       \/ /\ active[s] = NoWriter /\ status[s] = "RUNNING"
          /\ at' = [at EXCEPT ![i] = "open"]
          /\ opening' = [opening EXCEPT ![i] = s]
          /\ UNCHANGED activated
       \/ /\ active[s] = NoWriter /\ status[s] # "RUNNING"
          /\ UNCHANGED <<at, opening, activated>>
    /\ UNCHANGED <<rowVars, disk, active, writer, todo, over, cur, measured,
                   taskVars, webVars, used>>

IngestOpened(i) ==
    /\ at[i] = "open"
    /\ at' = [at EXCEPT ![i] = "activate"]
    /\ opening' = [opening EXCEPT ![i] = NoSession]
    /\ UNCHANGED <<scope, packets, size, todo, over, cur, rows, measured,
                   taskVars, webVars, used>>

IngestOpen(i, w) ==
    /\ IngestOpened(i)
    /\ RegisterActive(opening[i], w)
    /\ activated' = [activated EXCEPT ![i] = TRUE]

IngestOpenFails(i) ==
    /\ IngestOpened(i)
    /\ RegisterFails(opening[i])
    /\ UNCHANGED activated

\* The second selection; a payload that does not parse is dropped here
Reselect(i) ==
    /\ at[i] = "activate"
    /\ rows[i] = {}
    /\ \/ /\ activated[i]
          /\ todo' = [todo EXCEPT ![i] = Targets(i)]
          /\ at' = [at EXCEPT ![i] = AfterPacket(Targets(i), {})]
       \/ at' = [at EXCEPT ![i] = "idle"] /\ UNCHANGED todo
    /\ activated' = [activated EXCEPT ![i] = FALSE]
    /\ UNCHANGED <<rowVars, disk, active, writer, over, cur, rows,
                   opening, measured, taskVars, webVars, used>>

\* One target of the loop: its writer takes the packet, or raises because it
\* is closed or because of an I/O error
WritePacket(i, w) ==
    /\ at[i] = "write"
    /\ w \in todo[i]
    /\ todo' = [todo EXCEPT ![i] = @ \ {w}]
    /\ cur' = [cur EXCEPT ![i] = w]
    /\ \/ /\ writer[w].open
          /\ writer' = [writer EXCEPT ![w].pos = @ + 1]
          /\ LET s == writer[w].session
                 end == writer[w].pos + 1
             IN  disk' = [disk EXCEPT ![s] =
                            IF writer[w].linked /\ @ < end THEN end ELSE @]
          /\ at' = [at EXCEPT ![i] = "count"]
       \/ /\ at' = [at EXCEPT ![i] = "error"]
          /\ UNCHANGED <<writer, disk>>
    /\ UNCHANGED <<rowVars, active, over, activated, rows, opening, measured,
                   taskVars, webVars, used>>

\* Thread i is handling writer w, which belongs to session s
Handles(i, s, w) == cur[i] = w /\ writer[w].session = s

\* The counters: an F() increment by primary key
CountPacket(i, s, w) ==
    LET bytes == BytesWritten(w)
        full == IF Full(bytes) THEN over[i] \cup {w} ELSE over[i]
    IN  /\ at[i] = "count"
        /\ Handles(i, s, w)
        /\ bytes # Missing
        /\ packets' = [packets EXCEPT ![s] = Counted(s)]
        /\ size' = [size EXCEPT ![s] = IF Present(s) THEN bytes ELSE @]
        /\ over' = [over EXCEPT ![i] = full]
        /\ at' = [at EXCEPT ![i] = AfterPacket(todo[i], full)]
        /\ cur' = [cur EXCEPT ![i] = NoWriter]
        /\ UNCHANGED <<status, scope, disk, active, writer, todo, activated, rows,
                       opening, measured, taskVars, webVars, used>>

\* An exception leaves handle_ingest: the targets and the full writers that
\* are left are forgotten
Abandon(i) ==
    /\ at' = [at EXCEPT ![i] = "idle"]
    /\ todo' = [todo EXCEPT ![i] = {}]
    /\ over' = [over EXCEPT ![i] = {}]
    /\ cur' = [cur EXCEPT ![i] = NoWriter]
    /\ UNCHANGED <<rowVars, disk, activated, rows, opening, measured, taskVars,
                   webVars, used>>

\* bytes_written raises: the file was deleted after the packet was written
CountRaises(i, w) ==
    /\ at[i] = "count"
    /\ cur[i] = w
    /\ BytesWritten(w) = Missing
    /\ Abandon(i)
    /\ UNCHANGED <<active, writer>>

\* _handle_size_limit: pops and closes the session's current writer, or the
\* one that was full when somebody else popped it
AtLimit(i, s, w) == /\ at[i] = "limit"
                    /\ w \in over[i]
                    /\ writer[w].session = s
Current(s, w) == IF active[s] # NoWriter THEN active[s] ELSE w

PopAtLimit(i, s, w) ==
    /\ AtLimit(i, s, w)
    /\ disk[s] # Missing
    /\ Pop(s)
    /\ writer' = Closed({Current(s, w)})
    /\ measured' = [measured EXCEPT ![i] = disk[s]]
    /\ over' = [over EXCEPT ![i] = @ \ {w}]
    /\ cur' = [cur EXCEPT ![i] = Current(s, w)]
    /\ at' = [at EXCEPT ![i] = "limitSave"]
    /\ UNCHANGED <<rowVars, disk, todo, activated, rows, opening, taskVars,
                   webVars, used>>

\* ... bytes_written raises here as well
LimitRaises(i, s, w) ==
    /\ AtLimit(i, s, w)
    /\ disk[s] = Missing
    /\ Pop(s)
    /\ writer' = Closed({Current(s, w)})
    /\ Abandon(i)

\* A row deleted since it was read makes save() raise, which ends the loop
SaveLimit(i, s, w) ==
    /\ at[i] = "limitSave"
    /\ Handles(i, s, w)
    /\ SetStatus(s, "COMPLETED")
    /\ size' = [size EXCEPT ![s] = IF Present(s) THEN measured[i] ELSE @]
    /\ \E left \in {over[i]} \cup (IF Present(s) THEN {} ELSE {{}}) :
          /\ over' = [over EXCEPT ![i] = left]
          /\ at' = [at EXCEPT ![i] = AfterPacket({}, left)]
    /\ cur' = [cur EXCEPT ![i] = NoWriter]
    /\ measured' = [measured EXCEPT ![i] = 0]
    /\ UNCHANGED <<scope, packets, disk, active, writer, todo,
                   activated, rows, opening, taskVars, webVars, used>>

\* _handle_capture_error: pops whatever writer the session has by now ...
PopAtError(i, s, w) ==
    /\ at[i] = "error"
    /\ Handles(i, s, w)
    /\ Pop(s)
    /\ writer' = Closed({active[s]})
    /\ at' = [at EXCEPT ![i] = "errorSave"]
    /\ UNCHANGED <<rowVars, disk, ingestVars, rows, opening, measured,
                   taskVars, webVars, used>>

\* ... and sets the row to ERROR, whatever it was; the note is a save() that
\* may raise when the row is gone, which ends the loop
SaveError(i, s, w) ==
    /\ at[i] = "errorSave"
    /\ Handles(i, s, w)
    /\ SetStatus(s, "ERROR")
    /\ cur' = [cur EXCEPT ![i] = NoWriter]
    /\ \/ UNCHANGED <<todo, over>>
       \/ /\ ~Present(s)
          /\ todo' = [todo EXCEPT ![i] = {}]
          /\ over' = [over EXCEPT ![i] = {}]
    /\ at' = [at EXCEPT ![i] = AfterPacket(todo'[i], over'[i])]
    /\ UNCHANGED <<scope, packets, size, disk, active, writer,
                   activated, rows, opening, measured, taskVars, webVars, used>>

IngestNext(i) ==
    \/ SelectTargets(i)
    \/ QuerySessions(i)
    \/ \E s \in Sessions : IngestCheck(i, s)
    \/ IngestOpenFails(i)
    \/ Reselect(i)
    \/ \E w \in Writers : \/ IngestOpen(i, w)
                          \/ WritePacket(i, w)
                          \/ CountRaises(i, w)
    \/ \E s \in Sessions, w \in Writers : \/ CountPacket(i, s, w)
                                         \/ PopAtLimit(i, s, w)
                                         \/ LimitRaises(i, s, w)
                                         \/ SaveLimit(i, s, w)
                                         \/ PopAtError(i, s, w)
                                         \/ SaveError(i, s, w)

------------------------------------------------------------------------------
(* Task thread: tasks/capture_tasks.py, one task at a time *)

TaskIdle == at' = [at EXCEPT ![Task] = "idle"] /\ job' = NoJob
TaskAt(step) == at' = [at EXCEPT ![Task] = step] /\ UNCHANGED job

\* The worker takes message j, the next one in the queue
Take(j) ==
    /\ at[Task] = "idle"
    /\ queue # <<>>
    /\ j = Head(queue)
    /\ queue' = Tail(queue)
    /\ job' = j
    /\ UNCHANGED <<rowVars, disk, writer, ingestVars, opening, measured, got,
                   web, result, used>>

TakeActivate(s) ==
    /\ Take([op |-> "activate", session |-> s])
    /\ at' = [at EXCEPT ![Task] = "check"]
    /\ UNCHANGED <<active, held, rows>>

\* stop, cancel and delete begin by popping the session's writer
FirstStep(op) == CASE op = "stop" -> "stopRead"
                   [] op = "cancel" -> "cancelSave"
                   [] op = "delete" -> "unlink"

TakeSessionTask(op, s) ==
    /\ Take([op |-> op, session |-> s])
    /\ Pop(s)
    /\ held' = {active[s]} \ {NoWriter}
    /\ rows' = [rows EXCEPT ![Task] = IF op = "delete" THEN {s} ELSE {}]
    /\ at' = [at EXCEPT ![Task] = FirstStep(op)]

\* delete_all empties the map and lists the rows
TakeDeleteAll ==
    LET listed == {s \in Sessions : Present(s)}
    IN  /\ Take(NoJob)
        /\ active' = [s \in Sessions |-> NoWriter]
        /\ rows' = [rows EXCEPT ![Task] = listed]
        /\ \/ /\ listed = {}
              /\ at' = at
              /\ held' = {}
           \/ /\ listed # {}
              /\ at' = [at EXCEPT ![Task] = "unlink"]
              /\ held' = {active[s] : s \in Sessions} \ {NoWriter}

\* The outcome goes to the result backend; nobody reads it after the timeout
Answer(s, outcome) ==
    result' = [result EXCEPT ![s] = IF web[s] = "waiting" THEN outcome ELSE @]

\* activate_existing_session up to the decision to open a writer
TaskCheck ==
    LET s == job.session
    IN  /\ at[Task] = "check"
        /\ \/ /\ active[s] # NoWriter
              /\ TaskIdle
              /\ Answer(s, "true")
              /\ UNCHANGED opening
           \/ /\ active[s] = NoWriter /\ status[s] = "RUNNING"
              /\ TaskAt("open")
              /\ opening' = [opening EXCEPT ![Task] = s]
              /\ UNCHANGED result
           \/ /\ active[s] = NoWriter /\ status[s] # "RUNNING"
              /\ TaskIdle
              /\ Answer(s, "false")
              /\ UNCHANGED opening
        /\ UNCHANGED <<rowVars, disk, active, writer, ingestVars, rows, measured,
                       held, got, queue, web, used>>

TaskOpened ==
    /\ at[Task] = "open"
    /\ TaskIdle
    /\ opening' = [opening EXCEPT ![Task] = NoSession]
    /\ UNCHANGED <<scope, packets, size, ingestVars, rows, measured,
                   held, got, queue, web, used>>

TaskOpen(w) ==
    /\ TaskOpened
    /\ RegisterActive(opening[Task], w)
    /\ Answer(opening[Task], "true")

TaskOpenFails ==
    /\ TaskOpened
    /\ RegisterFails(opening[Task])
    /\ Answer(opening[Task], "false")

\* Mutant: a session without a writer in the map has nothing to stop
StoppableIfWriting(s) == Present(s) /\ held # {}

\* stop_capture goes on to save the row whenever there is one
Stoppable(s) == Present(s)

\* stop_capture reads the row and closes the popped writer ...
StopRead(s) ==
    /\ at[Task] = "stopRead"
    /\ job.session = s
    /\ writer' = Closed(held)
    /\ held' = {}
    /\ \/ ~Stoppable(s) /\ TaskIdle /\ UNCHANGED <<got, measured>>
       \/ /\ Stoppable(s)
          /\ got' = status[s]
          /\ measured' = [measured EXCEPT ![Task] =
                            IF held # {} THEN disk[s] ELSE size[s]]
          /\ TaskAt("stopSave")
    /\ UNCHANGED <<rowVars, disk, active, ingestVars, rows, opening,
                   webVars, used>>

\* ... and writes status and file_size back from what it read
StopSave(s) ==
    /\ at[Task] = "stopSave"
    /\ job.session = s
    /\ SetStatus(s, IF got = "RUNNING" THEN "COMPLETED" ELSE got)
    /\ size' = [size EXCEPT ![s] = IF Present(s) THEN measured[Task] ELSE @]
    /\ TaskIdle
    /\ got' = "Absent"
    /\ measured' = [measured EXCEPT ![Task] = 0]
    /\ UNCHANGED <<scope, packets, disk, active, writer, ingestVars, rows,
                   opening, held, webVars, used>>

CancelSave(s) ==
    /\ at[Task] = "cancelSave"
    /\ job.session = s
    /\ writer' = Closed(held)
    /\ held' = {}
    /\ SetStatus(s, "CANCELLED")
    /\ TaskIdle
    /\ UNCHANGED <<scope, packets, size, disk, active, ingestVars, rows, opening,
                   measured, got, webVars, used>>

\* _delete_session closes the popped writer and unlinks the file: writers
\* still open on it write to an inode that has no name any more
UnlinkFile(s) ==
    /\ at[Task] = "unlink"
    /\ s \in rows[Task]
    /\ Present(s)
    /\ writer' = [w \in Writers |->
         IF writer[w].session = s
         THEN [writer[w] EXCEPT !.linked = FALSE, !.open = @ /\ w \notin held]
         ELSE writer[w]]
    /\ disk' = [disk EXCEPT ![s] = Missing]
    /\ job' = [job EXCEPT !.session = s]
    /\ at' = [at EXCEPT ![Task] = "rowDelete"]
    /\ UNCHANGED <<rowVars, active, ingestVars, rows, opening, measured, held,
                   got, webVars, used>>

\* delete_capture finds no row: it only closes the popped writer
NothingToDelete(s) ==
    /\ at[Task] = "unlink"
    /\ s \in rows[Task]
    /\ ~Present(s)
    /\ writer' = Closed(held)
    /\ held' = {}
    /\ rows' = [rows EXCEPT ![Task] = {}]
    /\ TaskIdle
    /\ UNCHANGED <<rowVars, disk, active, ingestVars, opening, measured, got,
                   webVars, used>>

\* session.delete(), the second half of _delete_session
DeleteRow ==
    LET left == rows[Task] \ {job.session}
    IN  /\ at[Task] = "rowDelete"
        /\ status' = [status EXCEPT ![job.session] = "Deleted"]
        /\ rows' = [rows EXCEPT ![Task] = left]
        /\ held' = IF left = {} THEN {} ELSE held
        /\ IF left = {} THEN TaskIdle ELSE TaskAt("unlink")
        /\ UNCHANGED <<scope, packets, size, disk, active, writer, ingestVars,
                       opening, measured, got, webVars, used>>

TaskNext ==
    \/ \E s \in Sessions :
          \/ TakeActivate(s)
          \/ \E op \in {"stop", "cancel", "delete"} : TakeSessionTask(op, s)
          \/ StopRead(s)
          \/ StopSave(s)
          \/ CancelSave(s)
          \/ UnlinkFile(s)
          \/ NothingToDelete(s)
    \/ TakeDeleteAll
    \/ TaskCheck
    \/ \E w \in Writers : TaskOpen(w)
    \/ TaskOpenFails
    \/ DeleteRow

------------------------------------------------------------------------------
\* The worker dies and Compose restarts it: the map and the writers are gone,
\* and so is the task being executed (tasks are acknowledged when taken); the
\* queue, the rows and the files stay
Crash ==
    /\ used.crashes < MaxCrashes
    /\ used' = [used EXCEPT !.crashes = @ + 1]
    /\ active' = [s \in Sessions |-> NoWriter]
    /\ writer' = Closed(Writers)
    /\ at' = [p \in Procs |-> "idle"]
    /\ todo' = [i \in Interfaces |-> {}]
    /\ over' = [i \in Interfaces |-> {}]
    /\ rows' = [p \in Procs |-> {}]
    /\ cur' = [i \in Interfaces |-> NoWriter]
    /\ opening' = [p \in Procs |-> NoSession]
    /\ held' = {}
    /\ job' = NoJob
    /\ got' = "Absent"
    /\ activated' = [i \in Interfaces |-> FALSE]
    /\ measured' = [p \in Procs |-> 0]
    /\ UNCHANGED <<rowVars, disk, webVars>>

Next ==
    \/ WebNext
    \/ \E i \in Interfaces : IngestNext(i)
    \/ TaskNext
    \/ Crash

Spec == Init /\ [][Next]_vars

\* The solo worker keeps executing tasks and a web request ends in an answer
\* or a timeout; packets, requests and crashes are not guaranteed
FairSpec ==
    /\ Spec
    /\ WF_vars(TaskNext)
    /\ \A s \in Sessions :
          /\ WF_vars(StartTimeout(s) \/ StartReply(s))
          /\ WF_vars(StartRefresh(s) \/ StartMarkError(s))

------------------------------------------------------------------------------
(* Properties *)

\* Every variable has its type.
TypeOK ==
    /\ status \in [Sessions -> Status]
    /\ scope \in [Sessions -> Scope]
    /\ packets \in [Sessions -> Nat]
    /\ size \in [Sessions -> Int]
    /\ disk \in [Sessions -> Nat \cup {Missing}]
    /\ active \in [Sessions -> OptWriter]
    /\ writer \in [Writers -> Writer]
    /\ at \in [Procs -> Steps]
    /\ todo \in [Interfaces -> SUBSET Writers]
    /\ over \in [Interfaces -> SUBSET Writers]
    /\ rows \in [Procs -> SUBSET Sessions]
    /\ cur \in [Interfaces -> OptWriter]
    /\ opening \in [Procs -> OptSession]
    /\ activated \in [Interfaces -> BOOLEAN]
    /\ measured \in [Procs -> Int]
    /\ job \in Job
    /\ held \subseteq Writers
    /\ got \in Status
    /\ queue \in Seq(Job)
    /\ web \in [Sessions -> WebSteps]
    /\ result \in [Sessions -> {"none", "true", "false"}]
    /\ used \in [packets : Nat, requests : Nat, crashes : Nat]

\* A writer the map offers to the ingest threads is open and belongs to the
\* session it is filed under: stop, cancel, delete, the size limit and the
\* error path all take a writer out of the map before they close it, and no
\* thread ever closes a writer another one has registered.
ActiveWriterOpen ==
    \A s \in Sessions : active[s] # NoWriter =>
        /\ writer[active[s]].session = s
        /\ writer[active[s]].open

\* Writers opened for other sessions than s whose file or row was deleted
Orphans(s) ==
    {w \in Writers : /\ writer[w].session \in Sessions \ {s}
                     /\ \/ ~writer[w].linked
                        \/ status[writer[w].session] = "Deleted"}

\* CAPTURE_MAX_FILESIZE: a file outgrows the limit by at most one packet for
\* each other ingest thread that selected its writer before it was popped; an
\* orphaned writer of another session in a thread's hands cuts its handling of
\* the full ones short, so each gives every thread one packet more.
SizeLimitKept ==
    \A s \in Sessions :
        disk[s] < Limit + Cardinality(Interfaces) * (1 + Cardinality(Orphans(s)))

\* The packets appended by all the writers a session ever had
Appended(s) == UNION {{w} \X (1..writer[w].pos) :
                         w \in {v \in Writers : writer[v].session = s}}

\* packet_count never runs ahead of the packets appended, over any number of
\* writers, threads, failures and restarts: each increment stands for one
\* append, and appends not yet counted are in the hands of an ingest thread.
NeverOvercounted ==
    \A s \in Sessions :
        packets[s] + Cardinality({i \in Interfaces : /\ at[i] = "count"
                                                     /\ writer[cur[i]].session = s})
            <= Cardinality(Appended(s))

\* A session that has ended or was deleted never runs again, whatever stale
\* copy of its row a thread still holds.
EndedStaysEnded ==
    [][\A s \in Sessions :
        /\ status[s] \in Ended => status'[s] \in Ended \cup {"Deleted"}
        /\ status[s] = "Deleted" => status'[s] = "Deleted"]_vars

StopQueued(s) == \E k \in DOMAIN queue : queue[k] = [op |-> "stop", session |-> s]

\* A stop request the broker has accepted ends the session, whatever the
\* ingest threads do meanwhile, unless the worker dies with the task in hand.
StopTakesEffect ==
    \A s \in Sessions : StopQueued(s) ~> status[s] # "RUNNING" \/ used.crashes > 0

\* A start request always comes to its end, even when the worker is slow.
StartAnswered == \A s \in Sessions : web[s] = "waiting" ~> web[s] = "done"

WorkerQuiet == queue = <<>> /\ \A p \in Procs : at[p] = "idle"

\* delete_capture is to "Delete a capture session and remove its file from
\* disk": no file is left, or comes back, for a session whose row is gone.
DeletedLeavesNoFile ==
    WorkerQuiet => \A s \in Sessions : status[s] = "Deleted" => disk[s] = Missing
=============================================================================
