----------------------------- MODULE PeriodicJobs -----------------------------
(***************************************************************************)
(* The periodic publishing jobs: rows of PublisherPeriodicJob, the beat    *)
(* schedule that queues a scan, the worker's scan and execution tasks      *)
(* (tasks/publisher_tasks.py) and the CRUD endpoints of                    *)
(* controllers/publisher_controller.py.                                    *)
(*                                                                         *)
(* The unit of time is one beat tick (30 s), which is also the smallest    *)
(* period a job can have.  The worker has one thread (Celery's solo pool)  *)
(* and acknowledges a message when it takes it.                            *)
(***************************************************************************)
EXTENDS Integers, Sequences, FiniteSets

CONSTANTS
    Jobs,         \* primary keys of jobs
    Clients,      \* API clients that edit jobs
    Scan,         \* the message process_periodic_publish_jobs
    NoJob,
    Periods,      \* values of period_seconds clients send, in ticks
    MinPeriod,    \* MIN_PERIOD_SECONDS, in ticks
    Batch,        \* MAX_JOBS_PER_TICK
    MaxScans,     \* bound: scans waiting in the queue
    MaxTime,      \* bound: length of a behaviour
    MaxEdits,     \* bound: edits, deletions included
    MaxCrashes,   \* bound: deaths of the worker
    MaxSkips      \* bound: scans in a row that find the row of a job locked

ASSUME JobsAssumption == IsFiniteSet(Jobs)
ASSUME MinPeriodAssumption == MinPeriod \in Nat \ {0}
ASSUME PeriodsAssumption == Periods \subseteq Nat /\ \E p \in Periods : p >= MinPeriod
ASSUME BatchAssumption == Batch \in Nat \ {0}
ASSUME MessageAssumption == Scan \notin Jobs /\ NoJob \notin Jobs \cup {Scan}

VARIABLES
    now,       \* the clock
    row,       \* the job rows
    edit,      \* what each client has read and means to do with it
    queue,     \* Celery queue: Scan, or a job to execute
    at,        \* what the worker is doing
    todo,      \* jobs a scan has committed and has still to queue
    job,       \* the job being executed
    outcome,   \* how its execution ended
    tally,     \* history: when a job was created, how often it, and how often
               \* the others, were saved, how often it was released, how many
               \* scans in a row have left it out when due, and how many of
               \* those because a write held its row
    used       \* how much of each bound is used

vars == <<now, row, edit, queue, at, todo, job, outcome, tally, used>>

Never == -1
RunStatus == {"idle", "success", "error", "skipped"}

\* Mutant: full_clean is not called
AnyPeriod(p) == TRUE

\* full_clean refuses a period below MIN_PERIOD_SECONDS
ValidPeriod(p) == p >= MinPeriod

Stored == Periods \ 0..(MinPeriod - 1)
Row == [present : BOOLEAN, enabled : BOOLEAN, period : Stored,
        next : Int, last : Int, status : RunStatus]
Kinds == {"rename", "enable", "disable", "period", "delete"}
Edit == [job : Jobs \cup {NoJob}, copy : Row, kind : Kinds,
         period : Stored, phase : {"read", "locked"}]
Steps == {"idle", "queueing", "publish", "mark"}
Tally == [born : Int, saves : Nat, others : Nat, released : Nat, passed : Nat,
          locked : Nat]

NoRow == [present |-> FALSE, enabled |-> FALSE, period |-> CHOOSE p \in Stored : TRUE,
          next |-> 0, last |-> Never, status |-> "idle"]
NoEdit == [job |-> NoJob, copy |-> NoRow, kind |-> "rename",
           period |-> NoRow.period, phase |-> "read"]

NoTally == [born |-> Never, saves |-> 0, others |-> 0, released |-> 0, passed |-> 0,
            locked |-> 0]

Init ==
    /\ now = 0
    /\ row = [j \in Jobs |-> NoRow]
    /\ edit = [c \in Clients |-> NoEdit]
    /\ queue = <<>>
    /\ at = "idle"
    /\ todo = <<>>
    /\ job = NoJob
    /\ outcome = "idle"
    /\ tally = [j \in Jobs |-> NoTally]
    /\ used = [edits |-> 0, crashes |-> 0]

workerVars == <<queue, at, todo, job, outcome>>

------------------------------------------------------------------------------
(* Helpers *)

\* get_period_timedelta: never shorter than MIN_PERIOD_SECONDS
PeriodOf(p) == IF p < MinPeriod THEN MinPeriod ELSE p

\* Mutant: the scan does not look at the flag
DueWhenDisabled(j) == row[j].present /\ row[j].next <= now

\* filter(enabled=True, next_run_at__lte=now)
Due(j) == row[j].present /\ row[j].enabled /\ row[j].next <= now

\* The UPDATE or DELETE of a client holds the lock of the row
Locked(j) == \E c \in Clients : edit[c].job = j /\ edit[c].phase = "locked"

\* select_for_update(skip_locked=True): a due job whose row is locked is left out
Selectable == {j \in Jobs : Due(j) /\ ~Locked(j)}

Elements(q) == {q[k] : k \in DOMAIN q}

\* Mutant: no order_by, so any of the due jobs may be the first ones
AnyOrder(q, due) == TRUE

\* order_by("next_run_at"): q is sorted, and what is left out is not older
OldestFirst(q, due) ==
    /\ \A a, b \in DOMAIN q : a < b => row[q[a]].next <= row[q[b]].next
    /\ \A a \in DOMAIN q, k \in due \ Elements(q) : row[q[a]].next <= row[k].next

\* The slice [:MAX_JOBS_PER_TICK] of the jobs the select can lock
Slices(due) ==
    LET n == IF Cardinality(due) < Batch THEN Cardinality(due) ELSE Batch
    IN  {q \in [1..n -> due] : /\ Cardinality(Elements(q)) = n
                               /\ OldestFirst(q, due)}

\* Mutant: the update goes to all the due jobs, not to those of the slice
AdvancedAll(q) == {j \in Jobs : Due(j)}

\* The rows the update of next_run_at goes to
Advanced(q) == Elements(q)

\* Mutant: next_run_at is advanced when the run is over, not when it is queued
NotAdvanced(j) == row[j].next

\* now + job.get_period_timedelta()
NextRun(j) == now + PeriodOf(row[j].period)

------------------------------------------------------------------------------
(* API *)

\* create_periodic_job: next_run_at defaults to the time of creation
Create(j, enabled, period) ==
    /\ tally[j].born = Never
    /\ ValidPeriod(period)
    /\ row' = [row EXCEPT ![j] = [present |-> TRUE, enabled |-> enabled,
                                  period |-> period, next |-> now,
                                  last |-> Never, status |-> "idle"]]
    /\ tally' = [tally EXCEPT ![j].born = now]
    /\ UNCHANGED <<now, edit, workerVars, used>>

\* update_periodic_job and delete_periodic_job read the row ...
ReadForEdit(c, j, kind, period) ==
    /\ edit[c] = NoEdit
    /\ used.edits < MaxEdits
    /\ row[j].present
    /\ IF kind = "period" THEN ValidPeriod(period) ELSE period = row[j].period
    /\ edit' = [edit EXCEPT ![c] = [job |-> j, copy |-> row[j], kind |-> kind,
                                    period |-> period, phase |-> "read"]]
    /\ used' = [used EXCEPT !.edits = @ + 1]
    /\ UNCHANGED <<now, row, workerVars, tally>>

\* ... their UPDATE or DELETE takes the lock of the row and keeps it until it is
\* committed; a second one waits
BeginWrite(c, j) ==
    /\ edit[c].job = j /\ edit[c].phase = "read"
    /\ row[j].present /\ ~Locked(j)
    /\ edit' = [edit EXCEPT ![c].phase = "locked"]
    /\ UNCHANGED <<now, row, workerVars, tally, used>>

\* The write of c on j may end: it has the lock, or there is no row to lock
MayFinish(c, j) == edit[c].job = j /\ (edit[c].phase = "locked" \/ ~row[j].present)

\* The row that an edit writes: reset_next_run when it turns the job on or
\* sets the period of a job that is on
Edited(e) ==
    LET enabled == e.kind = "enable" \/ (e.copy.enabled /\ e.kind # "disable")
        reset == \/ e.kind = "enable" /\ ~e.copy.enabled
                 \/ e.kind = "period" /\ enabled
    IN  [e.copy EXCEPT !.enabled = enabled,
                       !.period = IF e.kind = "period" THEN e.period ELSE @,
                       !.next = IF reset THEN now ELSE @]

\* update_periodic_job saves every column of what it read; save() inserts the
\* row again when it has been deleted in the meantime
SaveEdit(c, j) ==
    /\ MayFinish(c, j) /\ edit[c].kind # "delete"
    /\ row' = [row EXCEPT ![j] = Edited(edit[c])]
    /\ tally' = [k \in Jobs |-> IF k = j THEN [tally[k] EXCEPT !.saves = @ + 1]
                                        ELSE [tally[k] EXCEPT !.others = @ + 1]]
    /\ edit' = [edit EXCEPT ![c] = NoEdit]
    /\ UNCHANGED <<now, workerVars, used>>

\* delete_periodic_job; a row that is gone already is not missed
Delete(c, j) ==
    /\ MayFinish(c, j) /\ edit[c].kind = "delete"
    /\ row' = [row EXCEPT ![j].present = FALSE]
    /\ edit' = [edit EXCEPT ![c] = NoEdit]
    /\ UNCHANGED <<now, workerVars, tally, used>>

ApiNext ==
    \/ \E j \in Jobs, enabled \in BOOLEAN, p \in Periods : Create(j, enabled, p)
    \/ \E c \in Clients, j \in Jobs, kind \in Kinds, p \in Periods :
          ReadForEdit(c, j, kind, p)
    \/ \E c \in Clients, j \in Jobs :
          BeginWrite(c, j) \/ SaveEdit(c, j) \/ Delete(c, j)

------------------------------------------------------------------------------
(* Beat and the clock *)

WaitingScans == {k \in DOMAIN queue : queue[k] = Scan}

Beat ==
    /\ Cardinality(WaitingScans) < MaxScans
    /\ queue' = Append(queue, Scan)
    /\ UNCHANGED <<now, row, edit, at, todo, job, outcome, tally, used>>

Tick ==
    /\ now < MaxTime
    /\ now' = now + 1
    /\ UNCHANGED <<row, edit, workerVars, tally, used>>

------------------------------------------------------------------------------
(* Worker *)

TakeMessage(m) ==
    /\ at = "idle"
    /\ queue # <<>>
    /\ Head(queue) = m
    /\ queue' = Tail(queue)

\* process_periodic_publish_jobs up to the commit: the due jobs q of the slice
\* are locked and get their next run in one transaction, which waits for nobody
ScanJobs(q) ==
    /\ TakeMessage(Scan)
    /\ q \in Slices(Selectable)
    /\ \A j \in Jobs : Due(j) /\ Locked(j) => tally[j].locked < MaxSkips
    /\ row' = [j \in Jobs |-> IF j \in Advanced(q)
                              THEN [row[j] EXCEPT !.next = NextRun(j)]
                              ELSE row[j]]
    /\ tally' = [j \in Jobs |->
         IF j \in Elements(q)
         THEN [tally[j] EXCEPT !.released = @ + 1, !.passed = 0, !.locked = 0]
         ELSE [tally[j] EXCEPT !.passed = IF Due(j) THEN @ + 1 ELSE 0,
                               !.locked = IF ~Due(j) THEN 0
                                          ELSE IF Locked(j) THEN @ + 1 ELSE @]]
    /\ todo' = q
    /\ at' = IF q = <<>> THEN "idle" ELSE "queueing"
    /\ UNCHANGED <<now, edit, job, outcome, used>>

\* execute_periodic_publish_job.delay, once per job and after the commit
QueueRun ==
    /\ at = "queueing" /\ todo # <<>>
    /\ queue' = Append(queue, Head(todo))
    /\ todo' = Tail(todo)
    /\ at' = IF todo' = <<>> THEN "idle" ELSE "queueing"
    /\ UNCHANGED <<now, row, edit, job, outcome, tally, used>>

\* execute_periodic_publish_job reads the row and decides
TakeRun(j) ==
    /\ TakeMessage(j)
    /\ \/ /\ ~row[j].present
          /\ UNCHANGED <<at, job, outcome>>
       \/ /\ row[j].present /\ ~row[j].enabled
          /\ at' = "mark"
          /\ job' = j
          /\ outcome' = "skipped"
       \/ /\ row[j].present /\ row[j].enabled
          /\ at' = "publish"
          /\ job' = j
          /\ UNCHANGED outcome
    /\ UNCHANGED <<now, row, edit, todo, tally, used>>

\* No publish context, publish returns False or raises: "error"
Publish(result) ==
    /\ at = "publish"
    /\ at' = "mark"
    /\ outcome' = result
    /\ UNCHANGED <<now, row, edit, queue, todo, job, tally, used>>

\* mark_success, mark_failure, mark_skipped: an update by primary key, which
\* waits for a client's write of the row
MarkRun(j) ==
    /\ at = "mark" /\ job = j /\ ~Locked(j)
    /\ row' = IF row[j].present
              THEN [row EXCEPT ![j].last = now, ![j].status = outcome]
              ELSE row
    /\ at' = "idle"
    /\ job' = NoJob
    /\ outcome' = "idle"
    /\ UNCHANGED <<now, edit, queue, todo, tally, used>>

WorkerNext ==
    \/ \E q \in Slices(Selectable) : ScanJobs(q)
    \/ QueueRun
    \/ \E j \in Jobs : TakeRun(j) \/ MarkRun(j)
    \/ \E result \in {"success", "error"} : Publish(result)

\* The worker dies: what it was doing is lost, the queue is not
Crash ==
    /\ used.crashes < MaxCrashes
    /\ used' = [used EXCEPT !.crashes = @ + 1]
    /\ at' = "idle"
    /\ todo' = <<>>
    /\ job' = NoJob
    /\ outcome' = "idle"
    /\ UNCHANGED <<now, row, edit, queue, tally>>

Next == ApiNext \/ Beat \/ Tick \/ WorkerNext \/ Crash

Spec == Init /\ [][Next]_vars

\* A write that holds its row is committed
Commit == \E c \in Clients, j \in Jobs :
              edit[c].phase = "locked" /\ (SaveEdit(c, j) \/ Delete(c, j))

\* Beat and the worker keep going and the database ends a statement it has
\* begun; clients and the clock owe nothing
FairSpec == Spec /\ WF_vars(Beat) /\ WF_vars(WorkerNext) /\ WF_vars(Commit)

------------------------------------------------------------------------------
(* Properties *)

\* Every variable has its type.
TypeOK ==
    /\ now \in Nat
    /\ row \in [Jobs -> Row]
    /\ edit \in [Clients -> Edit]
    /\ queue \in Seq(Jobs \cup {Scan})
    /\ at \in Steps
    /\ todo \in Seq(Jobs)
    /\ job \in Jobs \cup {NoJob}
    /\ outcome \in RunStatus
    /\ tally \in [Jobs -> Tally]
    /\ used \in [edits : Nat, crashes : Nat]

\* However late the scans are and however they bunch up, a job is released at
\* most once, once more per edit, and once per period of its life: downtime is
\* not followed by a burst of the runs that were missed.
RunBudget ==
    \A j \in Jobs :
        (tally[j].released - 1 - tally[j].saves) * MinPeriod <= now - tally[j].born

\* When more jobs are due than a scan takes, each of them has its turn: a scan
\* that leaves out a due job whose row is free takes a batch of jobs due before
\* it, which then stand behind it.  A save puts another job in front of it again,
\* or, when it is the job's own, all of them.  Only the scans that find its row
\* locked by a write are not bounded by this, and they are counted apart: they
\* pass the job over with room left in the batch.
NoJobPassedOver ==
    \A j \in Jobs :
        (tally[j].passed - tally[j].locked) * Batch
            <= (1 + tally[j].saves) * (Cardinality(Jobs) - 1) + tally[j].others

\* How often a queue holds job j
Occurrences(j, q) == Cardinality({k \in DOMAIN q : q[k] = j})

Schedule == INSTANCE PeriodicSchedule WITH
    clock <- now,
    next <- [j \in Jobs |-> row[j].next],
    active <- {j \in Jobs : row[j].present /\ row[j].enabled},
    owed <- [j \in Jobs |-> Occurrences(j, todo) + Occurrences(j, queue)],
    Periods <- {PeriodOf(p) : p \in Periods}

\* Through queue, transaction and tasks each release of a job leads to at most
\* one execution task, and only a due job that is switched on is released.
RunsAsScheduled == Schedule!Spec

Running(j) == at \in {"publish", "mark"} /\ job = j

\* A job that is due is run, or is switched off or deleted, even when more
\* jobs are due than a scan takes and though scans skip the rows that are being
\* written, unless the worker dies on the way.
DueJobRuns ==
    \A j \in Jobs : Due(j) ~> \/ Running(j)
                              \/ ~row[j].present \/ ~row[j].enabled
                              \/ used.crashes > 0

\* "Periodic job deleted": a job that was deleted is not there again.
DeletedJobGone ==
    [][\A j \in Jobs : ~row[j].present /\ tally[j].born # Never
                          => ~row'[j].present]_vars
=============================================================================
