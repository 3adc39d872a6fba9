-------------------------- MODULE PeriodicJobsProofs --------------------------
(***************************************************************************)
(* What holds of PeriodicJobs for any number of jobs, clients, edits and   *)
(* restarts, and however the clock and the queue run: the types, and the   *)
(* budget of releases of a job.                                            *)
(***************************************************************************)
EXTENDS PeriodicJobs, FiniteSetTheorems, TLAPS

(***************************************************************************)
(* Types                                                                   *)
(***************************************************************************)

LEMMA NoRowType == NoRow \in Row /\ NoEdit \in Edit
<1>1. (CHOOSE p \in Stored : TRUE) \in Stored
  BY MinPeriodAssumption, PeriodsAssumption DEF Stored
<1>2. NoRow \in Row
  BY <1>1 DEF NoRow, Row, RunStatus, Never
<1>3. NoEdit.period \in Stored
  BY <1>1 DEF NoEdit, NoRow
<1>. QED BY <1>2, <1>3 DEF NoEdit, Edit, Kinds

\* The slice of a scan is a sequence of jobs that are due and whose rows are free
LEMMA SliceType ==
    ASSUME NEW q \in Slices(Selectable)
    PROVE  /\ q \in Seq(Jobs) /\ Elements(q) \subseteq Selectable
           /\ Elements(q) \subseteq {j \in Jobs : Due(j)}
<1> DEFINE due == Selectable
           n == IF Cardinality(due) < Batch THEN Cardinality(due) ELSE Batch
<1>1. Cardinality(due) \in Nat
  BY JobsAssumption, FS_Subset, FS_CardinalityType DEF Selectable
<1>2. n \in Nat
  BY <1>1, BatchAssumption
<1>3. q \in [1..n -> due]
  BY DEF Slices
<1>. HIDE DEF n, due
<1>4. q \in Seq(due) /\ Elements(q) \subseteq due
  BY <1>2, <1>3 DEF Elements
<1>5. due \subseteq Jobs
  BY DEF due, Selectable
<1>6. q \in Seq(Jobs)
  BY <1>2, <1>3, <1>5
<1>. QED BY <1>4, <1>6 DEF due, Selectable

LEMMA EditedType ==
    ASSUME TypeOK, NEW e \in Edit PROVE Edited(e) \in Row
<1>1. e.copy \in Row /\ now \in Int /\ e.period \in Stored
  BY DEF TypeOK, Edit
<1>. QED BY <1>1 DEF Edited, Row

LEMMA StoredPeriod ==
    ASSUME TypeOK, NEW j \in Jobs
    PROVE  /\ row[j].period \in Nat
           /\ PeriodOf(row[j].period) \in Nat
           /\ PeriodOf(row[j].period) >= MinPeriod
<1>1. row[j].period \in Nat
  BY PeriodsAssumption DEF TypeOK, Row, Stored
<1>. QED BY <1>1, MinPeriodAssumption DEF PeriodOf

LEMMA MarkedType ==
    ASSUME NEW r \in Row, NEW time \in Int, NEW result \in RunStatus
    PROVE  [r EXCEPT !.last = time, !.status = result] \in Row
BY DEF Row

LEMMA TallyType ==
    ASSUME NEW t \in Tally, NEW n \in Nat, NEW m \in Nat, NEW k \in Nat
    PROVE  /\ [t EXCEPT !.released = n, !.passed = m, !.locked = k] \in Tally
           /\ [t EXCEPT !.passed = m, !.locked = k] \in Tally
BY DEF Tally

LEMMA ApiType ==
    ASSUME TypeOK, ApiNext PROVE TypeOK'
<1> USE DEF workerVars
<1>1. ASSUME NEW j \in Jobs, NEW enabled \in BOOLEAN, NEW p \in Periods,
             Create(j, enabled, p)
      PROVE  TypeOK'
  <2>1. row \in [Jobs -> Row] /\ tally \in [Jobs -> Tally] /\ now \in Nat
    BY DEF TypeOK
  <2>2. p \in Stored
    BY <1>1, MinPeriodAssumption, PeriodsAssumption DEF Create, ValidPeriod, Stored
  <2>3. row' \in [Jobs -> Row]
    BY <1>1, <2>1, <2>2 DEF Create, Row, RunStatus, Never
  <2>4. tally' \in [Jobs -> Tally]
    BY <1>1, <2>1 DEF Create, Tally
  <2>. QED BY <1>1, <2>3, <2>4 DEF Create, TypeOK
<1>2. ASSUME NEW c \in Clients, NEW j \in Jobs, NEW kind \in Kinds,
             NEW p \in Periods, ReadForEdit(c, j, kind, p)
      PROVE  TypeOK'
  <2>1. /\ row[j] \in Row /\ edit \in [Clients -> Edit]
        /\ used \in [edits : Nat, crashes : Nat]
    BY DEF TypeOK
  <2>2. p \in Stored
    BY <1>2, <2>1, MinPeriodAssumption, PeriodsAssumption
    DEF ReadForEdit, ValidPeriod, Stored, Row
  <2>3. edit' \in [Clients -> Edit]
    BY <1>2, <2>1, <2>2 DEF ReadForEdit, Edit
  <2>4. used' \in [edits : Nat, crashes : Nat]
    BY <1>2, <2>1 DEF ReadForEdit
  <2>. QED BY <1>2, <2>3, <2>4 DEF ReadForEdit, TypeOK
<1>3. ASSUME NEW c \in Clients, NEW j \in Jobs, SaveEdit(c, j) PROVE TypeOK'
  <2>1. edit \in [Clients -> Edit] /\ row \in [Jobs -> Row] /\ tally \in [Jobs -> Tally]
    BY DEF TypeOK
  <2>2. row' \in [Jobs -> Row]
    BY <1>3, <2>1, EditedType DEF SaveEdit
  <2>3. edit' \in [Clients -> Edit]
    BY <1>3, <2>1, NoRowType DEF SaveEdit
  <2>4. tally' \in [Jobs -> Tally]
    BY <1>3, <2>1 DEF SaveEdit, Tally
  <2>. QED BY <1>3, <2>2, <2>3, <2>4 DEF SaveEdit, TypeOK
<1>4. ASSUME NEW c \in Clients, NEW j \in Jobs, Delete(c, j) PROVE TypeOK'
  <2>1. row \in [Jobs -> Row] /\ edit \in [Clients -> Edit]
    BY DEF TypeOK
  <2>2. row' \in [Jobs -> Row]
    BY <1>4, <2>1 DEF Delete, Row
  <2>3. edit' \in [Clients -> Edit]
    BY <1>4, <2>1, NoRowType DEF Delete
  <2>. QED BY <1>4, <2>2, <2>3 DEF Delete, TypeOK
<1>5. ASSUME NEW c \in Clients, NEW j \in Jobs, BeginWrite(c, j) PROVE TypeOK'
  <2>1. edit \in [Clients -> Edit]
    BY DEF TypeOK
  <2>2. edit' \in [Clients -> Edit]
    BY <1>5, <2>1 DEF BeginWrite, Edit
  <2>. QED BY <1>5, <2>2 DEF BeginWrite, TypeOK
<1>. QED BY <1>1, <1>2, <1>3, <1>4, <1>5 DEF ApiNext

LEMMA WorkerType ==
    ASSUME TypeOK, WorkerNext PROVE TypeOK'
<1>1. ASSUME NEW q \in Slices(Selectable), ScanJobs(q) PROVE TypeOK'
  <2>1. row \in [Jobs -> Row] /\ tally \in [Jobs -> Tally] /\ now \in Nat
    BY DEF TypeOK
  <2>2. \A j \in Jobs : NextRun(j) \in Int
    BY <2>1, StoredPeriod DEF NextRun
  <2>3. row' \in [Jobs -> Row]
    BY <1>1, <2>1, <2>2 DEF ScanJobs, Advanced, Row
  <2>4. tally' \in [Jobs -> Tally]
    <3> DEFINE passed(j) == IF Due(j) THEN tally[j].passed + 1 ELSE 0
               locked(j) == IF ~Due(j) THEN 0
                            ELSE IF Locked(j) THEN tally[j].locked + 1 ELSE tally[j].locked
    <3>1. ASSUME NEW j \in Jobs
          PROVE  /\ [tally[j] EXCEPT !.released = tally[j].released + 1, !.passed = 0, !.locked = 0] \in Tally
                 /\ [tally[j] EXCEPT !.passed = passed(j), !.locked = locked(j)] \in Tally
      <4>1. tally[j] \in Tally /\ tally[j].released + 1 \in Nat
            /\ passed(j) \in Nat /\ locked(j) \in Nat
        BY <2>1 DEF Tally
      <4>. HIDE DEF passed, locked
      <4>. QED BY <4>1, TallyType
    <3>2. tally' = [j \in Jobs |->
             IF j \in Elements(q)
             THEN [tally[j] EXCEPT !.released = tally[j].released + 1, !.passed = 0, !.locked = 0]
             ELSE [tally[j] EXCEPT !.passed = passed(j), !.locked = locked(j)]]
      BY <1>1 DEF ScanJobs
    <3>. HIDE DEF passed, locked
    <3>. QED BY <3>1, <3>2
  <2>5. todo' \in Seq(Jobs)
    BY <1>1, SliceType DEF ScanJobs, Advanced
  <2>6. queue' \in Seq(Jobs \cup {Scan})
    <3>1. queue \in Seq(Jobs \cup {Scan})
      BY DEF TypeOK
    <3>2. queue # <<>> /\ queue' = Tail(queue)
      BY <1>1 DEF ScanJobs, Advanced, TakeMessage
    <3>. QED BY <3>1, <3>2
  <2>7. at' \in Steps
    BY <1>1 DEF ScanJobs, Advanced, Steps
  <2>. QED BY <1>1, <2>3, <2>4, <2>5, <2>6, <2>7 DEF ScanJobs, Advanced, TypeOK
<1>2. CASE QueueRun
  <2>1. todo \in Seq(Jobs) /\ queue \in Seq(Jobs \cup {Scan})
    BY DEF TypeOK
  <2>2. Head(todo) \in Jobs /\ todo' \in Seq(Jobs)
    BY <1>2, <2>1 DEF QueueRun
  <2>3. queue' \in Seq(Jobs \cup {Scan})
    BY <1>2, <2>1, <2>2 DEF QueueRun
  <2>. QED BY <1>2, <2>2, <2>3 DEF QueueRun, TypeOK, Steps
<1>3. ASSUME NEW j \in Jobs, TakeRun(j) PROVE TypeOK'
  <2>1. queue' \in Seq(Jobs \cup {Scan})
    BY <1>3 DEF TakeRun, TakeMessage, TypeOK
  <2>2. at' \in Steps /\ job' \in Jobs \cup {NoJob} /\ outcome' \in RunStatus
    BY <1>3 DEF TakeRun, TypeOK, Steps, RunStatus
  <2>. QED BY <1>3, <2>1, <2>2 DEF TakeRun, TypeOK
<1>4. ASSUME NEW j \in Jobs, MarkRun(j) PROVE TypeOK'
  <2>1. row \in [Jobs -> Row] /\ now \in Nat /\ outcome \in RunStatus
    BY DEF TypeOK
  <2>2. [row[j] EXCEPT !.last = now, !.status = outcome] \in Row
    <3>1. row[j] \in Row /\ now \in Int
      BY <2>1
    <3>. QED BY <2>1, <3>1, MarkedType
  <2>3. row' \in [Jobs -> Row]
    BY <1>4, <2>1, <2>2 DEF MarkRun
  <2>. QED BY <1>4, <2>3 DEF MarkRun, TypeOK, Steps, RunStatus
<1>5. ASSUME NEW result \in {"success", "error"}, Publish(result) PROVE TypeOK'
  BY <1>5 DEF Publish, TypeOK, Steps, RunStatus
<1>. QED BY <1>1, <1>2, <1>3, <1>4, <1>5 DEF WorkerNext

LEMMA EnvType ==
    ASSUME TypeOK, Beat \/ Tick \/ Crash PROVE TypeOK'
<1>1. CASE Beat
  BY <1>1 DEF Beat, TypeOK
<1>2. CASE Tick
  BY <1>2 DEF Tick, TypeOK, workerVars
<1>3. CASE Crash
  <2>1. used \in [edits : Nat, crashes : Nat]
    BY DEF TypeOK
  <2>2. used' \in [edits : Nat, crashes : Nat]
    BY <1>3, <2>1 DEF Crash
  <2>. QED BY <1>3, <2>2 DEF Crash, TypeOK, Steps, RunStatus
<1>. QED BY <1>1, <1>2, <1>3

\* Every variable keeps its type, for every value of the constants: no row
\* ever carries a period below MIN_PERIOD_SECONDS.
THEOREM TypeCorrect == Spec => []TypeOK
<1>1. Init => TypeOK
  BY NoRowType DEF Init, TypeOK, Steps, RunStatus, Tally, NoTally, Never
<1>2. TypeOK /\ [Next]_vars => TypeOK'
  <2>. SUFFICES ASSUME TypeOK, [Next]_vars PROVE TypeOK'
    OBVIOUS
  <2>1. CASE UNCHANGED vars
    BY <2>1 DEF vars, TypeOK
  <2>. QED BY <2>1, ApiType, WorkerType, EnvType DEF Next
<1>. QED BY <1>1, <1>2, PTL DEF Spec

(***************************************************************************)
(* The budget.  A release needs next_run_at to have come, so it must be    *)
(* known that the releases so far are paid for by the time up to           *)
(* next_run_at; an edit may move next_run_at anywhere, and pays for that   *)
(* with the release it is allowed itself.                                  *)
(***************************************************************************)

Later(a, b) == IF a < b THEN b ELSE a

Born(j) == tally[j].born # Never

Paid(j) ==
    /\ tally[j].born <= now
    /\ (tally[j].released - 1 - tally[j].saves) * MinPeriod <= now - tally[j].born
    /\ Born(j) => (tally[j].released - tally[j].saves) * MinPeriod
                      <= Later(now, row[j].next) - tally[j].born

Budget ==
    /\ \A j \in Jobs : Paid(j)
    /\ \A j \in Jobs : row[j].present => Born(j)
    /\ \A j \in Jobs : ~Born(j) => tally[j].saves = 0 /\ tally[j].released = 0
    /\ \A c \in Clients, j \in Jobs : edit[c].job = j => Born(j)

\* A release costs MinPeriod, and a save allows it
LEMMA Cost ==
    ASSUME NEW r \in Int
    PROVE  /\ (r + 1) * MinPeriod = r * MinPeriod + MinPeriod
           /\ (r - 1) * MinPeriod = r * MinPeriod - MinPeriod
           /\ r * MinPeriod \in Int
BY MinPeriodAssumption

LEMMA JobTypes ==
    ASSUME TypeOK, NEW j \in Jobs
    PROVE  /\ now \in Nat /\ row[j].next \in Int
           /\ tally[j].born \in Int /\ tally[j].saves \in Nat
           /\ tally[j].released \in Nat
BY DEF TypeOK, Row, Tally

\* Steps that touch neither the schedule nor the history of j
LEMMA SamePaid ==
    ASSUME TypeOK, NEW j \in Jobs, Paid(j), now' \in Nat, now <= now',
           tally'[j].born = tally[j].born, tally'[j].saves = tally[j].saves,
           tally'[j].released = tally[j].released, row'[j].next = row[j].next
    PROVE  Paid(j)'
<1>1. (tally[j].released - 1 - tally[j].saves) * MinPeriod \in Int
  BY JobTypes, Cost
<1>2. (tally[j].released - tally[j].saves) * MinPeriod \in Int
  BY JobTypes, Cost
<1>. QED BY <1>1, <1>2, JobTypes DEF Paid, Born, Later

LEMMA ScanPaid ==
    ASSUME TypeOK, Budget, NEW q \in Slices(Selectable), ScanJobs(q)
    PROVE  Budget'
<1>1. row \in [Jobs -> Row] /\ tally \in [Jobs -> Tally]
  BY DEF TypeOK
<1>2. ASSUME NEW j \in Jobs, j \in Elements(q) PROVE Paid(j)'
  <2>1. row[j].next <= now /\ row[j].present /\ Born(j) /\ Paid(j)
    BY <1>2, SliceType DEF Due, Budget
  <2>2. /\ now' = now /\ row'[j].next = NextRun(j)
        /\ tally'[j].born = tally[j].born /\ tally'[j].saves = tally[j].saves
        /\ tally'[j].released = tally[j].released + 1
    BY <1>1, <1>2 DEF ScanJobs, Advanced, Row, Tally
  <2>3. NextRun(j) \in Int /\ NextRun(j) >= now + MinPeriod
    BY JobTypes, StoredPeriod, MinPeriodAssumption DEF NextRun
  <2>. DEFINE r == tally[j].released - tally[j].saves
              paid == r * MinPeriod
  <2>4. r \in Int /\ paid \in Int /\ (r + 1) * MinPeriod = paid + MinPeriod
    BY JobTypes, Cost
  <2>5. paid <= now - tally[j].born
    BY <2>1, JobTypes DEF Paid, Later
  <2>6. /\ tally'[j].released - 1 - tally'[j].saves = r
        /\ tally'[j].released - tally'[j].saves = r + 1
    BY <2>2, JobTypes
  <2>. HIDE DEF r, paid
  <2>7. r * MinPeriod = paid
    BY DEF paid
  <2>8. (tally'[j].released - 1 - tally'[j].saves) * MinPeriod <= now' - tally'[j].born
    BY <2>2, <2>5, <2>6, <2>7
  <2>9. (tally'[j].released - tally'[j].saves) * MinPeriod
            <= Later(now', row'[j].next) - tally'[j].born
    BY <2>2, <2>3, <2>4, <2>5, <2>6, JobTypes, MinPeriodAssumption DEF Later
  <2>. QED BY <2>1, <2>2, <2>8, <2>9 DEF Paid
<1>3. ASSUME NEW j \in Jobs, j \notin Elements(q) PROVE Paid(j)'
  <2>1. /\ now' = now /\ row'[j].next = row[j].next
        /\ tally'[j].born = tally[j].born /\ tally'[j].saves = tally[j].saves
        /\ tally'[j].released = tally[j].released
    BY <1>1, <1>3 DEF ScanJobs, Advanced, Row, Tally
  <2>. QED BY <2>1, SamePaid, JobTypes DEF Budget
<1>4. \A j \in Jobs : /\ row'[j].present = row[j].present
                      /\ tally'[j].born = tally[j].born
  BY <1>1 DEF ScanJobs, Advanced, Row, Tally
<1>5. edit' = edit
  BY DEF ScanJobs, Advanced
<1>6. ASSUME NEW j \in Jobs, ~Born(j)'
      PROVE  tally'[j].saves = 0 /\ tally'[j].released = 0
  <2>1. ~Born(j) /\ j \notin Elements(q)
    BY <1>4, <1>6, SliceType DEF Born, Due, Budget
  <2>. QED BY <1>1, <2>1 DEF ScanJobs, Advanced, Tally, Budget
<1>. QED BY <1>2, <1>3, <1>4, <1>5, <1>6 DEF Budget, Born

LEMMA CreatePaid ==
    ASSUME TypeOK, Budget, NEW j \in Jobs, NEW enabled \in BOOLEAN,
           NEW p \in Periods, Create(j, enabled, p)
    PROVE  Budget'
<1>1. row \in [Jobs -> Row] /\ tally \in [Jobs -> Tally] /\ now \in Nat
  BY DEF TypeOK
<1>2. /\ now' = now /\ row'[j].next = now /\ tally'[j].born = now
      /\ tally'[j].saves = 0 /\ tally'[j].released = 0
  BY <1>1 DEF Create, Tally, Budget, Born
<1>3. Paid(j)'
  <2>1. (0 - 1 - 0) * MinPeriod <= 0 /\ (0 - 0) * MinPeriod = 0
    BY MinPeriodAssumption
  <2>. QED BY <1>1, <1>2, <2>1 DEF Paid, Born, Later
<1>4. \A k \in Jobs \ {j} : row'[k] = row[k] /\ tally'[k] = tally[k]
  BY <1>1 DEF Create
<1>5. \A k \in Jobs \ {j} : Paid(k)'
  BY <1>1, <1>2, <1>4, SamePaid DEF Budget
<1>6. Born(j)'
  BY <1>1, <1>2 DEF Born, Never
<1>7. edit' = edit
  BY DEF Create
<1>. QED BY <1>3, <1>4, <1>5, <1>6, <1>7 DEF Budget, Born

LEMMA SavePaid ==
    ASSUME TypeOK, Budget, NEW c \in Clients, NEW j \in Jobs, SaveEdit(c, j)
    PROVE  Budget'
<1>1. row \in [Jobs -> Row] /\ tally \in [Jobs -> Tally] /\ edit \in [Clients -> Edit]
  BY DEF TypeOK
<1>2. /\ now' = now /\ tally'[j].born = tally[j].born
      /\ tally'[j].saves = tally[j].saves + 1
      /\ tally'[j].released = tally[j].released
  BY <1>1 DEF SaveEdit, Tally
<1>3. row'[j] = Edited(edit[c]) /\ row'[j].next \in Int
  BY <1>1, EditedType DEF SaveEdit, Row
<1>4. Paid(j)'
  <2>. DEFINE r == tally[j].released - 1 - tally[j].saves
              paid == r * MinPeriod
  <2>1. Paid(j)
    BY DEF Budget
  <2>2. r \in Int /\ paid \in Int /\ (r - 1) * MinPeriod = paid - MinPeriod
    BY JobTypes, Cost
  <2>3. /\ tally'[j].released - 1 - tally'[j].saves = r - 1
        /\ tally'[j].released - tally'[j].saves = r
    BY <1>2, JobTypes
  <2>4. paid <= now - tally[j].born /\ tally[j].born <= now
    BY <2>1 DEF Paid
  <2>. HIDE DEF r
  <2>5. (tally'[j].released - 1 - tally'[j].saves) * MinPeriod
            <= now' - tally'[j].born
    BY <1>2, <2>2, <2>3, <2>4, JobTypes, MinPeriodAssumption
  <2>6. (tally'[j].released - tally'[j].saves) * MinPeriod
            <= Later(now', row'[j].next) - tally'[j].born
    BY <1>2, <1>3, <2>2, <2>3, <2>4, JobTypes DEF Later
  <2>. QED BY <1>2, <2>4, <2>5, <2>6 DEF Paid
<1>5. \A k \in Jobs \ {j} : /\ row'[k] = row[k] /\ tally'[k].born = tally[k].born
                            /\ tally'[k].saves = tally[k].saves
                            /\ tally'[k].released = tally[k].released
  BY <1>1 DEF SaveEdit, Tally
<1>6. \A k \in Jobs \ {j} : Paid(k)'
  BY <1>2, <1>5, JobTypes, SamePaid DEF Budget
<1>7. Born(j) /\ Born(j)'
  BY <1>2 DEF SaveEdit, MayFinish, Budget, Born
<1>8. \A d \in Clients, k \in Jobs : edit'[d].job = k => edit[d].job = k
  <2>1. NoEdit.job \notin Jobs
    BY MessageAssumption DEF NoEdit
  <2>. QED BY <1>1, <2>1 DEF SaveEdit
<1>9. \A k \in Jobs : Born(k)' <=> Born(k)
  BY <1>5, <1>7 DEF Born
<1>10. \A k \in Jobs : row'[k].present => Born(k)
  BY <1>5, <1>7 DEF Budget
<1>. QED BY <1>4, <1>5, <1>6, <1>7, <1>8, <1>9, <1>10 DEF Budget

\* Steps that leave the schedule and the history of every job alone
LEMMA SameBudget ==
    ASSUME TypeOK, Budget, now' \in Nat, now <= now', UNCHANGED tally,
           \A c \in Clients, j \in Jobs : edit'[c].job = j => edit[c].job = j,
           \A j \in Jobs : /\ row'[j].next = row[j].next
                           /\ row'[j].present => row[j].present
    PROVE  Budget'
<1>1. \A j \in Jobs : Paid(j)'
  BY SamePaid DEF Budget
<1>. QED BY <1>1 DEF Budget, Born

LEMMA StepBudget ==
    ASSUME TypeOK, Budget, Next PROVE Budget'
<1>1. row \in [Jobs -> Row] /\ edit \in [Clients -> Edit] /\ now \in Nat
  BY DEF TypeOK
<1>2. ASSUME NEW c \in Clients, NEW j \in Jobs, NEW kind \in Kinds,
             NEW p \in Periods, ReadForEdit(c, j, kind, p)
      PROVE  Budget'
  <2>1. UNCHANGED <<now, row, tally>>
    BY <1>2 DEF ReadForEdit
  <2>2. \A d \in Clients, k \in Jobs : edit'[d].job = k => edit[d].job = k \/ k = j
    BY <1>1, <1>2 DEF ReadForEdit
  <2>3. Born(j)
    BY <1>2 DEF ReadForEdit, Budget
  <2>. QED BY <2>1, <2>2, <2>3 DEF Budget, Paid, Born
<1>3. ASSUME NEW c \in Clients, NEW j \in Jobs, Delete(c, j) \/ BeginWrite(c, j)
      PROVE  Budget'
  <2>1. \A k \in Jobs : /\ row'[k].next = row[k].next
                        /\ row'[k].present => row[k].present
    BY <1>1, <1>3 DEF Delete, BeginWrite, Row
  <2>2. \A d \in Clients, k \in Jobs : edit'[d].job = k => edit[d].job = k
    <3>1. NoEdit.job \notin Jobs
      BY MessageAssumption DEF NoEdit
    <3>. QED BY <1>1, <1>3, <3>1 DEF Delete, BeginWrite, Edit
  <2>. QED BY <1>1, <1>3, <2>1, <2>2, SameBudget DEF Delete, BeginWrite
<1>4. ASSUME NEW j \in Jobs, MarkRun(j) PROVE Budget'
  <2>1. \A k \in Jobs : /\ row'[k].next = row[k].next
                        /\ row'[k].present => row[k].present
    BY <1>1, <1>4 DEF MarkRun, Row
  <2>. QED BY <1>1, <1>4, <2>1, SameBudget DEF MarkRun
<1>5. CASE Beat \/ Tick \/ Crash \/ QueueRun
  BY <1>1, <1>5, SameBudget DEF Beat, Tick, Crash, QueueRun
<1>6. ASSUME NEW j \in Jobs, TakeRun(j) PROVE Budget'
  BY <1>1, <1>6, SameBudget DEF TakeRun
<1>7. ASSUME NEW result \in {"success", "error"}, Publish(result) PROVE Budget'
  BY <1>1, <1>7, SameBudget DEF Publish
<1>. QED BY <1>2, <1>3, <1>4, <1>5, <1>6, <1>7, ScanPaid, CreatePaid, SavePaid
         DEF Next, ApiNext, WorkerNext

\* Saves and releases are paid for in every reachable state.
LEMMA BudgetHolds == Spec => []Budget
<1>1. Init => Budget
  <2>. SUFFICES ASSUME Init PROVE Budget
    OBVIOUS
  <2>1. \A j \in Jobs : /\ tally[j].born = -1 /\ tally[j].saves = 0
                        /\ tally[j].released = 0 /\ ~row[j].present
    BY DEF Init, NoTally, NoRow, Never
  <2>2. \A c \in Clients, j \in Jobs : edit[c].job # j
    BY MessageAssumption DEF Init, NoEdit
  <2>3. (0 - 1 - 0) * MinPeriod <= 0
    BY MinPeriodAssumption
  <2>4. now = 0
    BY DEF Init
  <2>. QED BY <2>1, <2>2, <2>3, <2>4, MinPeriodAssumption
           DEF Budget, Paid, Born, Never
<1>2. TypeOK /\ Budget /\ [Next]_vars => Budget'
  <2>. SUFFICES ASSUME TypeOK, Budget, [Next]_vars PROVE Budget'
    OBVIOUS
  <2>1. CASE UNCHANGED vars
    BY <2>1 DEF vars, Budget, Paid, Born
  <2>. QED BY <2>1, StepBudget
<1>. QED BY <1>1, <1>2, TypeCorrect, PTL DEF Spec

\* A job is released once, once more per edit and once per period of its life,
\* whatever the delays of beat, queue and worker.
THEOREM BudgetKept == Spec => []RunBudget
<1>1. Budget => RunBudget
  BY DEF Budget, Paid, RunBudget
<1>. QED BY <1>1, BudgetHolds, PTL

(***************************************************************************)
(* Turns.  A scan that leaves a due job out takes a batch of jobs due      *)
(* before it, which then stand behind it, so the jobs that can still be    *)
(* taken in its place, those ahead of it, bound how often it is left out.  *)
(* A save of another job adds that one, a save of its own adds them all.   *)
(***************************************************************************)

Others == Cardinality(Jobs) - 1

Ahead(j) == {k \in Jobs \ {j} : Born(k) => row[k].next <= row[j].next}

\* Scans in a row that have left j out though its row was free
LeftOut(j) == tally[j].passed - tally[j].locked

Turn(j) ==
    /\ LeftOut(j) \in Nat
    /\ LeftOut(j) * Batch + Cardinality(Ahead(j))
           <= (1 + tally[j].saves) * Others + tally[j].others
    /\ ~Born(j) => LeftOut(j) = 0

Turns == \A j \in Jobs : Turn(j)

LEMMA AheadSize ==
    ASSUME NEW j \in Jobs, NEW S \in SUBSET (Jobs \ {j})
    PROVE  /\ IsFiniteSet(S) /\ Cardinality(S) \in Nat
           /\ Others \in Nat /\ Cardinality(S) <= Others
<1>1. /\ IsFiniteSet(Jobs \ {j})
      /\ Cardinality(Jobs \ {j}) = Cardinality(Jobs) - 1
  BY JobsAssumption, FS_RemoveElement
<1>2. IsFiniteSet(S) /\ Cardinality(S) <= Cardinality(Jobs \ {j})
  BY <1>1, FS_Subset
<1>. QED BY <1>1, <1>2, FS_CardinalityType DEF Others

LEMMA TurnTypes ==
    ASSUME TypeOK, NEW j \in Jobs
    PROVE  /\ tally[j].passed \in Nat /\ tally[j].locked \in Nat
           /\ tally[j].saves \in Nat /\ tally[j].others \in Nat
BY DEF TypeOK, Tally

\* Each time a job is left out costs a batch of the jobs ahead of it
LEMMA Products ==
    ASSUME NEW r \in Nat, NEW n \in Nat
    PROVE  /\ r * n \in Nat /\ (r + 1) * n = r * n + n
           /\ (1 + r) * n = r * n + n /\ 0 * n = 0
OBVIOUS

\* Nobody left j out, and whoever may be ahead of it now was ahead of it before
LEMMA SameTurn ==
    ASSUME TypeOK, NEW j \in Jobs, Turn(j), LeftOut(j)' = LeftOut(j),
           tally'[j].saves = tally[j].saves, tally'[j].others = tally[j].others,
           Born(j)' <=> Born(j), Ahead(j)' \subseteq Ahead(j)
    PROVE  Turn(j)'
<1>1. Cardinality(Ahead(j)') <= Cardinality(Ahead(j))
  BY AheadSize, FS_Subset DEF Ahead
<1>2. /\ Cardinality(Ahead(j)) \in Nat /\ Cardinality(Ahead(j)') \in Nat
      /\ Others \in Nat
  BY AheadSize DEF Ahead
<1>3. /\ LeftOut(j) \in Nat /\ LeftOut(j) * Batch \in Nat
      /\ (1 + tally[j].saves) * Others + tally[j].others \in Nat
  BY <1>2, TurnTypes, Products, BatchAssumption DEF Turn
<1>4. Cardinality(Ahead(j))' = Cardinality(Ahead(j)')
  OBVIOUS
<1>5. (LeftOut(j) * Batch)' = LeftOut(j) * Batch
  OBVIOUS
<1>6. ((1 + tally[j].saves) * Others + tally[j].others)'
          = (1 + tally[j].saves) * Others + tally[j].others
  BY DEF Others
<1>. QED BY <1>1, <1>2, <1>3, <1>4, <1>5, <1>6 DEF Turn

\* A job that was not left out may have everybody ahead of it again
LEMMA NewTurn ==
    ASSUME TypeOK, TypeOK', NEW j \in Jobs, LeftOut(j)' = 0
    PROVE  Turn(j)'
<1>1. Cardinality(Ahead(j))' \in Nat /\ Cardinality(Ahead(j))' <= Others /\ Others \in Nat
  BY AheadSize DEF Ahead
<1>2. tally'[j].saves \in Nat /\ tally'[j].others \in Nat
  BY DEF TypeOK, Tally
<1>3. /\ (1 + tally'[j].saves) * Others = tally'[j].saves * Others + Others
      /\ tally'[j].saves * Others \in Nat
  BY <1>1, <1>2, Products
<1>4. LeftOut(j)' * Batch = 0
  BY BatchAssumption
<1>5. Others' = Others
  BY DEF Others
<1>. QED BY <1>1, <1>2, <1>3, <1>4, <1>5 DEF Turn

\* The scan that leaves j out, with its row free, takes a batch of the jobs ahead of it
LEMMA PassedBy ==
    ASSUME TypeOK, NEW q \in Slices(Selectable),
           NEW j \in Selectable, j \notin Elements(q)
    PROVE  /\ Elements(q) \subseteq Ahead(j)
           /\ Cardinality(Elements(q)) = Batch
<1> DEFINE due == Selectable
           n == IF Cardinality(due) < Batch THEN Cardinality(due) ELSE Batch
<1>1. /\ Cardinality(Elements(q)) = n /\ OldestFirst(q, due)
  BY DEF Slices
<1>2. Elements(q) \subseteq due /\ j \in due
  BY SliceType
<1>3. \A k \in Elements(q) : row[k].next <= row[j].next
  BY <1>1, <1>2 DEF OldestFirst, Elements
<1>4. IsFiniteSet(due) /\ Cardinality(due) \in Nat /\ due \subseteq Jobs
  BY JobsAssumption, FS_Subset, FS_CardinalityType DEF Selectable
<1>. HIDE DEF due
<1>5. Cardinality(Elements(q)) # Cardinality(due)
  BY <1>2, <1>4, FS_Subset
<1>6. n = Batch
  BY <1>1, <1>5
<1>. QED BY <1>1, <1>2, <1>3, <1>4, <1>6 DEF Ahead

LEMMA ScanTurns ==
    ASSUME TypeOK, TypeOK', Budget, Turns,
           NEW q \in Slices(Selectable), ScanJobs(q)
    PROVE  Turns'
<1>1. row \in [Jobs -> Row] /\ tally \in [Jobs -> Tally] /\ now \in Nat
  BY DEF TypeOK
<1>2. SUFFICES ASSUME NEW j \in Jobs PROVE Turn(j)'
  BY DEF Turns
<1>3. CASE j \in Elements(q) \/ ~Due(j)
  <2>1. tally'[j].passed = 0 /\ tally'[j].locked = 0
    BY <1>1, <1>3 DEF ScanJobs, Tally
  <2>. QED BY <2>1, NewTurn DEF LeftOut
<1>5. CASE j \notin Elements(q) /\ Due(j) /\ Locked(j)
  <2>1. /\ tally'[j].passed = tally[j].passed + 1 /\ tally'[j].locked = tally[j].locked + 1
        /\ tally'[j].saves = tally[j].saves /\ tally'[j].others = tally[j].others
        /\ row'[j].next = row[j].next
    BY <1>1, <1>5 DEF ScanJobs, Advanced, Tally
  <2>2. LeftOut(j)' = LeftOut(j)
    BY <2>1, TurnTypes DEF LeftOut
  <2>3. \A k \in Jobs : Born(k)' <=> Born(k)
    BY <1>1 DEF ScanJobs, Tally, Born
  <2>4. Ahead(j)' \subseteq Ahead(j)
    <3>. SUFFICES ASSUME NEW k \in Jobs \ {j}, Born(k)' => row'[k].next <= row'[j].next
                  PROVE  k \in Ahead(j)
      BY DEF Ahead
    <3>1. row[k].next \in Int /\ row[j].next \in Int
      BY <1>1 DEF Row
    <3>2. CASE k \in Elements(q)
      <4>1. row[k].next <= now /\ row'[k].next = NextRun(k)
        BY <1>1, <3>2, SliceType DEF ScanJobs, Advanced, Row, Due
      <4>2. NextRun(k) \in Int /\ now <= NextRun(k)
        BY <1>1, StoredPeriod DEF NextRun
      <4>. QED BY <1>1, <2>1, <2>3, <3>1, <4>1, <4>2 DEF Ahead
    <3>3. CASE k \notin Elements(q)
      <4>1. row'[k].next = row[k].next
        BY <1>1, <3>3 DEF ScanJobs, Advanced
      <4>. QED BY <2>1, <2>3, <4>1 DEF Ahead
    <3>. QED BY <3>2, <3>3
  <2>. QED BY <2>1, <2>2, <2>3, <2>4, SameTurn DEF Turns
<1>4. CASE j \notin Elements(q) /\ Due(j) /\ ~Locked(j)
  <2>1. /\ tally'[j].passed = tally[j].passed + 1
        /\ tally'[j].locked = tally[j].locked
        /\ tally'[j].saves = tally[j].saves
        /\ tally'[j].others = tally[j].others
        /\ row'[j].next = row[j].next /\ row[j].next <= now
    BY <1>1, <1>4 DEF ScanJobs, Advanced, Tally, Due
  <2>0. /\ LeftOut(j)' = LeftOut(j) + 1 /\ LeftOut(j) \in Nat /\ j \in Selectable
    BY <1>4, <2>1, TurnTypes DEF LeftOut, Turns, Turn, Selectable
  <2>2. \A k \in Jobs : Born(k)' <=> Born(k)
    BY <1>1 DEF ScanJobs, Tally, Born
  <2>3. Born(j) /\ \A k \in Elements(q) : k \in Jobs /\ Born(k)
    BY <1>4, SliceType DEF Budget, Due
  <2>4. \A k \in Elements(q) : row'[k].next = NextRun(k) /\ NextRun(k) > now
    <3>. SUFFICES ASSUME NEW k \in Elements(q)
                  PROVE  row'[k].next = NextRun(k) /\ NextRun(k) > now
      OBVIOUS
    <3>1. k \in Jobs
      BY <2>3
    <3>2. NextRun(k) \in Int /\ NextRun(k) > now
      BY <1>1, <3>1, StoredPeriod, MinPeriodAssumption DEF NextRun
    <3>. QED BY <1>1, <3>1, <3>2 DEF ScanJobs, Advanced, Row
  <2>5. \A k \in Jobs \ Elements(q) : row'[k].next = row[k].next
    BY <1>1 DEF ScanJobs, Advanced
  <2>6. Ahead(j)' \subseteq Ahead(j) \ Elements(q)
    <3>. SUFFICES ASSUME NEW k \in Jobs \ {j}, Born(k)' => row'[k].next <= row'[j].next
                  PROVE  k \in Ahead(j) \ Elements(q)
      BY DEF Ahead
    <3>1. row[j].next \in Int /\ row[k].next \in Int
      BY <1>1 DEF Row
    <3>2. k \notin Elements(q)
      <4>. SUFFICES ASSUME k \in Elements(q) PROVE FALSE
        OBVIOUS
      <4>1. NextRun(k) <= row[j].next /\ NextRun(k) > now
        BY <2>1, <2>2, <2>3, <2>4
      <4>2. NextRun(k) \in Int
        BY <1>1, StoredPeriod DEF NextRun
      <4>. QED BY <1>1, <2>1, <3>1, <4>1, <4>2
    <3>. QED BY <2>1, <2>2, <2>5, <3>2 DEF Ahead
  <2>. DEFINE A == Ahead(j)
              E == Elements(q)
  <2>7. E \subseteq A /\ Cardinality(E) = Batch
    BY <1>4, <2>0, PassedBy
  <2>8. IsFiniteSet(A) /\ Cardinality(A) \in Nat /\ IsFiniteSet(E) /\ Others \in Nat
    BY <2>7, AheadSize, FS_Subset DEF Ahead
  <2>9. /\ IsFiniteSet(A \ E) /\ Cardinality(A \ E) \in Nat
        /\ Cardinality(A \ E) = Cardinality(A) - Batch
    <3>1. Cardinality(A \ E) = Cardinality(A) - Cardinality(A \cap E) /\ IsFiniteSet(A \ E)
      BY <2>8, FS_Difference
    <3>2. A \cap E = E
      BY <2>7
    <3>. QED BY <2>7, <3>1, <3>2, FS_CardinalityType
  <2>10. Cardinality(Ahead(j)') \in Nat /\ Cardinality(Ahead(j)') <= Cardinality(A \ E)
    BY <2>6, <2>9, AheadSize, FS_Subset, FS_CardinalityType DEF Ahead
  <2>11. /\ LeftOut(j) * Batch \in Nat
         /\ (LeftOut(j) + 1) * Batch = LeftOut(j) * Batch + Batch
         /\ (1 + tally[j].saves) * Others + tally[j].others \in Nat
    BY <2>0, <2>8, TurnTypes, Products, BatchAssumption
  <2>12. LeftOut(j) * Batch + Cardinality(A)
             <= (1 + tally[j].saves) * Others + tally[j].others
    BY DEF Turns, Turn
  <2>13. ~Born(j)' => LeftOut(j)' = 0
    BY <2>2, <2>3
  <2>14. Others' = Others
    BY DEF Others
  <2>. HIDE DEF A, E
  <2>15. LeftOut(j)' * Batch + Cardinality(Ahead(j)')
             <= (1 + tally[j].saves) * Others + tally[j].others
    BY <2>0, <2>8, <2>9, <2>10, <2>11, <2>12, BatchAssumption
  <2>. QED BY <2>0, <2>1, <2>13, <2>14, <2>15 DEF Turn
<1>. QED BY <1>3, <1>4, <1>5

LEMMA SaveTurns ==
    ASSUME TypeOK, Budget, Turns, NEW c \in Clients, NEW j \in Jobs, SaveEdit(c, j)
    PROVE  Turns'
<1>1. row \in [Jobs -> Row] /\ tally \in [Jobs -> Tally]
  BY DEF TypeOK
<1>2. SUFFICES ASSUME NEW k \in Jobs PROVE Turn(k)'
  BY DEF Turns
<1>3. \A i \in Jobs : Born(i)' <=> Born(i)
  BY <1>1 DEF SaveEdit, Tally, Born
<1> DEFINE sum == LeftOut(k) * Batch
           own == (1 + tally[k].saves) * Others
<1>4. /\ Cardinality(Ahead(k)) \in Nat /\ Cardinality(Ahead(k)') \in Nat
      /\ Cardinality(Ahead(k)') <= Others /\ Others \in Nat
      /\ IsFiniteSet(Ahead(k))
  BY AheadSize DEF Ahead
<1>5. /\ sum \in Nat /\ own \in Nat /\ tally[k].others \in Nat
      /\ (1 + tally[k].saves) + 1 = 1 + (tally[k].saves + 1)
      /\ ((1 + tally[k].saves) + 1) * Others = own + Others
  <2>1. LeftOut(k) \in Nat
    BY DEF Turns, Turn
  <2>. QED BY <1>4, <2>1, TurnTypes, Products, BatchAssumption
<1>6. sum + Cardinality(Ahead(k)) <= own + tally[k].others
  BY DEF Turns, Turn
<1>7. Others' = Others
  BY DEF Others
<1>8. /\ LeftOut(k)' = LeftOut(k) /\ LeftOut(k) \in Nat
      /\ ~Born(k)' => LeftOut(k)' = 0
  BY <1>1, <1>3 DEF SaveEdit, Tally, Turns, Turn, LeftOut
<1>9. CASE k = j
  <2>1. tally'[k].saves = tally[k].saves + 1 /\ tally'[k].others = tally[k].others
    BY <1>1, <1>9 DEF SaveEdit, Tally
  <2>. HIDE DEF sum, own
  <2>2. sum + Cardinality(Ahead(k)') <= own + Others + tally[k].others
    BY <1>4, <1>5, <1>6
  <2>3. (1 + tally'[k].saves) * Others = own + Others
    BY <1>5, <2>1
  <2>. QED BY <1>7, <1>8, <2>1, <2>2, <2>3 DEF Turn, sum
<1>10. CASE k # j
  <2>1. tally'[k].saves = tally[k].saves /\ tally'[k].others = tally[k].others + 1
    BY <1>1, <1>10 DEF SaveEdit, Tally
  <2>2. \A i \in Jobs \ {j} : row'[i] = row[i]
    BY <1>1 DEF SaveEdit
  <2>3. Ahead(k)' \subseteq Ahead(k) \cup {j}
    BY <1>3, <1>10, <2>2 DEF Ahead
  <2>4. Cardinality(Ahead(k)') <= Cardinality(Ahead(k)) + 1
    <3>1. /\ IsFiniteSet(Ahead(k) \cup {j})
          /\ Cardinality(Ahead(k) \cup {j}) <= Cardinality(Ahead(k)) + 1
      BY <1>4, FS_AddElement
    <3>2. Cardinality(Ahead(k)') <= Cardinality(Ahead(k) \cup {j})
      BY <2>3, <3>1, FS_Subset
    <3>3. Cardinality(Ahead(k) \cup {j}) \in Nat
      BY <3>1, FS_CardinalityType
    <3>. QED BY <1>4, <3>1, <3>2, <3>3
  <2>. HIDE DEF sum
  <2>5. sum + Cardinality(Ahead(k)') <= own + (tally[k].others + 1)
    <3>. HIDE DEF own
    <3>. QED BY <1>4, <1>5, <1>6, <2>4
  <2>. QED BY <1>7, <1>8, <2>1, <2>5 DEF Turn, sum
<1>. QED BY <1>9, <1>10

LEMMA CreateTurns ==
    ASSUME TypeOK, TypeOK', Budget, Turns, NEW j \in Jobs, NEW enabled \in BOOLEAN,
           NEW p \in Periods, Create(j, enabled, p)
    PROVE  Turns'
<1>1. row \in [Jobs -> Row] /\ tally \in [Jobs -> Tally] /\ now \in Nat
  BY DEF TypeOK
<1>2. SUFFICES ASSUME NEW k \in Jobs PROVE Turn(k)'
  BY DEF Turns
<1>3. CASE k = j
  <2>1. LeftOut(k)' = 0
    BY <1>1, <1>3 DEF Create, Tally, Born, Turns, Turn, LeftOut
  <2>. QED BY <2>1, NewTurn
<1>4. CASE k # j
  <2>1. \A i \in Jobs \ {j} : row'[i] = row[i] /\ tally'[i] = tally[i]
    BY <1>1 DEF Create
  <2>2. ~Born(j)
    BY DEF Create, Born
  <2>3. Ahead(k)' \subseteq Ahead(k)
    BY <1>4, <2>1, <2>2 DEF Ahead, Born
  <2>4. Born(k)' <=> Born(k)
    BY <1>4, <2>1 DEF Born
  <2>. QED BY <1>4, <2>1, <2>3, <2>4, SameTurn DEF Turns, LeftOut
<1>. QED BY <1>3, <1>4

\* Steps that neither move a job in the order nor leave one out
LEMMA SameTurns ==
    ASSUME TypeOK, Turns, UNCHANGED tally,
           \A j \in Jobs : row'[j].next = row[j].next
    PROVE  Turns'
<1>. SUFFICES ASSUME NEW j \in Jobs PROVE Turn(j)'
  BY DEF Turns
<1>1. \A k \in Jobs : Born(k)' <=> Born(k)
  BY DEF Born
<1>2. Ahead(j)' \subseteq Ahead(j)
  BY <1>1 DEF Ahead
<1>. QED BY <1>1, <1>2, SameTurn DEF Turns, LeftOut

LEMMA StepTurns ==
    ASSUME TypeOK, TypeOK', Budget, Turns, Next PROVE Turns'
<1>1. row \in [Jobs -> Row]
  BY DEF TypeOK
<1>2. ASSUME NEW c \in Clients, NEW j \in Jobs, NEW kind \in Kinds,
             NEW p \in Periods, ReadForEdit(c, j, kind, p)
      PROVE  Turns'
  BY <1>2, SameTurns DEF ReadForEdit
<1>3. ASSUME NEW c \in Clients, NEW j \in Jobs, Delete(c, j) \/ BeginWrite(c, j)
      PROVE  Turns'
  <2>1. \A k \in Jobs : row'[k].next = row[k].next
    BY <1>1, <1>3 DEF Delete, BeginWrite, Row
  <2>. QED BY <1>3, <2>1, SameTurns DEF Delete, BeginWrite
<1>4. ASSUME NEW j \in Jobs, MarkRun(j) PROVE Turns'
  <2>1. \A k \in Jobs : row'[k].next = row[k].next
    BY <1>1, <1>4 DEF MarkRun, Row
  <2>. QED BY <1>4, <2>1, SameTurns DEF MarkRun
<1>5. CASE Beat \/ Tick \/ Crash \/ QueueRun
  BY <1>5, SameTurns DEF Beat, Tick, Crash, QueueRun
<1>6. ASSUME NEW j \in Jobs, TakeRun(j) PROVE Turns'
  BY <1>6, SameTurns DEF TakeRun
<1>7. ASSUME NEW result \in {"success", "error"}, Publish(result) PROVE Turns'
  BY <1>7, SameTurns DEF Publish
<1>. QED BY <1>2, <1>3, <1>4, <1>5, <1>6, <1>7, ScanTurns, CreateTurns, SaveTurns
         DEF Next, ApiNext, WorkerNext

\* When more jobs are due than a scan takes, none whose row is free is left out
\* more often than the jobs ahead of it and the saves allow, for any number of
\* jobs, any size of a batch, any number of edits, and however many scans find
\* its row, or the rows of others, locked in between.
THEOREM NobodyPassedOver == Spec => []NoJobPassedOver
<1>1. Init => Turns
  <2>. SUFFICES ASSUME Init, NEW j \in Jobs PROVE Turn(j)
    BY DEF Turns
  <2>1. LeftOut(j) = 0 /\ tally[j].saves = 0 /\ tally[j].others = 0
    BY DEF Init, NoTally, LeftOut
  <2>2. Cardinality(Ahead(j)) \in Nat /\ Cardinality(Ahead(j)) <= Others /\ Others \in Nat
    BY AheadSize DEF Ahead
  <2>. QED BY <2>1, <2>2, BatchAssumption DEF Turn
<1>2. TypeOK /\ TypeOK' /\ Budget /\ Turns /\ [Next]_vars => Turns'
  <2>. SUFFICES ASSUME TypeOK, TypeOK', Budget, Turns, [Next]_vars PROVE Turns'
    OBVIOUS
  <2>1. CASE UNCHANGED vars
    BY <2>1, SameTurns DEF vars
  <2>. QED BY <2>1, StepTurns
<1>3. TypeOK /\ Turns => NoJobPassedOver
  <2>. SUFFICES ASSUME TypeOK, Turns, NEW j \in Jobs
                PROVE  LeftOut(j) * Batch
                           <= (1 + tally[j].saves) * Others + tally[j].others
    BY DEF NoJobPassedOver, Others, LeftOut
  <2>1. Cardinality(Ahead(j)) \in Nat /\ Others \in Nat
    BY AheadSize DEF Ahead
  <2>2. /\ LeftOut(j) * Batch \in Nat
        /\ (1 + tally[j].saves) * Others + tally[j].others \in Nat
    BY <2>1, TurnTypes, Products, BatchAssumption DEF Turns, Turn
  <2>. QED BY <2>1, <2>2 DEF Turns, Turn
<1>. QED BY <1>1, <1>2, <1>3, TypeCorrect, BudgetHolds, PTL DEF Spec

(***************************************************************************)
(* The refinement of PeriodicSchedule.  What a job is owed is counted in   *)
(* two sequences, so first how a count changes with the sequence.          *)
(***************************************************************************)

Places(j, q) == {k \in DOMAIN q : q[k] = j}

LEMMA PlacesType ==
    ASSUME NEW S, NEW q \in Seq(S), NEW j
    PROVE  /\ IsFiniteSet(Places(j, q)) /\ Occurrences(j, q) = Cardinality(Places(j, q))
           /\ Occurrences(j, q) \in Nat
<1>1. IsFiniteSet(1..Len(q)) /\ Places(j, q) \subseteq 1..Len(q)
  BY FS_Interval DEF Places
<1>. QED BY <1>1, FS_Subset, FS_CardinalityType DEF Places, Occurrences

LEMMA NoPlaces ==
    ASSUME NEW j PROVE Occurrences(j, <<>>) = 0
BY FS_EmptySet DEF Occurrences

LEMMA PlacesAppend ==
    ASSUME NEW S, NEW q \in Seq(S), NEW e \in S, NEW j
    PROVE  Occurrences(j, Append(q, e))
               = IF e = j THEN Occurrences(j, q) + 1 ELSE Occurrences(j, q)
<1> DEFINE r == Append(q, e)
           m == Len(q) + 1
<1>1. /\ DOMAIN r = 1..m /\ DOMAIN q = 1..Len(q) /\ Len(q) \in Nat
      /\ r[m] = e /\ \A k \in 1..Len(q) : r[k] = q[k]
  OBVIOUS
<1>. HIDE DEF r
<1>2. Places(j, r) = IF e = j THEN Places(j, q) \cup {m} ELSE Places(j, q)
  BY <1>1 DEF Places
<1>3. m \notin Places(j, q)
  BY <1>1 DEF Places
<1>4. IsFiniteSet(Places(j, q)) /\ Occurrences(j, q) = Cardinality(Places(j, q))
  BY PlacesType
<1>5. Occurrences(j, r) = Cardinality(Places(j, r))
  BY DEF Occurrences, Places
<1>6. Cardinality(Places(j, q) \cup {m}) = Cardinality(Places(j, q)) + 1
  BY <1>3, <1>4, FS_AddElement
<1>7. Occurrences(j, r) = IF e = j THEN Occurrences(j, q) + 1 ELSE Occurrences(j, q)
  BY <1>2, <1>4, <1>5, <1>6
<1>. QED BY <1>7 DEF r

LEMMA PlacesTail ==
    ASSUME NEW S, NEW q \in Seq(S), q # <<>>, NEW j
    PROVE  Occurrences(j, q) = IF Head(q) = j THEN Occurrences(j, Tail(q)) + 1
                                              ELSE Occurrences(j, Tail(q))
<1> DEFINE t == Tail(q)
           n == Len(q) - 1
           shifted == {k \in 2..Len(q) : q[k] = j}
           shift == [k \in Places(j, t) |-> k + 1]
<1>1. /\ DOMAIN t = 1..n /\ DOMAIN q = 1..Len(q) /\ Len(q) \in Nat \ {0} /\ n \in Nat
      /\ Head(q) = q[1] /\ \A k \in 1..n : t[k] = q[k + 1]
  OBVIOUS
<1>2. t \in Seq(S)
  OBVIOUS
<1>. HIDE DEF t
<1>3. shift \in Bijection(Places(j, t), shifted)
  <2>1. Places(j, t) \subseteq 1..n /\ shift \in [Places(j, t) -> shifted]
    BY <1>1 DEF Places
  <2>2. \A a, b \in Places(j, t) : shift[a] = shift[b] => a = b
    <3>. SUFFICES ASSUME NEW a \in Places(j, t), NEW b \in Places(j, t), shift[a] = shift[b]
                  PROVE  a = b
      OBVIOUS
    <3>1. a \in Int /\ b \in Int /\ a + 1 = b + 1
      BY <1>1, <2>1
    <3>. QED BY <3>1
  <2>3. \A k \in shifted : \E i \in Places(j, t) : shift[i] = k
    <3>. SUFFICES ASSUME NEW k \in shifted PROVE \E i \in Places(j, t) : shift[i] = k
      OBVIOUS
    <3>1. k - 1 \in 1..n /\ (k - 1) + 1 = k
      BY <1>1
    <3>2. k - 1 \in Places(j, t)
      BY <1>1, <3>1 DEF Places
    <3>. QED BY <3>1, <3>2
  <2>. QED BY <2>1, <2>2, <2>3 DEF Bijection, Injection, Surjection, IsInjective
<1>4. /\ IsFiniteSet(shifted) /\ Cardinality(shifted) = Occurrences(j, t)
      /\ Occurrences(j, t) \in Nat
  <2>1. IsFiniteSet(Places(j, t)) /\ Occurrences(j, t) = Cardinality(Places(j, t))
        /\ Occurrences(j, t) \in Nat
    BY <1>2, PlacesType
  <2>2. ExistsBijection(Places(j, t), shifted)
    BY <1>3 DEF ExistsBijection
  <2>. HIDE DEF shifted
  <2>. QED BY <2>1, <2>2, FS_Bijection
<1>5. Places(j, q) = IF Head(q) = j THEN shifted \cup {1} ELSE shifted
  BY <1>1 DEF Places
<1>6. 1 \notin shifted
  OBVIOUS
<1>7. Occurrences(j, q) = Cardinality(Places(j, q))
  BY PlacesType
<1>8. Cardinality(shifted \cup {1}) = Cardinality(shifted) + 1
  <2>. HIDE DEF shifted
  <2>. QED BY <1>4, <1>6, FS_AddElement
<1>. HIDE DEF shifted
<1>9. Occurrences(j, q) = IF Head(q) = j THEN Occurrences(j, t) + 1 ELSE Occurrences(j, t)
  BY <1>4, <1>5, <1>7, <1>8
<1>. QED BY <1>9 DEF t

Distinct(q) == \A a, b \in DOMAIN q : q[a] = q[b] => a = b

LEMMA PlacesDistinct ==
    ASSUME NEW S, NEW q \in Seq(S), Distinct(q), NEW j
    PROVE  Occurrences(j, q) = IF j \in Elements(q) THEN 1 ELSE 0
<1>1. CASE j \in Elements(q)
  <2>1. PICK k \in DOMAIN q : q[k] = j
    BY <1>1 DEF Elements
  <2>2. Places(j, q) = {k}
    BY <2>1 DEF Places, Distinct
  <2>. QED BY <1>1, <2>2, FS_Singleton DEF Places, Occurrences
<1>2. CASE j \notin Elements(q)
  <2>1. Places(j, q) = {}
    BY <1>2 DEF Places, Elements
  <2>. QED BY <1>2, <2>1, FS_EmptySet DEF Places, Occurrences
<1>. QED BY <1>1, <1>2

\* A slice takes a job once
LEMMA SliceDistinct ==
    ASSUME NEW q \in Slices(Selectable) PROVE Distinct(q)
<1> DEFINE due == Selectable
           n == IF Cardinality(due) < Batch THEN Cardinality(due) ELSE Batch
<1>1. Cardinality(due) \in Nat
  BY JobsAssumption, FS_Subset, FS_CardinalityType DEF Selectable
<1>2. n \in Nat
  BY <1>1, BatchAssumption
<1>3. q \in [1..n -> due] /\ Cardinality(Elements(q)) = n
  BY DEF Slices
<1>. HIDE DEF n, due
<1>4. q \in Surjection(1..n, Elements(q))
  <2>1. DOMAIN q = 1..n /\ q = [k \in 1..n |-> q[k]]
    BY <1>3
  <2>2. q \in [1..n -> Elements(q)] /\ \A j \in Elements(q) : \E k \in 1..n : q[k] = j
    BY <2>1 DEF Elements
  <2>. QED BY <2>2 DEF Surjection
<1>5. IsFiniteSet(1..n) /\ Cardinality(1..n) = n
  BY <1>2, FS_Interval
<1>6. q \in Injection(1..n, Elements(q))
  <2>. DEFINE I == 1..n
              T == Elements(q)
  <2>1. IsFiniteSet(I) /\ Cardinality(I) = Cardinality(T) /\ q \in Surjection(I, T)
    BY <1>3, <1>4, <1>5
  <2>. HIDE DEF I, T
  <2>2. IsFiniteSet(T)
    BY <2>1, FS_Surjection
  <2>3. q \in Injection(I, T)
    BY <2>1, <2>2, FS_SurjSameCardinalityImpliesInj
  <2>. QED BY <2>3 DEF I, T
<1>. QED BY <1>3, <1>6 DEF Injection, IsInjective, Distinct

\* What a scan has committed is handed over one job at a time, each job once,
\* and before the worker does anything else
Handed ==
    /\ Distinct(todo)
    /\ at # "queueing" => todo = <<>>

LEMMA StepHanded ==
    ASSUME TypeOK, Handed, Next PROVE Handed'
<1>1. ASSUME NEW q \in Slices(Selectable), ScanJobs(q) PROVE Handed'
  <2>1. todo' = q /\ Distinct(q)
    BY <1>1, SliceDistinct DEF ScanJobs
  <2>2. at' # "queueing" => todo' = <<>>
    BY <1>1 DEF ScanJobs
  <2>. QED BY <2>1, <2>2 DEF Handed, Distinct
<1>2. CASE QueueRun
  <2>1. todo \in Seq(Jobs) /\ todo # <<>> /\ todo' = Tail(todo)
    BY <1>2 DEF QueueRun, TypeOK
  <2>2. Distinct(todo')
    BY <2>1 DEF Handed, Distinct
  <2>3. at' # "queueing" => todo' = <<>>
    BY <1>2 DEF QueueRun
  <2>. QED BY <2>2, <2>3 DEF Handed, Distinct
<1>3. ASSUME NEW j \in Jobs, TakeRun(j) \/ MarkRun(j) PROVE Handed'
  BY <1>3 DEF TakeRun, TakeMessage, MarkRun, Handed, Distinct
<1>4. ASSUME NEW result \in {"success", "error"}, Publish(result) PROVE Handed'
  BY <1>4 DEF Publish, Handed, Distinct
<1>5. CASE Beat \/ Tick
  BY <1>5 DEF Beat, Tick, workerVars, Handed, Distinct
<1>6. CASE Crash
  BY <1>6 DEF Crash, Handed, Distinct
<1>7. CASE ApiNext
  BY <1>7 DEF ApiNext, Create, ReadForEdit, BeginWrite, SaveEdit, Delete,
               workerVars, Handed, Distinct
<1>. QED BY <1>1, <1>2, <1>3, <1>4, <1>5, <1>6, <1>7 DEF Next, WorkerNext

LEMMA HandedHolds == Spec => []Handed
<1>1. Init => Handed
  BY DEF Init, Handed, Distinct
<1>2. TypeOK /\ Handed /\ [Next]_vars => Handed'
  <2>1. ASSUME Handed, UNCHANGED vars PROVE Handed'
    BY <2>1 DEF vars, Handed, Distinct
  <2>. QED BY <2>1, StepHanded
<1>. QED BY <1>1, <1>2, TypeCorrect, PTL DEF Spec

\* The state of the schedule, as Schedule maps it
NextOf == [j \in Jobs |-> row[j].next]
ActiveJobs == {j \in Jobs : row[j].present /\ row[j].enabled}
OwedTo == [j \in Jobs |-> Occurrences(j, todo) + Occurrences(j, queue)]

Mapped == <<now, NextOf, ActiveJobs, OwedTo>>

LEMMA MappedInit ==
    ASSUME Init PROVE Schedule!Init
<1>1. \A j \in Jobs : row[j].next = 0 /\ ~row[j].present
  BY DEF Init, NoRow
<1>2. \A j \in Jobs : Occurrences(j, todo) + Occurrences(j, queue) = 0
  BY NoPlaces DEF Init
<1>. QED BY <1>1, <1>2 DEF Init, Schedule!Init

LEMMA OwedTypes ==
    ASSUME TypeOK, NEW j \in Jobs
    PROVE  Occurrences(j, todo) \in Nat /\ Occurrences(j, queue) \in Nat
BY PlacesType DEF TypeOK

\* A client's write moves one job and touches nothing else
LEMMA WriteMapped ==
    ASSUME TypeOK, TypeOK', NEW j \in Jobs, now' = now, UNCHANGED <<todo, queue>>,
           \A k \in Jobs \ {j} : row'[k] = row[k]
    PROVE  Schedule!Configure(j)
<1>1. \A k \in Jobs : row'[k].next \in Int
  BY DEF TypeOK, Row
<1>2. NextOf' \in [Jobs -> Int] /\ \A k \in Jobs \ {j} : NextOf'[k] = NextOf[k]
  BY <1>1 DEF NextOf
<1>3. ActiveJobs' \in {ActiveJobs \cup {j}, ActiveJobs \ {j}}
  BY DEF ActiveJobs
<1>4. OwedTo' = OwedTo
  BY DEF OwedTo
<1>. QED BY <1>2, <1>3, <1>4 DEF Schedule!Configure, NextOf, ActiveJobs, OwedTo

LEMMA ApiMapped ==
    ASSUME TypeOK, TypeOK', ApiNext PROVE Schedule!Next \/ UNCHANGED Mapped
<1>1. row \in [Jobs -> Row]
  BY DEF TypeOK
<1>2. ASSUME NEW j \in Jobs, NEW enabled \in BOOLEAN, NEW p \in Periods,
             Create(j, enabled, p)
      PROVE  Schedule!Configure(j)
  BY <1>1, <1>2, WriteMapped DEF Create, workerVars
<1>3. ASSUME NEW c \in Clients, NEW j \in Jobs, NEW kind \in Kinds,
             NEW p \in Periods, ReadForEdit(c, j, kind, p)
      PROVE  UNCHANGED Mapped
  BY <1>3 DEF ReadForEdit, workerVars, Mapped, NextOf, ActiveJobs, OwedTo
<1>4. ASSUME NEW c \in Clients, NEW j \in Jobs, SaveEdit(c, j)
      PROVE  Schedule!Configure(j)
  BY <1>1, <1>4, WriteMapped DEF SaveEdit, workerVars
<1>5. ASSUME NEW c \in Clients, NEW j \in Jobs, Delete(c, j) PROVE Schedule!Configure(j)
  BY <1>1, <1>5, WriteMapped DEF Delete, workerVars
<1>6. ASSUME NEW c \in Clients, NEW j \in Jobs, BeginWrite(c, j) PROVE UNCHANGED Mapped
  BY <1>6 DEF BeginWrite, workerVars, Mapped, NextOf, ActiveJobs, OwedTo
<1>. QED BY <1>2, <1>3, <1>4, <1>5, <1>6 DEF ApiNext, Schedule!Next

\* A scan releases its slice, or finds nothing to release
LEMMA ScanMapped ==
    ASSUME TypeOK, Handed, NEW q \in Slices(Selectable), ScanJobs(q)
    PROVE  Schedule!Next \/ UNCHANGED Mapped
<1>1. row \in [Jobs -> Row] /\ queue \in Seq(Jobs \cup {Scan}) /\ now \in Nat
  BY DEF TypeOK
<1>2. /\ todo = <<>> /\ todo' = q /\ now' = now
      /\ queue # <<>> /\ Head(queue) = Scan /\ queue' = Tail(queue)
  BY DEF ScanJobs, TakeMessage, Handed
<1>3. q \in Seq(Jobs) /\ Distinct(q) /\ Elements(q) \subseteq {j \in Jobs : Due(j)}
  BY SliceType, SliceDistinct
<1>4. \A j \in Jobs : /\ Occurrences(j, todo) = 0
                      /\ Occurrences(j, todo') = IF j \in Elements(q) THEN 1 ELSE 0
                      /\ Occurrences(j, queue') = Occurrences(j, queue)
                      /\ Occurrences(j, queue) \in Nat
  <2>. SUFFICES ASSUME NEW j \in Jobs
                PROVE  /\ Occurrences(j, todo) = 0
                       /\ Occurrences(j, todo') = IF j \in Elements(q) THEN 1 ELSE 0
                       /\ Occurrences(j, queue') = Occurrences(j, queue)
                       /\ Occurrences(j, queue) \in Nat
    OBVIOUS
  <2>1. Occurrences(j, <<>>) = 0
    BY NoPlaces
  <2>2. Occurrences(j, q) = IF j \in Elements(q) THEN 1 ELSE 0
    BY <1>3, PlacesDistinct
  <2>3. Occurrences(j, Tail(queue)) = Occurrences(j, queue)
    BY <1>1, <1>2, PlacesTail, MessageAssumption
  <2>. QED BY <1>2, <2>1, <2>2, <2>3, OwedTypes
<1>5. OwedTo' = [j \in Jobs |-> IF j \in Elements(q) THEN OwedTo[j] + 1 ELSE OwedTo[j]]
  BY <1>4 DEF OwedTo
<1>6. \A j \in Jobs : /\ row'[j].present = row[j].present
                      /\ row'[j].enabled = row[j].enabled
  BY <1>1 DEF ScanJobs, Row
<1>7. ActiveJobs' = ActiveJobs
  BY <1>6 DEF ActiveJobs
<1>8. CASE Elements(q) = {}
  <2>1. row' = row
    BY <1>1, <1>8 DEF ScanJobs, Advanced
  <2>2. OwedTo' = OwedTo
    BY <1>5, <1>8 DEF OwedTo
  <2>. QED BY <1>2, <1>7, <2>1, <2>2 DEF Mapped, NextOf
<1>9. CASE Elements(q) # {}
  <2> DEFINE S == Elements(q)
             periods == {PeriodOf(p) : p \in Periods}
             d == [j \in S |-> PeriodOf(row[j].period)]
  <2>1. S \subseteq {j \in ActiveJobs : NextOf[j] <= now} /\ S \in SUBSET Jobs
    BY <1>3 DEF Due, ActiveJobs, NextOf
  <2>2. d \in [S -> periods]
    BY <1>1, <1>3 DEF Row, Stored
  <2>3. NextOf' = [j \in Jobs |-> IF j \in S THEN now + d[j] ELSE NextOf[j]]
    <3>1. \A j \in Jobs : row'[j].next = IF j \in S THEN NextRun(j) ELSE row[j].next
      BY <1>1 DEF ScanJobs, Advanced, Row
    <3>. QED BY <3>1 DEF NextOf, NextRun
  <2>. HIDE DEF d
  <2>4. \E e \in [S -> periods] :
           NextOf' = [j \in Jobs |-> IF j \in S THEN now + e[j] ELSE NextOf[j]]
    BY <2>2, <2>3
  <2>5. Schedule!Release(S)
    BY <1>2, <1>5, <1>7, <1>9, <2>1, <2>4
    DEF Schedule!Release, NextOf, ActiveJobs, OwedTo
  <2>. QED BY <2>1, <2>5 DEF Schedule!Next
<1>. QED BY <1>8, <1>9

LEMMA TakeRunMapped ==
    ASSUME TypeOK, NEW j \in Jobs, TakeRun(j) PROVE Schedule!Run(j)
<1>1. /\ queue \in Seq(Jobs \cup {Scan}) /\ queue # <<>> /\ Head(queue) = j
      /\ queue' = Tail(queue) /\ UNCHANGED <<now, row, todo>>
  BY DEF TypeOK, TakeRun, TakeMessage
<1>2. \A k \in Jobs : Occurrences(k, queue) = IF k = j THEN Occurrences(k, queue') + 1
                                                     ELSE Occurrences(k, queue')
  BY <1>1, PlacesTail
<1>3. queue' \in Seq(Jobs \cup {Scan})
  BY <1>1
<1>4. \A k \in Jobs : /\ Occurrences(k, queue') \in Nat /\ Occurrences(k, queue) \in Nat
                      /\ Occurrences(k, todo) \in Nat
  BY <1>3, OwedTypes, PlacesType
<1>5. OwedTo[j] > 0
  BY <1>2, <1>4 DEF OwedTo
<1>6. OwedTo' = [OwedTo EXCEPT ![j] = @ - 1]
  <2>1. \A k \in Jobs : Occurrences(k, todo') = Occurrences(k, todo)
    BY <1>1
  <2>2. \A k \in Jobs : Occurrences(k, todo') + Occurrences(k, queue')
                          = IF k = j THEN (Occurrences(k, todo) + Occurrences(k, queue)) - 1
                                     ELSE Occurrences(k, todo) + Occurrences(k, queue)
    BY <1>2, <1>4, <2>1
  <2>. QED BY <2>2 DEF OwedTo
<1>7. NextOf' = NextOf /\ ActiveJobs' = ActiveJobs
  BY <1>1 DEF NextOf, ActiveJobs
<1>. QED BY <1>1, <1>5, <1>6, <1>7 DEF Schedule!Run, NextOf, ActiveJobs, OwedTo

LEMMA WorkerMapped ==
    ASSUME TypeOK, Handed, WorkerNext PROVE Schedule!Next \/ UNCHANGED Mapped
<1>1. row \in [Jobs -> Row] /\ todo \in Seq(Jobs) /\ queue \in Seq(Jobs \cup {Scan})
  BY DEF TypeOK
<1>2. CASE QueueRun
  <2>1. /\ todo # <<>> /\ todo' = Tail(todo) /\ queue' = Append(queue, Head(todo))
        /\ UNCHANGED <<now, row>> /\ Head(todo) \in Jobs
    BY <1>1, <1>2 DEF QueueRun
  <2>2. \A j \in Jobs : Occurrences(j, todo) = IF Head(todo) = j
                             THEN Occurrences(j, todo') + 1 ELSE Occurrences(j, todo')
    BY <1>1, <2>1, PlacesTail
  <2>3. \A j \in Jobs : Occurrences(j, queue') = IF Head(todo) = j
                             THEN Occurrences(j, queue) + 1 ELSE Occurrences(j, queue)
    <3>1. Head(todo) \in Jobs \cup {Scan}
      BY <2>1
    <3>. QED BY <1>1, <2>1, <3>1, PlacesAppend
  <2>4. todo' \in Seq(Jobs)
    BY <1>1, <2>1
  <2>5. \A j \in Jobs : /\ Occurrences(j, todo) \in Nat /\ Occurrences(j, queue) \in Nat
                        /\ Occurrences(j, todo') \in Nat
    BY <2>4, OwedTypes, PlacesType
  <2>6. \A j \in Jobs : Occurrences(j, todo') + Occurrences(j, queue')
                            = Occurrences(j, todo) + Occurrences(j, queue)
    BY <2>2, <2>3, <2>5
  <2>. QED BY <2>1, <2>6 DEF Mapped, NextOf, ActiveJobs, OwedTo
<1>3. ASSUME NEW j \in Jobs, MarkRun(j) PROVE UNCHANGED Mapped
  <2>1. \A k \in Jobs : /\ row'[k].next = row[k].next
                        /\ row'[k].present = row[k].present
                        /\ row'[k].enabled = row[k].enabled
    BY <1>1, <1>3 DEF MarkRun, Row
  <2>. QED BY <1>3, <2>1 DEF MarkRun, Mapped, NextOf, ActiveJobs, OwedTo
<1>4. ASSUME NEW result \in {"success", "error"}, Publish(result)
      PROVE  UNCHANGED Mapped
  BY <1>4 DEF Publish, Mapped, NextOf, ActiveJobs, OwedTo
<1>. QED BY <1>2, <1>3, <1>4, ScanMapped, TakeRunMapped DEF WorkerNext, Schedule!Next

LEMMA EnvMapped ==
    ASSUME TypeOK, Handed, Beat \/ Tick \/ Crash
    PROVE  Schedule!Next \/ UNCHANGED Mapped
<1>1. CASE Beat
  <2>1. /\ queue \in Seq(Jobs \cup {Scan}) /\ queue' = Append(queue, Scan)
        /\ Scan \in Jobs \cup {Scan} /\ Scan \notin Jobs
    BY <1>1, MessageAssumption DEF Beat, TypeOK
  <2>2. \A j \in Jobs : Occurrences(j, queue') = Occurrences(j, queue)
    BY <2>1, PlacesAppend
  <2>. QED BY <1>1, <2>2 DEF Beat, Mapped, NextOf, ActiveJobs, OwedTo
<1>2. CASE Tick
  <2>1. Schedule!Advance
    BY <1>2 DEF Tick, workerVars, Schedule!Advance
  <2>. QED BY <2>1 DEF Schedule!Next
<1>3. CASE Crash
  <2>1. todo' = <<>> /\ UNCHANGED <<now, row, queue>>
    BY <1>3 DEF Crash
  <2>2. \A j \in Jobs : /\ Occurrences(j, todo') = 0
                        /\ Occurrences(j, todo) \in {0, 1}
                        /\ Occurrences(j, queue') = Occurrences(j, queue)
                        /\ Occurrences(j, queue) \in Nat
    BY <2>1, NoPlaces, PlacesDistinct, OwedTypes DEF Handed, TypeOK
  <2>3. OwedTo' \in [Jobs -> Nat]
    BY <2>2 DEF OwedTo
  <2>4. \A j \in Jobs : OwedTo'[j] \in {OwedTo[j], OwedTo[j] - 1}
    BY <2>2 DEF OwedTo
  <2>5. Schedule!Lose
    BY <2>1, <2>3, <2>4 DEF Schedule!Lose, OwedTo
  <2>. QED BY <2>5 DEF Schedule!Next
<1>. QED BY <1>1, <1>2, <1>3

\* Rows, transaction, queue and tasks implement the schedule: only a due job
\* that is switched on is released, a release puts its next run a period ahead,
\* and each release is answered by at most one run, for any number of jobs and
\* however the worker dies.
THEOREM ScheduleImplemented == Spec => RunsAsScheduled
<1>1. Init => Schedule!Init
  BY MappedInit
<1>2. TypeOK /\ TypeOK' /\ Handed /\ [Next]_vars => [Schedule!Next]_(Schedule!vars)
  <2>. SUFFICES ASSUME TypeOK, TypeOK', Handed, [Next]_vars
                PROVE  Schedule!Next \/ UNCHANGED Mapped
    BY DEF Schedule!vars, Mapped, NextOf, ActiveJobs, OwedTo
  <2>1. CASE UNCHANGED vars
    BY <2>1 DEF vars, Mapped, NextOf, ActiveJobs, OwedTo
  <2>. QED BY <2>1, ApiMapped, WorkerMapped, EnvMapped DEF Next
<1>. QED BY <1>1, <1>2, TypeCorrect, HandedHolds, PTL
         DEF Spec, RunsAsScheduled, Schedule!Spec
=============================================================================
