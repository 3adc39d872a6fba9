------------------------ MODULE CaptureSessionsProofs ------------------------
(***************************************************************************)
(* What holds of CaptureSessions for any number of sessions, interfaces,   *)
(* writers, requests and restarts: the types; that no thread ever closes a *)
(* writer which the map of active captures still offers; that a session    *)
(* which has ended stays ended; that packet_count never runs ahead of the  *)
(* packets appended; and how far a file can outgrow the size limit.        *)
(***************************************************************************)
EXTENDS CaptureSessions, FiniteSetTheorems, TLAPS

USE DEF Procs, OptWriter, OptSession, Scope, Ended, Missing

(***************************************************************************)
(* Type correctness: one lemma for each thread, one step for each action.  *)
(***************************************************************************)

LEMMA WebType ==
    ASSUME TypeOK, WebNext PROVE TypeOK'
<1> USE DEF TypeOK, Status, WebSteps, rowVars, ingestVars, taskVars, webVars
<1>. PICK s \in Sessions : \/ \E sc \in Scope : StartCapture(s, sc)
                           \/ StartReply(s) \/ StartTimeout(s)
                           \/ StartRefresh(s) \/ StartMarkError(s)
                           \/ \E op \in Ops : Request(op, s)
  BY DEF WebNext
<1>1. CASE \E sc \in Scope : StartCapture(s, sc)
  BY <1>1 DEF StartCapture, Job
<1>2. CASE StartReply(s)
  BY <1>2 DEF StartReply
<1>3. CASE StartTimeout(s)
  BY <1>3 DEF StartTimeout
<1>4. CASE StartRefresh(s)
  BY <1>4 DEF StartRefresh
<1>5. CASE StartMarkError(s)
  BY <1>5 DEF StartMarkError, SetStatus
<1>6. CASE \E op \in Ops : Request(op, s)
  <2>. PICK op \in Ops : Request(op, s)
    BY <1>6
  <2>1. [op |-> op, session |-> IF op = "deleteAll" THEN NoSession ELSE s] \in Job
    BY BoundAssumption DEF Job
  <2>2. queue' \in Seq(Job)
    BY <2>1 DEF Request
  <2>3. used' \in [packets : Nat, requests : Nat, crashes : Nat]
    <3>1. used \in [packets : Nat, requests : Nat, crashes : Nat]
      BY DEF TypeOK
    <3>. HIDE DEF TypeOK
    <3>. QED BY <3>1 DEF Request
  <2>. QED BY <2>2, <2>3 DEF Request
<1>. QED BY <1>1, <1>2, <1>3, <1>4, <1>5, <1>6

LEMMA ClosedType ==
    ASSUME TypeOK, NEW W PROVE Closed(W) \in [Writers -> Writer]
<1>1. writer \in [Writers -> Writer]
  BY DEF TypeOK
<1>. QED BY <1>1 DEF Closed, Writer

LEMMA TargetsAreWriters ==
    ASSUME TypeOK, NEW i \in Interfaces PROVE Targets(i) \in SUBSET Writers
BY DEF TypeOK, Targets

LEMMA IngestType ==
    ASSUME TypeOK, NEW i \in Interfaces, IngestNext(i) PROVE TypeOK'
<1> USE DEF rowVars, ingestVars, taskVars, webVars
<1>1. CASE SelectTargets(i)
  <2>1. at' \in [Procs -> Steps]
    BY <1>1, TargetsAreWriters DEF TypeOK, SelectTargets, Steps
  <2>2. todo' \in [Interfaces -> SUBSET Writers]
    BY <1>1, TargetsAreWriters DEF TypeOK, SelectTargets
  <2>3. used' \in [packets : Nat, requests : Nat, crashes : Nat]
    <3>1. used \in [packets : Nat, requests : Nat, crashes : Nat]
      BY DEF TypeOK
    <3>. QED BY <1>1, TargetsAreWriters, <3>1 DEF SelectTargets
  <2>. QED BY <1>1, <2>1, <2>2, <2>3
    DEF TypeOK, SelectTargets
<1>2. CASE QuerySessions(i)
  <2>1. at' \in [Procs -> Steps]
    BY <1>2 DEF TypeOK, QuerySessions, Steps
  <2>2. rows' \in [Procs -> SUBSET Sessions]
    BY <1>2 DEF TypeOK, QuerySessions
  <2>. QED BY <1>2, <2>1, <2>2
    DEF TypeOK, QuerySessions
<1>3. ASSUME NEW s \in Sessions, IngestCheck(i, s) PROVE TypeOK'
  <2>1. at' \in [Procs -> Steps]
    BY <1>3 DEF TypeOK, IngestCheck, Steps
  <2>2. rows' \in [Procs -> SUBSET Sessions]
    BY <1>3 DEF TypeOK, IngestCheck
  <2>3. opening' \in [Procs -> OptSession]
    <3>1. opening \in [Procs -> OptSession]
      BY DEF TypeOK
    <3>. QED BY <1>3, <3>1 DEF IngestCheck
  <2>4. activated' \in [Interfaces -> BOOLEAN]
    BY <1>3 DEF TypeOK, IngestCheck
  <2>. QED BY <1>3, <2>1, <2>2, <2>3, <2>4
    DEF TypeOK, IngestCheck
<1>4. CASE IngestOpenFails(i)
  <2>1. at' \in [Procs -> Steps]
    BY <1>4 DEF TypeOK, IngestOpenFails, IngestOpened, RegisterFails, SetStatus, Steps
  <2>2. opening' \in [Procs -> OptSession]
    BY <1>4 DEF TypeOK, IngestOpenFails, IngestOpened, RegisterFails, SetStatus
  <2>3. status' \in [Sessions -> Status]
    BY <1>4 DEF TypeOK, IngestOpenFails, IngestOpened, RegisterFails, SetStatus, Status
  <2>. QED BY <1>4, <2>1, <2>2, <2>3
    DEF TypeOK, IngestOpenFails, IngestOpened, RegisterFails, SetStatus
<1>5. CASE Reselect(i)
  <2>1. at' \in [Procs -> Steps]
    BY <1>5, TargetsAreWriters DEF TypeOK, Reselect, Steps, AfterPacket
  <2>2. todo' \in [Interfaces -> SUBSET Writers]
    <3>1. todo \in [Interfaces -> SUBSET Writers]
      BY DEF TypeOK
    <3>2. Targets(i) \in SUBSET Writers
      BY TargetsAreWriters
    <3>. QED BY <1>5, <3>1, <3>2 DEF Reselect
  <2>3. activated' \in [Interfaces -> BOOLEAN]
    BY <1>5, TargetsAreWriters DEF TypeOK, Reselect
  <2>. QED BY <1>5, <2>1, <2>2, <2>3
    DEF TypeOK, Reselect
<1>6. ASSUME NEW w \in Writers, IngestOpen(i, w) PROVE TypeOK'
  <2>1. at' \in [Procs -> Steps]
    BY <1>6 DEF TypeOK, IngestOpen, IngestOpened, RegisterActive, Steps
  <2>2. opening' \in [Procs -> OptSession]
    BY <1>6 DEF TypeOK, IngestOpen, IngestOpened, RegisterActive
  <2>3. writer' \in [Writers -> Writer]
    BY <1>6 DEF TypeOK, IngestOpen, IngestOpened, RegisterActive, Writer
  <2>4. active' \in [Sessions -> OptWriter]
    BY <1>6 DEF TypeOK, IngestOpen, IngestOpened, RegisterActive
  <2>5. disk' \in [Sessions -> Nat \cup {Missing}]
    BY <1>6 DEF TypeOK, IngestOpen, IngestOpened, RegisterActive, Writer
  <2>6. activated' \in [Interfaces -> BOOLEAN]
    BY <1>6 DEF TypeOK, IngestOpen, IngestOpened, RegisterActive
  <2>. QED BY <1>6, <2>1, <2>2, <2>3, <2>4, <2>5, <2>6
    DEF TypeOK, IngestOpen, IngestOpened, RegisterActive
<1>7. ASSUME NEW w \in Writers, WritePacket(i, w) PROVE TypeOK'
  <2>1. at' \in [Procs -> Steps]
    <3>1. at \in [Procs -> Steps] /\ i \in Procs
      BY DEF TypeOK, Procs
    <3>. QED BY <1>7, <3>1 DEF WritePacket, Steps
  <2>2. todo' \in [Interfaces -> SUBSET Writers]
    BY <1>7 DEF TypeOK, WritePacket
  <2>3. cur' \in [Interfaces -> OptWriter]
    BY <1>7 DEF TypeOK, WritePacket
  <2>4. writer' \in [Writers -> Writer]
    <3>1. writer \in [Writers -> Writer]
      BY DEF TypeOK
    <3>. QED BY <1>7, <3>1 DEF WritePacket, Writer
  <2>5. disk' \in [Sessions -> Nat \cup {Missing}]
    <3>1. disk \in [Sessions -> Nat \cup {Missing}] /\ writer \in [Writers -> Writer]
      BY DEF TypeOK
    <3>. QED BY <1>7, <3>1 DEF WritePacket, Writer
  <2>. QED BY <1>7, <2>1, <2>2, <2>3, <2>4, <2>5
    DEF TypeOK, WritePacket
<1>8. ASSUME NEW s \in Sessions, NEW w \in Writers, CountPacket(i, s, w) PROVE TypeOK'
  <2>1. at' \in [Procs -> Steps]
    BY <1>8 DEF TypeOK, CountPacket, Steps, AfterPacket
  <2>2. cur' \in [Interfaces -> OptWriter]
    BY <1>8 DEF TypeOK, CountPacket
  <2>3. over' \in [Interfaces -> SUBSET Writers]
    <3>1. over \in [Interfaces -> SUBSET Writers]
      BY DEF TypeOK
    <3>. QED BY <1>8, <3>1 DEF CountPacket
  <2>4. packets' \in [Sessions -> Nat]
    <3>1. packets \in [Sessions -> Nat]
      BY DEF TypeOK
    <3>. QED BY <1>8, <3>1 DEF CountPacket, Counted
  <2>5. size' \in [Sessions -> Int]
    <3>1. size \in [Sessions -> Int] /\ disk[s] \in Int /\ writer[w].pos \in Int
      BY DEF TypeOK, Writer
    <3>2. BytesWritten(w) \in Int
      BY <1>8, <3>1 DEF CountPacket, Handles, BytesWritten
    <3>. QED BY <1>8, <3>1, <3>2 DEF CountPacket
  <2>. QED BY <1>8, <2>1, <2>2, <2>3, <2>4, <2>5
    DEF TypeOK, CountPacket
<1>9. ASSUME NEW w \in Writers, CountRaises(i, w) PROVE TypeOK'
  <2>1. at' \in [Procs -> Steps]
    BY <1>9 DEF TypeOK, CountRaises, Abandon, Steps
  <2>2. cur' \in [Interfaces -> OptWriter]
    BY <1>9 DEF TypeOK, CountRaises, Abandon
  <2>3. todo' \in [Interfaces -> SUBSET Writers]
    BY <1>9 DEF TypeOK, CountRaises, Abandon
  <2>4. over' \in [Interfaces -> SUBSET Writers]
    BY <1>9 DEF TypeOK, CountRaises, Abandon
  <2>. QED BY <1>9, <2>1, <2>2, <2>3, <2>4
    DEF TypeOK, CountRaises, Abandon
<1>10. ASSUME NEW s \in Sessions, NEW w \in Writers, PopAtLimit(i, s, w) PROVE TypeOK'
  <2>1. at' \in [Procs -> Steps]
    BY <1>10 DEF TypeOK, PopAtLimit, Pop, Steps
  <2>2. active' \in [Sessions -> OptWriter]
    BY <1>10 DEF TypeOK, PopAtLimit, Pop
  <2>3. writer' \in [Writers -> Writer]
    BY <1>10, ClosedType DEF PopAtLimit
  <2>4. over' \in [Interfaces -> SUBSET Writers]
    BY <1>10 DEF TypeOK, PopAtLimit, Pop
  <2>5. cur' \in [Interfaces -> OptWriter]
    <3>1. cur \in [Interfaces -> OptWriter] /\ Current(s, w) \in OptWriter
      BY DEF TypeOK, Current
    <3>. QED BY <1>10, <3>1 DEF PopAtLimit
  <2>6. measured' \in [Procs -> Int]
    <3>1. measured \in [Procs -> Int] /\ disk[s] \in Int
      BY DEF TypeOK
    <3>. QED BY <1>10, <3>1 DEF PopAtLimit
  <2>. QED BY <1>10, <2>1, <2>2, <2>3, <2>4, <2>5, <2>6
    DEF TypeOK, PopAtLimit, Pop
<1>11. ASSUME NEW s \in Sessions, NEW w \in Writers, LimitRaises(i, s, w) PROVE TypeOK'
  <2>1. at' \in [Procs -> Steps]
    BY <1>11 DEF TypeOK, LimitRaises, Pop, Abandon, Steps
  <2>2. active' \in [Sessions -> OptWriter]
    BY <1>11 DEF TypeOK, LimitRaises, Pop, Abandon
  <2>3. writer' \in [Writers -> Writer]
    BY <1>11, ClosedType DEF LimitRaises
  <2>4. cur' \in [Interfaces -> OptWriter]
    BY <1>11 DEF TypeOK, LimitRaises, Pop, Abandon
  <2>5. todo' \in [Interfaces -> SUBSET Writers]
    BY <1>11 DEF TypeOK, LimitRaises, Pop, Abandon
  <2>6. over' \in [Interfaces -> SUBSET Writers]
    BY <1>11 DEF TypeOK, LimitRaises, Pop, Abandon
  <2>. QED BY <1>11, <2>1, <2>2, <2>3, <2>4, <2>5, <2>6
    DEF TypeOK, LimitRaises, Pop, Abandon
<1>12. ASSUME NEW s \in Sessions, NEW w \in Writers, SaveLimit(i, s, w) PROVE TypeOK'
  <2>1. at' \in [Procs -> Steps]
    BY <1>12 DEF TypeOK, SaveLimit, SetStatus, Steps, AfterPacket
  <2>2. status' \in [Sessions -> Status]
    BY <1>12 DEF TypeOK, SaveLimit, SetStatus, Status
  <2>3. size' \in [Sessions -> Int] /\ over' \in [Interfaces -> SUBSET Writers]
    BY <1>12 DEF TypeOK, SaveLimit, SetStatus
  <2>4. cur' \in [Interfaces -> OptWriter]
    BY <1>12 DEF TypeOK, SaveLimit, SetStatus
  <2>5. measured' \in [Procs -> Int]
    BY <1>12 DEF TypeOK, SaveLimit, SetStatus
  <2>. QED BY <1>12, <2>1, <2>2, <2>3, <2>4, <2>5
    DEF TypeOK, SaveLimit, SetStatus
<1>13. ASSUME NEW s \in Sessions, NEW w \in Writers, PopAtError(i, s, w) PROVE TypeOK'
  <2>1. at' \in [Procs -> Steps]
    BY <1>13 DEF TypeOK, PopAtError, Pop, Steps
  <2>2. active' \in [Sessions -> OptWriter]
    BY <1>13 DEF TypeOK, PopAtError, Pop
  <2>3. writer' \in [Writers -> Writer]
    BY <1>13, ClosedType DEF PopAtError
  <2>. QED BY <1>13, <2>1, <2>2, <2>3
    DEF TypeOK, PopAtError, Pop
<1>14. ASSUME NEW s \in Sessions, NEW w \in Writers, SaveError(i, s, w) PROVE TypeOK'
  <2>1. at' \in [Procs -> Steps]
    BY <1>14 DEF TypeOK, SaveError, SetStatus, Steps, AfterPacket
  <2>2. status' \in [Sessions -> Status]
    BY <1>14 DEF TypeOK, SaveError, SetStatus, Status
  <2>3. cur' \in [Interfaces -> OptWriter]
    BY <1>14 DEF TypeOK, SaveError, SetStatus
  <2>. QED BY <1>14, <2>1, <2>2, <2>3
    DEF TypeOK, SaveError, SetStatus
<1>. QED BY <1>1, <1>2, <1>3, <1>4, <1>5, <1>6, <1>7, <1>8, <1>9, <1>10, <1>11, <1>12, <1>13, <1>14 DEF IngestNext

LEMMA TaskType ==
    ASSUME TypeOK, TaskNext PROVE TypeOK'
<1> USE DEF rowVars, ingestVars, taskVars, webVars
<1>1. ASSUME NEW s \in Sessions, TakeActivate(s) PROVE TypeOK'
  <2>1. at' \in [Procs -> Steps]
    BY <1>1 DEF TypeOK, TakeActivate, Take, Steps
  <2>2. queue' \in Seq(Job)
    BY <1>1 DEF TypeOK, TakeActivate, Take
  <2>3. job' \in Job
    BY <1>1 DEF TypeOK, TakeActivate, Take, Job, NoJob
  <2>. QED BY <1>1, <2>1, <2>2, <2>3
    DEF TypeOK, TakeActivate, Take
<1>2. ASSUME NEW s \in Sessions, NEW op \in {"stop", "cancel", "delete"},
             TakeSessionTask(op, s)
      PROVE  TypeOK'
  <2>1. at' \in [Procs -> Steps]
    BY <1>2 DEF TypeOK, TakeSessionTask, Take, Pop, Steps, FirstStep
  <2>2. queue' \in Seq(Job)
    BY <1>2 DEF TypeOK, TakeSessionTask, Take, Pop
  <2>3. job' \in Job
    BY <1>2 DEF TypeOK, TakeSessionTask, Take, Pop, Job, NoJob
  <2>4. active' \in [Sessions -> OptWriter]
    BY <1>2 DEF TypeOK, TakeSessionTask, Take, Pop
  <2>5. held' \subseteq Writers
    BY <1>2 DEF TypeOK, TakeSessionTask, Take, Pop
  <2>6. rows' \in [Procs -> SUBSET Sessions]
    BY <1>2 DEF TypeOK, TakeSessionTask, Take, Pop
  <2>. QED BY <1>2, <2>1, <2>2, <2>3, <2>4, <2>5, <2>6
    DEF TypeOK, TakeSessionTask, Take, Pop
<1>3. ASSUME NEW s \in Sessions, UnlinkFile(s) PROVE TypeOK'
  <2>1. at' \in [Procs -> Steps]
    BY <1>3 DEF TypeOK, UnlinkFile, Steps
  <2>2. writer' \in [Writers -> Writer]
    <3>1. writer \in [Writers -> Writer]
      BY DEF TypeOK
    <3>. QED BY <1>3, <3>1 DEF UnlinkFile, Writer
  <2>3. disk' \in [Sessions -> Nat \cup {Missing}]
    BY <1>3 DEF TypeOK, UnlinkFile, Writer
  <2>4. job' \in Job
    BY <1>3 DEF TypeOK, UnlinkFile, Job, NoJob
  <2>. QED BY <1>3, <2>1, <2>2, <2>3, <2>4
    DEF TypeOK, UnlinkFile
<1>4. ASSUME NEW s \in Sessions, NothingToDelete(s) PROVE TypeOK'
  <2>1. at' \in [Procs -> Steps]
    BY <1>4 DEF TypeOK, NothingToDelete, TaskIdle, Closed, Steps
  <2>2. job' \in Job
    BY <1>4 DEF TypeOK, NothingToDelete, TaskIdle, Closed, Job, NoJob
  <2>3. writer' \in [Writers -> Writer]
    BY <1>4, ClosedType DEF NothingToDelete
  <2>4. rows' \in [Procs -> SUBSET Sessions]
    BY <1>4 DEF TypeOK, NothingToDelete, TaskIdle, Closed
  <2>. QED BY <1>4, <2>1, <2>2, <2>3, <2>4
    DEF TypeOK, NothingToDelete, TaskIdle, Closed
<1>5. CASE TakeDeleteAll
  <2>1. at' \in [Procs -> Steps]
    BY <1>5 DEF TypeOK, TakeDeleteAll, Take, Steps
  <2>2. queue' \in Seq(Job)
    BY <1>5 DEF TypeOK, TakeDeleteAll, Take
  <2>3. job' \in Job
    BY <1>5 DEF TypeOK, TakeDeleteAll, Take, Job, NoJob
  <2>4. active' \in [Sessions -> OptWriter]
    BY <1>5 DEF TypeOK, TakeDeleteAll, Take
  <2>5. rows' \in [Procs -> SUBSET Sessions]
    BY <1>5 DEF TypeOK, TakeDeleteAll, Take
  <2>6. held' \subseteq Writers
    BY <1>5 DEF TypeOK, TakeDeleteAll, Take
  <2>. QED BY <1>5, <2>1, <2>2, <2>3, <2>4, <2>5, <2>6
    DEF TypeOK, TakeDeleteAll, Take
<1>6. CASE TaskCheck
  <2>1. at' \in [Procs -> Steps]
    BY <1>6 DEF TypeOK, TaskCheck, TaskIdle, TaskAt, Answer, Steps
  <2>2. job' \in Job
    BY <1>6 DEF TypeOK, TaskCheck, TaskIdle, TaskAt, Answer, Job, NoJob
  <2>3. opening' \in [Procs -> OptSession]
    <3>1. opening \in [Procs -> OptSession] /\ job \in Job
      BY DEF TypeOK
    <3>. QED BY <1>6, <3>1 DEF TaskCheck, Job
  <2>4. result' \in [Sessions -> {"none", "true", "false"}]
    BY <1>6 DEF TypeOK, TaskCheck, TaskIdle, TaskAt, Answer
  <2>. QED BY <1>6, <2>1, <2>2, <2>3, <2>4
    DEF TypeOK, TaskCheck, TaskIdle, TaskAt, Answer
<1>7. ASSUME NEW w \in Writers, TaskOpen(w) PROVE TypeOK'
  <2>1. at' \in [Procs -> Steps]
    BY <1>7 DEF TypeOK, TaskOpen, TaskOpened, TaskIdle, RegisterActive, Answer, Steps
  <2>2. job' \in Job
    BY <1>7 DEF TypeOK, TaskOpen, TaskOpened, TaskIdle, RegisterActive, Answer, Job, NoJob
  <2>3. opening' \in [Procs -> OptSession]
    BY <1>7 DEF TypeOK, TaskOpen, TaskOpened, TaskIdle, RegisterActive, Answer
  <2>4. writer' \in [Writers -> Writer]
    BY <1>7 DEF TypeOK, TaskOpen, TaskOpened, TaskIdle, RegisterActive, Answer, Writer
  <2>5. active' \in [Sessions -> OptWriter]
    BY <1>7 DEF TypeOK, TaskOpen, TaskOpened, TaskIdle, RegisterActive, Answer
  <2>6. disk' \in [Sessions -> Nat \cup {Missing}]
    BY <1>7 DEF TypeOK, TaskOpen, TaskOpened, TaskIdle, RegisterActive, Answer, Writer
  <2>7. result' \in [Sessions -> {"none", "true", "false"}]
    BY <1>7 DEF TypeOK, TaskOpen, TaskOpened, TaskIdle, RegisterActive, Answer
  <2>. QED BY <1>7, <2>1, <2>2, <2>3, <2>4, <2>5, <2>6, <2>7
    DEF TypeOK, TaskOpen, TaskOpened, TaskIdle, RegisterActive, Answer
<1>8. CASE TaskOpenFails
  <2>1. at' \in [Procs -> Steps]
    BY <1>8 DEF TypeOK, TaskOpenFails, TaskOpened, TaskIdle, RegisterFails, SetStatus, Answer, Steps
  <2>2. job' \in Job
    BY <1>8 DEF TypeOK, TaskOpenFails, TaskOpened, TaskIdle, RegisterFails, SetStatus, Answer, Job, NoJob
  <2>3. opening' \in [Procs -> OptSession]
    BY <1>8 DEF TypeOK, TaskOpenFails, TaskOpened, TaskIdle, RegisterFails, SetStatus, Answer
  <2>4. status' \in [Sessions -> Status]
    BY <1>8 DEF TypeOK, TaskOpenFails, TaskOpened, TaskIdle, RegisterFails, SetStatus, Answer, Status
  <2>5. result' \in [Sessions -> {"none", "true", "false"}]
    BY <1>8 DEF TypeOK, TaskOpenFails, TaskOpened, TaskIdle, RegisterFails, SetStatus, Answer
  <2>. QED BY <1>8, <2>1, <2>2, <2>3, <2>4, <2>5
    DEF TypeOK, TaskOpenFails, TaskOpened, TaskIdle, RegisterFails, SetStatus, Answer
<1>9. ASSUME NEW s \in Sessions, StopRead(s) PROVE TypeOK'
  <2>1. at' \in [Procs -> Steps]
    BY <1>9 DEF TypeOK, StopRead, TaskIdle, TaskAt, Closed, Steps
  <2>2. job' \in Job
    BY <1>9 DEF TypeOK, StopRead, TaskIdle, TaskAt, Closed, Job, NoJob
  <2>3. writer' \in [Writers -> Writer]
    BY <1>9, ClosedType DEF StopRead
  <2>4. got' \in Status
    <3>1. status \in [Sessions -> Status] /\ got \in Status /\ job \in Job
      BY DEF TypeOK
    <3>. QED BY <1>9, <3>1 DEF StopRead, Job, Status, Stoppable, Present
  <2>5. measured' \in [Procs -> Int]
    <3>1. measured \in [Procs -> Int] /\ disk[s] \in Int /\ size[s] \in Int
      BY DEF TypeOK
    <3>. QED BY <1>9, <3>1 DEF StopRead
  <2>. QED BY <1>9, <2>1, <2>2, <2>3, <2>4, <2>5
    DEF TypeOK, StopRead, TaskIdle, TaskAt, Closed
<1>10. ASSUME NEW s \in Sessions, StopSave(s) PROVE TypeOK'
  <2>1. at' \in [Procs -> Steps]
    BY <1>10 DEF TypeOK, StopSave, TaskIdle, SetStatus, Steps
  <2>2. job' \in Job
    BY <1>10 DEF TypeOK, StopSave, TaskIdle, SetStatus, Job, NoJob
  <2>3. status' \in [Sessions -> Status]
    BY <1>10 DEF TypeOK, StopSave, TaskIdle, SetStatus, Status
  <2>4. size' \in [Sessions -> Int]
    BY <1>10 DEF TypeOK, StopSave, TaskIdle, SetStatus
  <2>5. got' \in Status
    BY <1>10 DEF TypeOK, StopSave, TaskIdle, SetStatus, Status
  <2>6. measured' \in [Procs -> Int]
    BY <1>10 DEF TypeOK, StopSave, TaskIdle, SetStatus
  <2>. QED BY <1>10, <2>1, <2>2, <2>3, <2>4, <2>5, <2>6
    DEF TypeOK, StopSave, TaskIdle, SetStatus
<1>11. ASSUME NEW s \in Sessions, CancelSave(s) PROVE TypeOK'
  <2>1. at' \in [Procs -> Steps]
    BY <1>11 DEF TypeOK, CancelSave, TaskIdle, SetStatus, Closed, Steps
  <2>2. job' \in Job
    BY <1>11 DEF TypeOK, CancelSave, TaskIdle, SetStatus, Closed, Job, NoJob
  <2>3. status' \in [Sessions -> Status]
    BY <1>11 DEF TypeOK, CancelSave, TaskIdle, SetStatus, Closed, Status
  <2>4. writer' \in [Writers -> Writer]
    BY <1>11, ClosedType DEF CancelSave
  <2>. QED BY <1>11, <2>1, <2>2, <2>3, <2>4
    DEF TypeOK, CancelSave, TaskIdle, SetStatus, Closed
<1>12. CASE DeleteRow
  <2>1. at' \in [Procs -> Steps]
    BY <1>12 DEF TypeOK, DeleteRow, TaskIdle, TaskAt, Steps
  <2>2. job' \in Job
    BY <1>12 DEF TypeOK, DeleteRow, TaskIdle, TaskAt, Job, NoJob
  <2>3. status' \in [Sessions -> Status]
    BY <1>12 DEF TypeOK, DeleteRow, TaskIdle, TaskAt, Status
  <2>4. rows' \in [Procs -> SUBSET Sessions]
    BY <1>12 DEF TypeOK, DeleteRow, TaskIdle, TaskAt
  <2>5. held' \subseteq Writers
    BY <1>12 DEF TypeOK, DeleteRow, TaskIdle, TaskAt
  <2>. QED BY <1>12, <2>1, <2>2, <2>3, <2>4, <2>5
    DEF TypeOK, DeleteRow, TaskIdle, TaskAt
<1>. QED BY <1>1, <1>2, <1>3, <1>4, <1>5, <1>6, <1>7, <1>8, <1>9, <1>10, <1>11, <1>12 DEF TaskNext

LEMMA CrashType ==
    ASSUME TypeOK, Crash PROVE TypeOK'
<1>1. used' \in [packets : Nat, requests : Nat, crashes : Nat]
  <2>1. used \in [packets : Nat, requests : Nat, crashes : Nat]
    BY DEF TypeOK
  <2>. QED BY <2>1 DEF Crash
<1>2. writer' \in [Writers -> Writer]
  BY ClosedType DEF Crash
<1>3. at' \in [Procs -> Steps] /\ job' \in Job /\ got' \in Status
  BY DEF Crash, Steps, Job, NoJob, Status
<1>. QED BY <1>1, <1>2, <1>3
         DEF Crash, TypeOK, rowVars, webVars

LEMMA InitType == Init => TypeOK
BY DEF Init, TypeOK, Status, Steps, Writer, Unborn, NoJob, Job, WebSteps

\* Every variable keeps its type, for every value of the constants.
THEOREM TypeCorrect == Spec => []TypeOK
<1>1. TypeOK /\ [Next]_vars => TypeOK'
  <2>. SUFFICES ASSUME TypeOK, [Next]_vars PROVE TypeOK'
    OBVIOUS
  <2>1. CASE UNCHANGED vars
    BY <2>1 DEF TypeOK, vars, rowVars, ingestVars, taskVars, webVars
  <2>. QED BY <2>1, WebType, IngestType, TaskType, CrashType DEF Next
<1>. QED BY <1>1, InitType, PTL DEF Spec

(***************************************************************************)
(* No thread closes a writer the map still offers.  ActiveWriterOpen alone *)
(* is not inductive: the task thread closes the writers it has popped in a *)
(* later step, so these must have left the map for good.                   *)
(***************************************************************************)

\* The popped writers were opened for a session and are in no entry of the map
HeldOut ==
    \A w \in held : /\ writer[w].session \in Sessions
                    /\ \A s \in Sessions : active[s] # w

Safe == ActiveWriterOpen /\ HeldOut

LEMMA SameSafe ==
    ASSUME Safe, UNCHANGED <<active, writer, held>> PROVE Safe'
BY DEF Safe, ActiveWriterOpen, HeldOut

LEMMA ClosedFacts ==
    ASSUME TypeOK, NEW W, NEW w \in Writers
    PROVE  /\ Closed(W)[w].session = writer[w].session
           /\ w \notin W => Closed(W)[w] = writer[w]
<1>1. writer[w] \in Writer
  BY DEF TypeOK
<1>. QED BY <1>1 DEF Closed, Writer

\* Closing W is safe when every writer of W has left the map
LEMMA ClosingSafe ==
    ASSUME TypeOK, Safe, NEW W, writer' = Closed(W), held' \subseteq held,
           \A s \in Sessions : /\ active'[s] \in {active[s], NoWriter}
                               /\ active'[s] # NoWriter => active'[s] \notin W
    PROVE  Safe'
<1>1. ASSUME NEW s \in Sessions, active'[s] # NoWriter
      PROVE  writer'[active'[s]].session = s /\ writer'[active'[s]].open
  <2>1. active[s] \in Writers /\ active'[s] = active[s] /\ active[s] \notin W
    BY <1>1, NullAssumption DEF TypeOK
  <2>2. writer'[active[s]] = writer[active[s]]
    BY <2>1, ClosedFacts
  <2>. QED BY <1>1, <2>1, <2>2 DEF Safe, ActiveWriterOpen
<1>2. ASSUME NEW w \in held'
      PROVE  /\ writer'[w].session \in Sessions
             /\ \A s \in Sessions : active'[s] # w
  <2>1. w \in held /\ w \in Writers
    BY <1>2 DEF TypeOK
  <2>2. writer'[w].session \in Sessions
    BY <2>1, ClosedFacts DEF Safe, HeldOut
  <2>3. \A s \in Sessions : active'[s] # w
    BY <2>1, NullAssumption DEF Safe, HeldOut
  <2>. QED BY <2>2, <2>3
<1>. QED BY <1>1, <1>2 DEF Safe, ActiveWriterOpen, HeldOut

LEMMA OpeningSafe ==
    ASSUME TypeOK, Safe, NEW s \in OptSession, NEW w \in Writers,
           RegisterActive(s, w), held' \subseteq held
    PROVE  Safe'
<1>1. writer[w] = Unborn /\ writer[w].session = NoSession
  BY DEF RegisterActive, Fresh, Unborn
<1>2. writer \in [Writers -> Writer] /\ active \in [Sessions -> OptWriter]
  BY DEF TypeOK
<1>3. \A t \in Sessions : active[t] # w
  BY <1>1, NullAssumption DEF Safe, ActiveWriterOpen
<1>4. w \notin held
  BY <1>1, NullAssumption DEF Safe, HeldOut
<1>5. /\ writer'[w].session = s /\ writer'[w].open
      /\ \A v \in Writers \ {w} : writer'[v] = writer[v]
  BY <1>2 DEF RegisterActive
<1>6. \A t \in Sessions : active'[t] = IF t = s THEN w ELSE active[t]
  BY <1>2 DEF RegisterActive
<1>7. ActiveWriterOpen'
  BY <1>2, <1>3, <1>5, <1>6, NullAssumption DEF Safe, ActiveWriterOpen
<1>8. HeldOut'
  <2>1. held \subseteq Writers
    BY DEF TypeOK
  <2>2. \A v \in held' : v \in held /\ v \in Writers \ {w}
    BY <1>4, <2>1
  <2>. QED BY <2>2, <1>5, <1>6 DEF Safe, HeldOut
<1>. QED BY <1>7, <1>8 DEF Safe

\* A session's writer is in no other entry of the map
LEMMA PoppedIsOut ==
    ASSUME TypeOK, Safe, NEW s \in Sessions, Pop(s)
    PROVE  \A t \in Sessions : /\ active'[t] \in {active[t], NoWriter}
                               /\ active'[t] # NoWriter => active'[t] # active[s]
<1>1. active \in [Sessions -> OptWriter]
  BY DEF TypeOK
<1>2. \A t \in Sessions : active'[t] = IF t = s THEN NoWriter ELSE active[t]
  BY <1>1 DEF Pop
<1>. QED BY <1>2 DEF Safe, ActiveWriterOpen

\* _handle_size_limit closes the writer in the map, or w when the map has none
LEMMA LimitSafe ==
    ASSUME TypeOK, Safe, NEW s \in Sessions, NEW w \in Writers,
           writer[w].session = s, Pop(s), writer' = Closed({Current(s, w)}),
           UNCHANGED held
    PROVE  Safe'
<1>1. ASSUME NEW t \in Sessions
      PROVE  /\ active'[t] \in {active[t], NoWriter}
             /\ active'[t] # NoWriter => active'[t] # Current(s, w)
  <2>1. CASE active[s] # NoWriter
    BY <2>1, PoppedIsOut DEF Current
  <2>2. CASE active[s] = NoWriter
    <3>1. active[t] # NoWriter => active[t] # w
      BY <2>2 DEF Safe, ActiveWriterOpen
    <3>. QED BY <2>2, <3>1, PoppedIsOut DEF Current
  <2>. QED BY <2>1, <2>2
<1>. QED BY <1>1, ClosingSafe

LEMMA IngestSafe ==
    ASSUME TypeOK, Safe, NEW i \in Interfaces, IngestNext(i) PROVE Safe'
<1> USE DEF taskVars
<1>1. CASE SelectTargets(i) \/ QuerySessions(i) \/ Reselect(i)
  BY <1>1, SameSafe DEF SelectTargets, QuerySessions, Reselect
<1>2. ASSUME NEW s \in Sessions, IngestCheck(i, s) PROVE Safe'
  BY <1>2, SameSafe DEF IngestCheck
<1>3. CASE IngestOpenFails(i)
  BY <1>3, SameSafe DEF IngestOpenFails, IngestOpened, RegisterFails
<1>4. ASSUME NEW w \in Writers, IngestOpen(i, w) PROVE Safe'
  <2>1. opening[i] \in OptSession
    BY DEF TypeOK
  <2>. QED BY <1>4, <2>1, OpeningSafe DEF IngestOpen, IngestOpened
<1>5. ASSUME NEW w \in Writers, WritePacket(i, w) PROVE Safe'
  <2>1. UNCHANGED <<active, held>>
    BY <1>5 DEF WritePacket
  <2>2. ASSUME NEW v \in Writers
        PROVE  writer'[v].session = writer[v].session /\ writer'[v].open = writer[v].open
    <3>1. writer \in [Writers -> Writer]
      BY DEF TypeOK
    <3>. QED BY <1>5, <3>1 DEF WritePacket, Writer
  <2>3. held \subseteq Writers /\ \A s \in Sessions : active[s] \in OptWriter
    BY DEF TypeOK
  <2>. QED BY <2>1, <2>2, <2>3 DEF Safe, ActiveWriterOpen, HeldOut
<1>6. ASSUME NEW w \in Writers, CountRaises(i, w) PROVE Safe'
  BY <1>6, SameSafe DEF CountRaises, Abandon
<1>7. ASSUME NEW s \in Sessions, NEW w \in Writers,
             CountPacket(i, s, w) \/ SaveLimit(i, s, w) \/ SaveError(i, s, w)
      PROVE  Safe'
  BY <1>7, SameSafe DEF CountPacket, SaveLimit, SaveError
<1>8. ASSUME NEW s \in Sessions, NEW w \in Writers,
             PopAtLimit(i, s, w) \/ LimitRaises(i, s, w)
      PROVE  Safe'
  BY <1>8, LimitSafe DEF PopAtLimit, LimitRaises, AtLimit, Abandon
<1>9. ASSUME NEW s \in Sessions, NEW w \in Writers, PopAtError(i, s, w)
      PROVE  Safe'
  <2>1. Pop(s) /\ writer' = Closed({active[s]}) /\ UNCHANGED held
    BY <1>9 DEF PopAtError
  <2>. QED BY <2>1, PoppedIsOut, ClosingSafe
<1>. QED BY <1>1, <1>2, <1>3, <1>4, <1>5, <1>6, <1>7, <1>8, <1>9 DEF IngestNext

LEMMA TaskSafe ==
    ASSUME TypeOK, Safe, TaskNext PROVE Safe'
<1> USE DEF ingestVars
<1>1. ASSUME NEW s \in Sessions, TakeActivate(s) PROVE Safe'
  BY <1>1, SameSafe DEF TakeActivate, Take
<1>2. ASSUME NEW s \in Sessions, NEW op \in {"stop", "cancel", "delete"},
             TakeSessionTask(op, s)
      PROVE  Safe'
  <2>1. Pop(s) /\ writer' = writer /\ held' = {active[s]} \ {NoWriter}
    BY <1>2 DEF TakeSessionTask, Take
  <2>2. \A t \in Sessions : /\ active'[t] \in {active[t], NoWriter}
                            /\ active'[t] # NoWriter => active'[t] # active[s]
    BY <2>1, PoppedIsOut
  <2>3. ActiveWriterOpen'
    BY <2>1, <2>2 DEF Safe, ActiveWriterOpen
  <2>4. HeldOut'
    BY <2>1, <2>2 DEF Safe, ActiveWriterOpen, HeldOut
  <2>. QED BY <2>3, <2>4 DEF Safe
<1>3. ASSUME NEW s \in Sessions, UnlinkFile(s) PROVE Safe'
  <2>1. UNCHANGED <<active, held>>
    BY <1>3 DEF UnlinkFile
  <2>2. ASSUME NEW v \in Writers
        PROVE  /\ writer'[v].session = writer[v].session
               /\ v \notin held => writer'[v].open = writer[v].open
    <3>1. writer \in [Writers -> Writer]
      BY DEF TypeOK
    <3>. QED BY <1>3, <3>1 DEF UnlinkFile, Writer
  <2>3. held \subseteq Writers /\ \A t \in Sessions : active[t] \in OptWriter
    BY DEF TypeOK
  <2>. QED BY <2>1, <2>2, <2>3 DEF Safe, ActiveWriterOpen, HeldOut
<1>4. ASSUME writer' = Closed(held), held' = {}, UNCHANGED active PROVE Safe'
  <2>1. \A t \in Sessions : active'[t] # NoWriter => active'[t] \notin held
    BY <1>4 DEF Safe, HeldOut
  <2>. QED BY <1>4, <2>1, ClosingSafe
<1>5. ASSUME NEW s \in Sessions,
             NothingToDelete(s) \/ StopRead(s) \/ CancelSave(s)
      PROVE  Safe'
  BY <1>4, <1>5 DEF NothingToDelete, StopRead, CancelSave
<1>6. CASE TakeDeleteAll
  <2>1. /\ writer' = writer
        /\ \A s \in Sessions : active'[s] = NoWriter
        /\ held' \subseteq {active[s] : s \in Sessions} \ {NoWriter}
    BY <1>6 DEF TakeDeleteAll, Take
  <2>2. HeldOut'
    BY <2>1 DEF Safe, ActiveWriterOpen, HeldOut
  <2>. QED BY <2>1, <2>2 DEF Safe, ActiveWriterOpen
<1>7. CASE TaskCheck \/ TaskOpenFails
  BY <1>7, SameSafe DEF TaskCheck, TaskOpenFails, TaskOpened, RegisterFails
<1>8. ASSUME NEW w \in Writers, TaskOpen(w) PROVE Safe'
  <2>1. opening[Task] \in OptSession
    BY DEF TypeOK
  <2>. QED BY <1>8, <2>1, OpeningSafe DEF TaskOpen, TaskOpened
<1>9. ASSUME NEW s \in Sessions, StopSave(s) PROVE Safe'
  BY <1>9, SameSafe DEF StopSave
<1>10. CASE DeleteRow
  <2>1. UNCHANGED <<active, writer>> /\ held' \subseteq held
    BY <1>10 DEF DeleteRow
  <2>. QED BY <2>1 DEF Safe, ActiveWriterOpen, HeldOut
<1>. QED BY <1>1, <1>2, <1>3, <1>5, <1>6, <1>7, <1>8, <1>9, <1>10 DEF TaskNext

LEMMA CrashSafe == ASSUME Crash PROVE Safe'
BY DEF Crash, Safe, ActiveWriterOpen, HeldOut

LEMMA WebSafe == ASSUME Safe, WebNext PROVE Safe'
BY SameSafe DEF WebNext, StartCapture, StartReply, StartTimeout, StartRefresh,
                StartMarkError, Request, taskVars

LEMMA SafeHolds == Spec => []Safe
<1>1. Init => Safe
  BY DEF Init, Safe, ActiveWriterOpen, HeldOut
<1>2. TypeOK /\ Safe /\ [Next]_vars => Safe'
  <2>. SUFFICES ASSUME TypeOK, Safe, [Next]_vars PROVE Safe'
    OBVIOUS
  <2>1. CASE UNCHANGED vars
    BY <2>1, SameSafe DEF vars, taskVars
  <2>. QED BY <2>1, WebSafe, IngestSafe, TaskSafe, CrashSafe DEF Next
<1>. QED BY <1>1, <1>2, TypeCorrect, PTL DEF Spec

\* Whatever the threads of the worker do to a session, the writer the map
\* files it under is its own and is open.
THEOREM ActiveWriterAlwaysOpen == Spec => []ActiveWriterOpen
<1>1. Safe => ActiveWriterOpen
  BY DEF Safe
<1>. QED BY <1>1, SafeHolds, PTL

(***************************************************************************)
(* An ended session stays ended.  The one step that writes back a status   *)
(* it has read is StopSave; what it holds is never "Absent" or "Deleted".  *)
(***************************************************************************)

GotPresent == at[Task] = "stopSave" => got \in {"RUNNING"} \cup Ended

StaysEnded == \A s \in Sessions :
                 /\ status[s] \in Ended => status'[s] \in Ended \cup {"Deleted"}
                 /\ status[s] = "Deleted" => status'[s] = "Deleted"
                 /\ status[s] # "Absent" => status'[s] # "Absent"

\* Every step but StopSave moves a row to an end state or leaves it
LEMMA SetStatusStays ==
    ASSUME TypeOK, NEW s, NEW new \in Ended, SetStatus(s, new) PROVE StaysEnded
<1>1. status \in [Sessions -> Status]
  BY DEF TypeOK
<1>. QED BY <1>1 DEF SetStatus, StaysEnded, Present

LEMMA SameStays == ASSUME UNCHANGED status PROVE StaysEnded
BY DEF StaysEnded

LEMMA WebStays ==
    ASSUME TypeOK, WebNext PROVE StaysEnded /\ UNCHANGED <<at, got>>
<1> USE DEF rowVars, taskVars
<1>. PICK s \in Sessions : \/ \E sc \in Scope : StartCapture(s, sc)
                           \/ StartReply(s) \/ StartTimeout(s)
                           \/ StartRefresh(s) \/ StartMarkError(s)
                           \/ \E op \in Ops : Request(op, s)
  BY DEF WebNext
<1>1. CASE \E sc \in Scope : StartCapture(s, sc)
  <2>1. status \in [Sessions -> Status]
    BY DEF TypeOK
  <2>. QED BY <1>1, <2>1 DEF StartCapture, StaysEnded
<1>2. CASE StartMarkError(s)
  BY <1>2, SetStatusStays DEF StartMarkError
<1>3. CASE \/ StartReply(s) \/ StartTimeout(s) \/ StartRefresh(s)
           \/ \E op \in Ops : Request(op, s)
  BY <1>3, SameStays DEF StartReply, StartTimeout, StartRefresh, Request
<1>. QED BY <1>1, <1>2, <1>3

LEMMA IngestStays ==
    ASSUME TypeOK, NEW i \in Interfaces, IngestNext(i)
    PROVE  StaysEnded /\ UNCHANGED <<at[Task], got>>
<1> USE DEF rowVars, taskVars
<1>1. Task \in Procs /\ Task # i /\ at \in [Procs -> Steps]
  BY ProcAssumption DEF TypeOK
<1>2. CASE SelectTargets(i) \/ QuerySessions(i) \/ Reselect(i)
  BY <1>1, <1>2, SameStays DEF SelectTargets, QuerySessions, Reselect
<1>3. ASSUME NEW s \in Sessions, IngestCheck(i, s)
      PROVE  StaysEnded /\ UNCHANGED <<at[Task], got>>
  BY <1>1, <1>3, SameStays DEF IngestCheck
<1>4. CASE IngestOpenFails(i)
  BY <1>1, <1>4, SetStatusStays DEF IngestOpenFails, IngestOpened, RegisterFails
<1>5. ASSUME NEW w \in Writers,
             IngestOpen(i, w) \/ WritePacket(i, w) \/ CountRaises(i, w)
      PROVE  StaysEnded /\ UNCHANGED <<at[Task], got>>
  BY <1>1, <1>5, SameStays
  DEF IngestOpen, IngestOpened, RegisterActive, WritePacket, CountRaises, Abandon
<1>6. ASSUME NEW s \in Sessions, NEW w \in Writers,
             \/ CountPacket(i, s, w) \/ PopAtLimit(i, s, w)
             \/ LimitRaises(i, s, w) \/ PopAtError(i, s, w)
      PROVE  StaysEnded /\ UNCHANGED <<at[Task], got>>
  BY <1>1, <1>6, SameStays
  DEF CountPacket, PopAtLimit, LimitRaises, PopAtError, Abandon
<1>7. ASSUME NEW s \in Sessions, NEW w \in Writers,
             SaveLimit(i, s, w) \/ SaveError(i, s, w)
      PROVE  StaysEnded /\ UNCHANGED <<at[Task], got>>
  BY <1>1, <1>7, SetStatusStays DEF SaveLimit, SaveError
<1>. QED BY <1>2, <1>3, <1>4, <1>5, <1>6, <1>7 DEF IngestNext

LEMMA TaskStays ==
    ASSUME TypeOK, GotPresent, TaskNext PROVE StaysEnded /\ GotPresent'
<1> USE DEF rowVars, GotPresent
<1>1. Task \in Procs /\ at \in [Procs -> Steps]
  BY DEF TypeOK
<1>2. ASSUME NEW s \in Sessions,
             \/ TakeActivate(s)
             \/ \E op \in {"stop", "cancel", "delete"} : TakeSessionTask(op, s)
      PROVE  StaysEnded /\ GotPresent'
  BY <1>1, <1>2, SameStays DEF TakeActivate, TakeSessionTask, Take, FirstStep
<1>3. CASE TakeDeleteAll
  BY <1>1, <1>3, SameStays DEF TakeDeleteAll, Take
<1>4. ASSUME NEW s \in Sessions, StopRead(s) PROVE StaysEnded /\ GotPresent'
  BY <1>1, <1>4, SameStays DEF StopRead, Stoppable, Present, TaskIdle, TaskAt
<1>5. ASSUME NEW s \in Sessions, StopSave(s) PROVE StaysEnded /\ GotPresent'
  <2>1. (IF got = "RUNNING" THEN "COMPLETED" ELSE got) \in Ended
    BY <1>5 DEF StopSave
  <2>2. SetStatus(s, IF got = "RUNNING" THEN "COMPLETED" ELSE got)
    BY <1>5 DEF StopSave
  <2>3. StaysEnded
    BY <2>1, <2>2, SetStatusStays
  <2>. QED BY <1>1, <1>5, <2>3 DEF StopSave, TaskIdle
<1>6. ASSUME NEW s \in Sessions, CancelSave(s) PROVE StaysEnded /\ GotPresent'
  BY <1>1, <1>6, SetStatusStays DEF CancelSave, TaskIdle
<1>7. ASSUME NEW s \in Sessions, UnlinkFile(s) \/ NothingToDelete(s)
      PROVE  StaysEnded /\ GotPresent'
  BY <1>1, <1>7, SameStays DEF UnlinkFile, NothingToDelete, TaskIdle
<1>8. CASE TaskCheck
  BY <1>1, <1>8, SameStays DEF TaskCheck, TaskIdle, TaskAt
<1>9. ASSUME NEW w \in Writers, TaskOpen(w) PROVE StaysEnded /\ GotPresent'
  BY <1>1, <1>9, SameStays DEF TaskOpen, TaskOpened, RegisterActive, TaskIdle
<1>10. CASE TaskOpenFails
  BY <1>1, <1>10, SetStatusStays DEF TaskOpenFails, TaskOpened, RegisterFails, TaskIdle
<1>11. CASE DeleteRow
  <2>1. status \in [Sessions -> Status]
    BY DEF TypeOK
  <2>2. StaysEnded
    BY <1>11, <2>1 DEF DeleteRow, StaysEnded
  <2>. QED BY <1>1, <1>11, <2>2 DEF DeleteRow, TaskIdle, TaskAt
<1>. QED BY <1>2, <1>3, <1>4, <1>5, <1>6, <1>7, <1>8, <1>9, <1>10, <1>11
         DEF TaskNext

LEMMA CrashStays == ASSUME Crash PROVE StaysEnded /\ GotPresent'
BY SameStays DEF Crash, GotPresent, rowVars

LEMMA StepStays ==
    TypeOK /\ GotPresent /\ [Next]_vars => StaysEnded /\ GotPresent'
<1>. SUFFICES ASSUME TypeOK, GotPresent, [Next]_vars
              PROVE  StaysEnded /\ GotPresent'
  OBVIOUS
<1>1. CASE UNCHANGED vars
  BY <1>1, SameStays DEF vars, rowVars, taskVars, GotPresent
<1>2. CASE WebNext
  BY <1>2, WebStays DEF GotPresent
<1>3. ASSUME NEW i \in Interfaces, IngestNext(i) PROVE StaysEnded /\ GotPresent'
  BY <1>3, IngestStays DEF GotPresent
<1>. QED BY <1>1, <1>2, <1>3, TaskStays, CrashStays DEF Next

LEMMA GotPresentHolds == Spec => []GotPresent
<1>1. Init => GotPresent
  BY DEF Init, GotPresent
<1>. QED BY <1>1, StepStays, TypeCorrect, PTL DEF Spec

\* No thread brings a session back that has ended or was deleted, whatever
\* copy of its row it still holds.
THEOREM EndedForGood == Spec => EndedStaysEnded
<1>1. StaysEnded => \A s \in Sessions :
          /\ status[s] \in Ended => status'[s] \in Ended \cup {"Deleted"}
          /\ status[s] = "Deleted" => status'[s] = "Deleted"
  BY DEF StaysEnded
<1>. QED BY <1>1, StepStays, GotPresentHolds, TypeCorrect, PTL
         DEF Spec, EndedStaysEnded

(***************************************************************************)
(* What a step can do to the writers, the map and the files.  A writer     *)
(* that was opened keeps its session, its place in the file only grows,    *)
(* and once it has left the map it never comes back.                       *)
(***************************************************************************)

InMap(w) == \E s \in Sessions : active[s] = w

Opens == \E p \in Procs, w \in Writers : RegisterActive(opening[p], w)

Closes == /\ \E W : writer' = Closed(W)
          /\ \A s \in Sessions : active'[s] \in {active[s], NoWriter}
          /\ UNCHANGED disk

Appends == \E i \in Interfaces, w \in Writers :
             WritePacket(i, w) /\ writer[w].open /\ writer' # writer

Unlinks == \E s \in Sessions : UnlinkFile(s)

Effect == \/ UNCHANGED <<writer, active, disk>>
          \/ Opens \/ Closes \/ Appends \/ Unlinks

LEMMA IngestEffect ==
    ASSUME TypeOK, NEW i \in Interfaces, IngestNext(i) PROVE Effect
<1>1. active \in [Sessions -> OptWriter]
  BY DEF TypeOK
<1>2. CASE SelectTargets(i) \/ QuerySessions(i) \/ Reselect(i) \/ IngestOpenFails(i)
  BY <1>2 DEF SelectTargets, QuerySessions, Reselect, IngestOpenFails, RegisterFails,
              Effect
<1>3. ASSUME NEW s \in Sessions, IngestCheck(i, s) PROVE Effect
  BY <1>3 DEF IngestCheck, Effect
<1>4. ASSUME NEW w \in Writers, IngestOpen(i, w) PROVE Effect
  BY <1>4 DEF IngestOpen, Effect, Opens
<1>5. ASSUME NEW w \in Writers, WritePacket(i, w) PROVE Effect
  <2>1. CASE writer[w].open /\ writer' # writer
    BY <1>5, <2>1 DEF Effect, Appends
  <2>2. CASE ~(writer[w].open /\ writer' # writer)
    <3>1. CASE UNCHANGED <<writer, disk>>
      BY <1>5, <3>1 DEF WritePacket, Effect
    <3>2. CASE ~UNCHANGED <<writer, disk>>
      <4>1. writer' = [writer EXCEPT ![w].pos = @ + 1] /\ writer[w].open
        BY <1>5, <3>2 DEF WritePacket
      <4>2. writer' # writer
        <5>1. writer \in [Writers -> Writer] /\ writer[w] \in Writer
          BY DEF TypeOK
        <5>2. writer'[w].pos = writer[w].pos + 1 /\ writer[w].pos \in Nat
          BY <4>1, <5>1 DEF Writer
        <5>. QED BY <5>2
      <4>. QED BY <2>2, <4>1, <4>2
    <3>. QED BY <3>1, <3>2
  <2>. QED BY <2>1, <2>2
<1>6. ASSUME NEW w \in Writers, CountRaises(i, w) PROVE Effect
  BY <1>6 DEF CountRaises, Abandon, Effect, rowVars
<1>7. ASSUME NEW s \in Sessions, NEW w \in Writers,
             CountPacket(i, s, w) \/ SaveLimit(i, s, w) \/ SaveError(i, s, w)
      PROVE  Effect
  BY <1>7 DEF CountPacket, SaveLimit, SaveError, Effect
<1>8. ASSUME NEW s \in Sessions, NEW w \in Writers,
             PopAtLimit(i, s, w) \/ LimitRaises(i, s, w) \/ PopAtError(i, s, w)
      PROVE  Effect
  <2>1. (\E W : writer' = Closed(W)) /\ Pop(s) /\ disk' = disk
    BY <1>8 DEF PopAtLimit, LimitRaises, PopAtError, Abandon
  <2>2. \A t \in Sessions : active'[t] \in {active[t], NoWriter}
    BY <1>1, <2>1 DEF Pop
  <2>. QED BY <2>1, <2>2 DEF Effect, Closes
<1>. QED BY <1>2, <1>3, <1>4, <1>5, <1>6, <1>7, <1>8 DEF IngestNext

LEMMA TaskEffect ==
    ASSUME TypeOK, TaskNext PROVE Effect
<1>1. active \in [Sessions -> OptWriter] /\ writer \in [Writers -> Writer]
  BY DEF TypeOK
<1>2. writer = Closed({})
  BY <1>1 DEF Closed
<1>3. ASSUME NEW s \in Sessions, TakeActivate(s) PROVE Effect
  BY <1>3 DEF TakeActivate, Take, Effect
<1>4. ASSUME NEW s \in Sessions, NEW op \in {"stop", "cancel", "delete"},
             TakeSessionTask(op, s)
      PROVE  Effect
  <2>1. writer' = Closed({}) /\ Pop(s) /\ disk' = disk
    BY <1>2, <1>4 DEF TakeSessionTask, Take
  <2>2. \A t \in Sessions : active'[t] \in {active[t], NoWriter}
    BY <1>1, <2>1 DEF Pop
  <2>. QED BY <2>1, <2>2 DEF Effect, Closes
<1>5. CASE TakeDeleteAll
  <2>1. writer' = Closed({}) /\ disk' = disk /\ \A t \in Sessions : active'[t] = NoWriter
    BY <1>2, <1>5 DEF TakeDeleteAll, Take
  <2>. QED BY <2>1 DEF Effect, Closes
<1>6. ASSUME NEW s \in Sessions, StopRead(s) \/ CancelSave(s) \/ NothingToDelete(s)
      PROVE  Effect
  BY <1>6 DEF StopRead, CancelSave, NothingToDelete, Effect, Closes
<1>7. ASSUME NEW s \in Sessions, UnlinkFile(s) PROVE Effect
  BY <1>7 DEF Effect, Unlinks
<1>8. ASSUME NEW w \in Writers, TaskOpen(w) PROVE Effect
  BY <1>8 DEF TaskOpen, Effect, Opens
<1>9. CASE TaskCheck \/ TaskOpenFails \/ DeleteRow
  BY <1>9 DEF TaskCheck, TaskOpenFails, RegisterFails, DeleteRow, Effect
<1>10. ASSUME NEW s \in Sessions, StopSave(s) PROVE Effect
  BY <1>10 DEF StopSave, Effect
<1>. QED BY <1>3, <1>4, <1>5, <1>6, <1>7, <1>8, <1>9, <1>10 DEF TaskNext

LEMMA StepEffect ==
    ASSUME TypeOK, [Next]_vars PROVE Effect
<1>1. CASE UNCHANGED vars
  BY <1>1 DEF vars, Effect
<1>2. CASE WebNext
  BY <1>2 DEF WebNext, StartCapture, StartReply, StartTimeout, StartRefresh,
              StartMarkError, Request, Effect
<1>3. CASE Crash
  BY <1>3 DEF Crash, Effect, Closes
<1>. QED BY <1>1, <1>2, <1>3, IngestEffect, TaskEffect DEF Next

Ours(w) == writer[w].session \in Sessions

\* A writer some session has stays what it is
Kept == \A w \in Writers :
           /\ Ours(w) => /\ writer'[w].session = writer[w].session
                         /\ writer[w].pos <= writer'[w].pos
                         /\ ~writer[w].linked => ~writer'[w].linked
                         /\ InMap(w)' => InMap(w)
           /\ ~Ours(w) /\ Ours(w)' => writer'[w].pos = 0

LEMMA StepKept ==
    ASSUME TypeOK, Safe, [Next]_vars PROVE Kept
<1>1. writer \in [Writers -> Writer] /\ active \in [Sessions -> OptWriter]
  BY DEF TypeOK
<1>2. CASE UNCHANGED <<writer, active, disk>>
  BY <1>1, <1>2 DEF Kept, InMap, Ours, Writer
<1>3. CASE Opens
  <2>1. PICK p \in Procs, v \in Writers : RegisterActive(opening[p], v)
    BY <1>3 DEF Opens
  <2>2. /\ writer[v].session = NoSession /\ writer'[v].pos = 0
        /\ \A w \in Writers \ {v} : writer'[w] = writer[w]
        /\ \A s \in Sessions : active'[s] \in {active[s], v}
    BY <1>1, <2>1 DEF RegisterActive, Fresh, Unborn
  <2>3. ~Ours(v)
    BY <2>2, NullAssumption DEF Ours
  <2>. QED BY <1>1, <2>2, <2>3 DEF Kept, InMap, Ours, Writer
<1>4. CASE Closes
  <2>1. PICK W : writer' = Closed(W)
    BY <1>4 DEF Closes
  <2>2. \A w \in Writers : /\ writer'[w].session = writer[w].session
                           /\ writer'[w].pos = writer[w].pos
                           /\ writer'[w].linked = writer[w].linked
    BY <1>1, <2>1 DEF Closed, Writer
  <2>3. \A w \in Writers : InMap(w)' => InMap(w)
    BY <1>4, NullAssumption DEF Closes, InMap
  <2>. QED BY <1>1, <2>2, <2>3 DEF Kept, Ours, Writer
<1>5. CASE Appends
  <2>1. PICK i \in Interfaces, v \in Writers :
           WritePacket(i, v) /\ writer[v].open /\ writer' # writer
    BY <1>5 DEF Appends
  <2>2. writer' = [writer EXCEPT ![v].pos = @ + 1] /\ active' = active
    BY <2>1 DEF WritePacket
  <2>3. \A w \in Writers : /\ writer'[w].session = writer[w].session
                           /\ writer[w].pos <= writer'[w].pos
                           /\ writer'[w].linked = writer[w].linked
    BY <1>1, <2>2 DEF Writer
  <2>. QED BY <2>2, <2>3 DEF Kept, Ours, InMap
<1>6. CASE Unlinks
  <2>1. PICK s \in Sessions : UnlinkFile(s)
    BY <1>6 DEF Unlinks
  <2>2. \A w \in Writers : /\ writer'[w].session = writer[w].session
                           /\ writer'[w].pos = writer[w].pos
                           /\ ~writer[w].linked => ~writer'[w].linked
    BY <1>1, <2>1 DEF UnlinkFile, Writer
  <2>3. active' = active
    BY <2>1 DEF UnlinkFile
  <2>. QED BY <1>1, <2>2, <2>3 DEF Kept, Ours, InMap, Writer
<1>. QED BY <1>2, <1>3, <1>4, <1>5, <1>6, StepEffect DEF Effect

(***************************************************************************)
(* The round of an ingest thread: the writers in its hands are those still *)
(* to write to, those found full and the one it is handling.               *)
(***************************************************************************)

Hand(i) == todo[i] \cup over[i] \cup ({cur[i]} \ {NoWriter})

\* What the hands hold at each step of the loop
Phase(i) ==
    /\ at[i] \in {"idle", "query", "activate", "open", "write", "count", "limit",
                  "limitSave", "error", "errorSave"}
    /\ at[i] \in {"idle", "query", "activate", "open"} => todo[i] = {} /\ over[i] = {}
    /\ at[i] \in {"limit", "limitSave"} => todo[i] = {}
    /\ at[i] \in {"count", "error", "errorSave", "limitSave"} <=> cur[i] # NoWriter

\* A round has one writer of a session, and handles it once
OneEach(i) ==
    /\ \A v \in Hand(i) : Ours(v)
    /\ \A u, v \in Hand(i) : writer[u].session = writer[v].session => u = v
    /\ todo[i] \cap over[i] = {}
    /\ cur[i] \notin todo[i] \cup over[i]

Round(i) ==
    /\ Phase(i)
    /\ OneEach(i)
    /\ at[i] \in {"errorSave", "limitSave"} => ~InMap(cur[i])

Rounds == \A i \in Interfaces : Round(i)

LEMMA HandType ==
    ASSUME TypeOK, NEW i \in Interfaces
    PROVE  /\ todo[i] \subseteq Writers /\ over[i] \subseteq Writers
           /\ cur[i] \in OptWriter /\ Hand(i) \subseteq Writers
BY DEF TypeOK, Hand

\* Hands that only let go of writers keep one of each session
LEMMA FewerEach ==
    ASSUME TypeOK, Kept, NEW i \in Interfaces, OneEach(i),
           todo'[i] \subseteq todo[i], over'[i] \subseteq over[i], cur'[i] \in {cur[i], NoWriter}
    PROVE  OneEach(i)'
<1>1. Hand(i)' \subseteq Hand(i) /\ Hand(i) \subseteq Writers
  BY HandType DEF Hand
<1>2. \A v \in Hand(i)' : writer'[v].session = writer[v].session /\ Ours(v) /\ Ours(v)'
  BY <1>1 DEF OneEach, Kept, Ours
<1>3. cur'[i] \notin todo'[i] \cup over'[i]
  BY HandType, NullAssumption DEF OneEach
<1>. QED BY <1>1, <1>2, <1>3 DEF OneEach

\* Steps of the other threads
LEMMA SameRound ==
    ASSUME TypeOK, Kept, NEW i \in Interfaces, Round(i), at'[i] = at[i],
           todo'[i] = todo[i], over'[i] = over[i], cur'[i] = cur[i]
    PROVE  Round(i)'
<1>1. OneEach(i)'
  BY FewerEach DEF Round
<1>2. Phase(i)'
  BY DEF Round, Phase
<1>3. ASSUME at[i] \in {"errorSave", "limitSave"} PROVE ~InMap(cur[i])'
  <2>1. cur[i] \in Hand(i) /\ ~InMap(cur[i])
    BY <1>3 DEF Round, Phase, Hand
  <2>2. cur[i] \in Writers /\ Ours(cur[i])
    BY <2>1, HandType DEF Round, OneEach
  <2>. QED BY <2>1, <2>2 DEF Kept
<1>. QED BY <1>1, <1>2, <1>3 DEF Round, InMap

\* The targets of a packet: the map has one writer of a session
LEMMA TargetsEach ==
    ASSUME TypeOK, Safe, NEW i \in Interfaces
    PROVE  /\ \A v \in Targets(i) : v \in Writers /\ InMap(v) /\ Ours(v)
           /\ \A u, v \in Targets(i) : writer[u].session = writer[v].session => u = v
<1>1. \A v \in Targets(i) : \E s \in Sessions : /\ v = active[s] /\ v # NoWriter
                                                /\ writer[v].session = s
  BY DEF Targets, Safe, ActiveWriterOpen
<1>2. active \in [Sessions -> OptWriter]
  BY DEF TypeOK
<1>. QED BY <1>1, <1>2 DEF InMap, Ours

LEMMA SelectRound ==
    ASSUME TypeOK, Safe, NEW i \in Interfaces, Round(i),
           at[i] \in {"idle", "activate"}, todo'[i] = Targets(i),
           Targets(i) # {} => at'[i] = "write",
           Targets(i) = {} => at'[i] \in {"idle", "query"},
           UNCHANGED <<writer, active, over, cur>>
    PROVE  Round(i)'
<1>1. over[i] = {} /\ cur[i] = NoWriter
  BY DEF Round, Phase
<1>2. Hand(i)' = Targets(i)
  BY <1>1 DEF Hand
<1>3. OneEach(i)'
  <2>1. \A v \in Targets(i) : v # NoWriter
    BY TargetsEach, NullAssumption
  <2>. QED BY <1>1, <1>2, <2>1, TargetsEach DEF OneEach, Ours
<1>4. Phase(i)' /\ at'[i] \notin {"errorSave", "limitSave"}
  BY <1>1 DEF Phase
<1>. QED BY <1>3, <1>4 DEF Round

\* Once it is popped, no writer of session s is in the map
LEMMA PoppedOut ==
    ASSUME TypeOK, Safe, NEW s \in Sessions, Pop(s), NEW v \in Writers,
           writer[v].session = s
    PROVE  ~InMap(v)'
<1>1. \A t \in Sessions : active'[t] = IF t = s THEN NoWriter ELSE active[t]
  BY DEF Pop, TypeOK
<1>2. \A t \in Sessions \ {s} : active[t] # v
  BY NullAssumption DEF Safe, ActiveWriterOpen
<1>. QED BY <1>1, <1>2, NullAssumption DEF InMap

LEMMA CurrentFacts ==
    ASSUME TypeOK, Safe, NEW s \in Sessions, NEW w \in Writers, writer[w].session = s
    PROVE  /\ Current(s, w) \in Writers /\ writer[Current(s, w)].session = s
           /\ Current(s, w) = w \/ InMap(Current(s, w))
<1>1. CASE active[s] # NoWriter
  BY <1>1 DEF Current, InMap, Safe, ActiveWriterOpen, TypeOK
<1>2. CASE active[s] = NoWriter
  BY <1>2 DEF Current
<1>. QED BY <1>1, <1>2

\* The hands after a step of the thread itself: whatever is new comes from the
\* map, and what is new to write to is still there
Taken(i) == /\ \A v \in Hand(i)' : v \in Hand(i) \/ InMap(v)
            /\ \A v \in todo'[i] : v \in todo[i] \/ InMap(v)'

LEMMA AbandonRound ==
    ASSUME TypeOK, NEW i \in Interfaces, Abandon(i)
    PROVE  Round(i)' /\ Taken(i)
<1>1. /\ at'[i] = "idle" /\ todo'[i] = {} /\ over'[i] = {} /\ cur'[i] = NoWriter
  BY DEF Abandon, TypeOK
<1>2. Hand(i)' = {}
  BY <1>1 DEF Hand
<1>. QED BY <1>1, <1>2 DEF Round, Phase, OneEach, Taken

LEMMA ActingRound ==
    ASSUME TypeOK, Safe, Kept, NEW i \in Interfaces, Round(i), IngestNext(i)
    PROVE  Round(i)' /\ Taken(i)
<1> USE DEF ingestVars
<1>1. /\ at \in [Procs -> Steps] /\ todo \in [Interfaces -> SUBSET Writers]
      /\ over \in [Interfaces -> SUBSET Writers] /\ cur \in [Interfaces -> OptWriter]
  BY DEF TypeOK
<1>2. ASSUME todo'[i] \subseteq todo[i], over'[i] \subseteq over[i],
             cur'[i] \in {cur[i], NoWriter}, Phase(i)',
             at'[i] \notin {"errorSave", "limitSave"}
      PROVE  Round(i)' /\ Taken(i)
  BY <1>2, FewerEach DEF Round, Taken, Hand
<1>3. CASE SelectTargets(i)
  <2>1. Round(i)'
    BY <1>1, <1>3, SelectRound DEF SelectTargets
  <2>2. /\ Hand(i)' = Targets(i) \cup over[i] \cup ({cur[i]} \ {NoWriter})
        /\ todo'[i] = Targets(i) /\ active' = active
    BY <1>1, <1>3 DEF SelectTargets, Hand
  <2>3. \A v \in Targets(i) : InMap(v) /\ InMap(v)'
    BY <2>2, TargetsEach DEF InMap
  <2>. QED BY <2>1, <2>2, <2>3 DEF Taken, Hand
<1>4. CASE Reselect(i)
  <2>1. CASE activated[i] /\ todo' = [todo EXCEPT ![i] = Targets(i)]
             /\ at' = [at EXCEPT ![i] = AfterPacket(Targets(i), {})]
    <3>1. Round(i)'
      BY <1>1, <1>4, <2>1, SelectRound DEF Reselect, AfterPacket
    <3>2. /\ Hand(i)' = Targets(i) \cup over[i] \cup ({cur[i]} \ {NoWriter})
          /\ todo'[i] = Targets(i) /\ active' = active
      BY <1>1, <1>4, <2>1 DEF Reselect, Hand
    <3>3. \A v \in Targets(i) : InMap(v) /\ InMap(v)'
      BY <3>2, TargetsEach DEF InMap
    <3>. QED BY <3>1, <3>2, <3>3 DEF Taken, Hand
  <2>2. CASE at' = [at EXCEPT ![i] = "idle"] /\ UNCHANGED todo
    BY <1>1, <1>2, <1>4, <2>2 DEF Reselect, Round, Phase
  <2>. QED BY <1>4, <2>1, <2>2 DEF Reselect
<1>5. CASE QuerySessions(i)
  BY <1>1, <1>2, <1>5 DEF QuerySessions, Round, Phase
<1>6. ASSUME NEW s \in Sessions, IngestCheck(i, s) PROVE Round(i)' /\ Taken(i)
  BY <1>1, <1>2, <1>6 DEF IngestCheck, Round, Phase
<1>7. CASE IngestOpened(i) /\ UNCHANGED <<todo, over, cur>>
  BY <1>1, <1>2, <1>7 DEF IngestOpened, Round, Phase
<1>8. ASSUME NEW w \in Writers, WritePacket(i, w) PROVE Round(i)' /\ Taken(i)
  <2>1. /\ todo'[i] = todo[i] \ {w} /\ over'[i] = over[i] /\ cur'[i] = w
        /\ at'[i] \in {"count", "error"} /\ at[i] = "write" /\ w \in todo[i]
    BY <1>1, <1>8 DEF WritePacket
  <2>2. cur[i] = NoWriter /\ w # NoWriter
    BY <2>1, NullAssumption DEF Round, Phase
  <2>3. Hand(i)' = Hand(i)
    BY <1>1, <2>1, <2>2 DEF Hand
  <2>4. \A v \in Hand(i) : writer'[v].session = writer[v].session /\ Ours(v)'
    BY HandType DEF Round, OneEach, Kept, Ours
  <2>5. OneEach(i)'
    BY <2>1, <2>3, <2>4 DEF Round, OneEach
  <2>. QED BY <2>1, <2>2, <2>3, <2>5 DEF Round, Phase, Taken
<1>9. ASSUME NEW s \in Sessions, NEW w \in Writers, CountPacket(i, s, w)
      PROVE  Round(i)' /\ Taken(i)
  <2>1. /\ todo'[i] = todo[i] /\ over'[i] \in {over[i], over[i] \cup {w}}
        /\ cur'[i] = NoWriter /\ cur[i] = w /\ UNCHANGED writer
        /\ at'[i] = AfterPacket(todo[i], over'[i])
    BY <1>1, <1>9 DEF CountPacket, Handles
  <2>2. Hand(i)' \subseteq Hand(i) /\ w \notin todo[i] \cup over[i]
    BY <2>1, NullAssumption DEF Hand, Round, OneEach
  <2>3. OneEach(i)'
    BY <1>1, <2>1, <2>2, NullAssumption DEF Round, OneEach, Ours
  <2>4. Phase(i)' /\ at'[i] \notin {"errorSave", "limitSave"}
    BY <2>1 DEF Phase, AfterPacket
  <2>. QED BY <2>1, <2>2, <2>3, <2>4 DEF Round, Taken
<1>10. ASSUME NEW s \in Sessions, NEW w \in Writers, PopAtLimit(i, s, w)
       PROVE  Round(i)' /\ Taken(i)
  <2>1. /\ todo'[i] = {} /\ over'[i] = over[i] \ {w} /\ cur'[i] = Current(s, w)
        /\ at'[i] = "limitSave" /\ w \in over[i] /\ writer[w].session = s
        /\ Pop(s) /\ todo[i] = {}
    BY <1>1, <1>10 DEF PopAtLimit, AtLimit, Round, Phase
  <2>2. /\ Current(s, w) \in Writers /\ writer[Current(s, w)].session = s
        /\ Current(s, w) = w \/ InMap(Current(s, w))
    BY <2>1, CurrentFacts
  <2>3. Hand(i)' \subseteq (over[i] \ {w}) \cup {Current(s, w)}
    BY <2>1 DEF Hand
  <2>4. \A v \in over[i] : v \in Writers /\ Ours(v) /\ writer'[v].session = writer[v].session
                          /\ (writer[v].session = s => v = w)
    BY <1>1, <2>1 DEF Round, OneEach, Hand, Kept
  <2>5. writer'[Current(s, w)].session = s
    BY <2>2 DEF Kept, Ours
  <2>6. OneEach(i)'
    <3>1. \A v \in Hand(i)' : Ours(v)'
      BY <2>3, <2>4, <2>5 DEF Ours
    <3>2. \A u, v \in Hand(i)' : writer'[u].session = writer'[v].session => u = v
      BY <2>3, <2>4, <2>5 DEF Round, OneEach, Hand
    <3>3. cur'[i] \notin todo'[i] \cup over'[i] /\ todo'[i] \cap over'[i] = {}
      BY <2>1, <2>2, <2>4
    <3>. QED BY <3>1, <3>2, <3>3 DEF OneEach
  <2>7. ~InMap(cur[i])'
    BY <2>1, <2>2, PoppedOut
  <2>8. Phase(i)'
    BY <2>1, <2>2, NullAssumption DEF Phase
  <2>9. Taken(i)
    BY <2>1, <2>2, <2>3 DEF Taken, Hand
  <2>. QED BY <2>6, <2>7, <2>8, <2>9 DEF Round
<1>11. ASSUME NEW s \in Sessions, NEW w \in Writers, SaveLimit(i, s, w)
       PROVE  Round(i)' /\ Taken(i)
  <2>1. /\ todo'[i] = todo[i] /\ todo[i] = {} /\ over'[i] \in {over[i], {}}
        /\ at'[i] = AfterPacket({}, over'[i]) /\ cur'[i] = NoWriter
    BY <1>1, <1>11 DEF SaveLimit, Round, Phase
  <2>. QED BY <1>2, <2>1 DEF Phase, AfterPacket
<1>12. ASSUME NEW s \in Sessions, NEW w \in Writers, PopAtError(i, s, w)
       PROVE  Round(i)' /\ Taken(i)
  <2>1. /\ at'[i] = "errorSave" /\ at[i] = "error" /\ UNCHANGED <<todo, over, cur>>
        /\ cur[i] = w /\ writer[w].session = s /\ Pop(s)
    BY <1>1, <1>12 DEF PopAtError, Handles
  <2>2. ~InMap(cur[i])'
    BY <2>1, PoppedOut
  <2>3. OneEach(i)' /\ Taken(i)
    BY <2>1, FewerEach DEF Round, Taken, Hand
  <2>. QED BY <2>1, <2>2, <2>3 DEF Round, Phase
<1>13. ASSUME NEW s \in Sessions, NEW w \in Writers, SaveError(i, s, w)
       PROVE  Round(i)' /\ Taken(i)
  <2>1. /\ todo'[i] \in {todo[i], {}} /\ over'[i] \in {over[i], {}}
        /\ at'[i] = AfterPacket(todo'[i], over'[i]) /\ cur'[i] = NoWriter
    BY <1>1, <1>13 DEF SaveError
  <2>. QED BY <1>2, <2>1 DEF Phase, AfterPacket
<1>14. CASE Abandon(i)
  BY <1>14, AbandonRound
<1>. QED BY <1>3, <1>4, <1>5, <1>6, <1>7, <1>8, <1>9, <1>10, <1>11, <1>12, <1>13, <1>14
     DEF IngestNext, IngestOpen, IngestOpenFails, IngestOpened, CountRaises, LimitRaises

Still(j) == /\ at'[j] = at[j] /\ todo'[j] = todo[j]
            /\ over'[j] = over[j] /\ cur'[j] = cur[j]

LEMMA IngestStill ==
    ASSUME TypeOK, NEW i \in Interfaces, IngestNext(i), NEW j \in Interfaces \ {i}
    PROVE  Still(j)
<1> USE DEF ingestVars, Still
<1>1. /\ at \in [Procs -> Steps] /\ todo \in [Interfaces -> SUBSET Writers]
      /\ over \in [Interfaces -> SUBSET Writers] /\ cur \in [Interfaces -> OptWriter]
  BY DEF TypeOK
<1>2. CASE SelectTargets(i) \/ QuerySessions(i) \/ Reselect(i)
  BY <1>1, <1>2 DEF SelectTargets, QuerySessions, Reselect
<1>3. ASSUME NEW s \in Sessions, IngestCheck(i, s) PROVE Still(j)
  BY <1>1, <1>3 DEF IngestCheck
<1>4. CASE IngestOpened(i)
  BY <1>1, <1>4 DEF IngestOpened
<1>5. CASE Abandon(i)
  BY <1>1, <1>5 DEF Abandon
<1>6. ASSUME NEW w \in Writers, WritePacket(i, w) PROVE Still(j)
  BY <1>1, <1>6 DEF WritePacket
<1>7. ASSUME NEW s \in Sessions, NEW w \in Writers,
             CountPacket(i, s, w) \/ PopAtLimit(i, s, w) \/ SaveLimit(i, s, w)
      PROVE  Still(j)
  BY <1>1, <1>7 DEF CountPacket, PopAtLimit, SaveLimit
<1>8. ASSUME NEW s \in Sessions, NEW w \in Writers,
             PopAtError(i, s, w) \/ SaveError(i, s, w)
      PROVE  Still(j)
  BY <1>1, <1>8 DEF PopAtError, SaveError
<1>. QED BY <1>2, <1>3, <1>4, <1>5, <1>6, <1>7, <1>8
     DEF IngestNext, IngestOpen, IngestOpenFails, CountRaises, LimitRaises

LEMMA OtherStill ==
    ASSUME TypeOK, WebNext \/ TaskNext \/ UNCHANGED vars, NEW j \in Interfaces
    PROVE  Still(j)
<1> USE DEF ingestVars, Still
<1>1. at \in [Procs -> Steps] /\ j # Task
  BY ProcAssumption DEF TypeOK
<1>2. CASE WebNext
  BY <1>2 DEF WebNext, StartCapture, StartReply, StartTimeout, StartRefresh,
              StartMarkError, Request
<1>3. ASSUME NEW s \in Sessions,
             \/ TakeActivate(s)
             \/ \E op \in {"stop", "cancel", "delete"} : TakeSessionTask(op, s)
      PROVE  Still(j)
  BY <1>1, <1>3 DEF TakeActivate, TakeSessionTask, Take
<1>4. CASE TakeDeleteAll
  BY <1>1, <1>4 DEF TakeDeleteAll, Take
<1>5. ASSUME NEW s \in Sessions,
             \/ StopRead(s) \/ StopSave(s) \/ CancelSave(s)
             \/ UnlinkFile(s) \/ NothingToDelete(s)
      PROVE  Still(j)
  BY <1>1, <1>5 DEF StopRead, StopSave, CancelSave, UnlinkFile, NothingToDelete,
                    TaskIdle, TaskAt
<1>6. CASE TaskCheck \/ DeleteRow
  BY <1>1, <1>6 DEF TaskCheck, DeleteRow, TaskIdle, TaskAt
<1>7. CASE TaskOpened
  BY <1>1, <1>7 DEF TaskOpened, TaskIdle
<1>8. CASE UNCHANGED vars
  BY <1>8 DEF vars
<1>. QED BY <1>2, <1>3, <1>4, <1>5, <1>6, <1>7, <1>8
     DEF TaskNext, TaskOpen, TaskOpenFails

LEMMA CrashHands ==
    ASSUME Crash, NEW i \in Interfaces
    PROVE  at'[i] = "idle" /\ Hand(i)' = {} /\ todo'[i] = {} /\ over'[i] = {}
           /\ cur'[i] = NoWriter
BY DEF Crash, Hand

LEMMA StepRounds ==
    ASSUME TypeOK, Safe, Rounds, [Next]_vars
    PROVE  Rounds' /\ \A i \in Interfaces : Taken(i)
<1>1. Kept
  BY StepKept
<1>. SUFFICES ASSUME NEW i \in Interfaces PROVE Round(i)' /\ Taken(i)
  BY DEF Rounds
<1>2. ASSUME Still(i) PROVE Round(i)' /\ Taken(i)
  BY <1>1, <1>2, SameRound DEF Rounds, Still, Taken, Hand
<1>3. CASE Crash
  BY <1>3, CrashHands DEF Round, Phase, OneEach, Taken
<1>4. ASSUME NEW j \in Interfaces, IngestNext(j) PROVE Round(i)' /\ Taken(i)
  <2>1. CASE i = j
    BY <1>1, <1>4, <2>1, ActingRound DEF Rounds
  <2>2. CASE i # j
    BY <1>2, <1>4, <2>2, IngestStill
  <2>. QED BY <2>1, <2>2
<1>. QED BY <1>2, <1>3, <1>4, OtherStill DEF Next

LEMMA RoundsHold == Spec => []Rounds
<1>1. Init => Rounds
  BY DEF Init, Rounds, Round, Phase, OneEach, Hand
<1>2. TypeOK /\ Safe /\ Rounds /\ [Next]_vars => Rounds'
  BY StepRounds
<1>. QED BY <1>1, <1>2, TypeCorrect, SafeHolds, PTL DEF Spec

(***************************************************************************)
(* Counting.  A packet is named by its writer and its place in the file;   *)
(* a thread at "count" holds one that is appended and not yet counted.     *)
(***************************************************************************)

LEMMA StepPos ==
    ASSUME TypeOK, [Next]_vars, ~Appends, NEW w \in Writers, Ours(w)
    PROVE  writer'[w].pos = writer[w].pos
<1>1. writer \in [Writers -> Writer]
  BY DEF TypeOK
<1>2. CASE Opens
  <2>1. PICK p \in Procs, v \in Writers : RegisterActive(opening[p], v)
    BY <1>2 DEF Opens
  <2>2. w # v
    BY <2>1, NullAssumption DEF RegisterActive, Fresh, Unborn, Ours
  <2>. QED BY <1>1, <2>1, <2>2 DEF RegisterActive
<1>3. CASE Closes
  BY <1>1, <1>3 DEF Closes, Closed, Writer
<1>4. CASE Unlinks
  <2>1. PICK s \in Sessions : UnlinkFile(s)
    BY <1>4 DEF Unlinks
  <2>2. writer[w] \in Writer
    BY <1>1
  <2>3. writer'[w] = IF writer[w].session = s
                    THEN [writer[w] EXCEPT !.linked = FALSE,
                                           !.open = @ /\ w \notin held]
                    ELSE writer[w]
    BY <2>1 DEF UnlinkFile
  <2>. QED BY <2>2, <2>3 DEF Writer
<1>. QED BY <1>2, <1>3, <1>4, StepEffect DEF Effect

\* What an append does
LEMMA AppendFacts ==
    ASSUME TypeOK, Rounds, NEW i \in Interfaces, NEW w \in Writers,
           WritePacket(i, w), writer[w].open, writer' # writer
    PROVE  /\ at[i] = "write" /\ at'[i] = "count" /\ cur'[i] = w /\ Ours(w)
           /\ w \in todo[i] /\ todo'[i] = todo[i] \ {w} /\ cur[i] = NoWriter
           /\ UNCHANGED <<rowVars, active, over>>
           /\ writer'[w].pos = writer[w].pos + 1 /\ writer[w].pos \in Nat
           /\ writer'[w].session = writer[w].session
           /\ writer'[w].linked = writer[w].linked
           /\ \A v \in Writers \ {w} : writer'[v] = writer[v]
<1>1. /\ at \in [Procs -> Steps] /\ todo \in [Interfaces -> SUBSET Writers]
      /\ cur \in [Interfaces -> OptWriter] /\ writer \in [Writers -> Writer]
  BY DEF TypeOK
<1>2. /\ at[i] = "write" /\ at'[i] = "count" /\ cur'[i] = w /\ w \in todo[i]
      /\ todo'[i] = todo[i] \ {w} /\ UNCHANGED <<rowVars, active, over>>
      /\ writer' = [writer EXCEPT ![w].pos = @ + 1]
  BY <1>1 DEF WritePacket
<1>3. Ours(w) /\ cur[i] = NoWriter
  BY <1>2 DEF Rounds, Round, Phase, OneEach, Hand
<1>4. /\ writer'[w].pos = writer[w].pos + 1 /\ writer[w].pos \in Nat
      /\ writer'[w].session = writer[w].session
      /\ writer'[w].linked = writer[w].linked
      /\ \A v \in Writers \ {w} : writer'[v] = writer[v]
  BY <1>1, <1>2 DEF Writer
<1>. QED BY <1>2, <1>3, <1>4

Counting(s) == {i \in Interfaces : at[i] = "count" /\ writer[cur[i]].session = s}

Counts(s) ==
    /\ IsFiniteSet(Appended(s))
    /\ packets[s] + Cardinality(Counting(s)) <= Cardinality(Appended(s))

LEMMA CountingType ==
    ASSUME NEW s
    PROVE  IsFiniteSet(Counting(s)) /\ Cardinality(Counting(s)) \in Nat
BY FiniteAssumption, FS_Subset, FS_CardinalityType DEF Counting

LEMMA AppendedMember ==
    ASSUME NEW s, NEW x
    PROVE  x \in Appended(s) <=>
             \E w \in Writers : /\ writer[w].session = s
                                /\ \E n \in 1..writer[w].pos : x = <<w, n>>
BY DEF Appended

\* The thread that counts has the writer in its hands
LEMMA CountsOurs ==
    ASSUME TypeOK, Rounds, NEW i \in Interfaces, at[i] = "count"
    PROVE  cur[i] \in Writers /\ Ours(cur[i])
<1>1. cur[i] # NoWriter /\ cur[i] \in OptWriter
  BY DEF Rounds, Round, Phase, TypeOK
<1>2. cur[i] \in Hand(i)
  BY <1>1 DEF Hand
<1>. QED BY <1>1, <1>2 DEF Rounds, Round, OneEach

\* No append and no count
LEMMA SameCounts ==
    ASSUME TypeOK, TypeOK', Kept, Rounds, NEW s \in Sessions, Counts(s),
           packets'[s] = packets[s],
           \A w \in Writers : Ours(w) => writer'[w].pos = writer[w].pos,
           \A i \in Interfaces : at'[i] = "count" => at[i] = "count" /\ cur'[i] = cur[i]
    PROVE  Counts(s)'
<1>1. \A w \in Writers : /\ writer[w].session = s => writer'[w].session = s
                         /\ writer'[w].session = s => writer[w].session = s \/ writer'[w].pos = 0
  BY DEF Kept, Ours
<1>2. \A w \in Writers : writer[w].session = s => writer'[w].pos = writer[w].pos
  BY DEF Ours
<1>3. Appended(s)' = Appended(s)
  <2>1. \A x : x \in Appended(s)' => x \in Appended(s)
    <3>. SUFFICES ASSUME NEW x \in Appended(s)' PROVE x \in Appended(s)
      OBVIOUS
    <3>1. PICK w \in Writers : /\ writer'[w].session = s
                               /\ \E n \in 1..writer'[w].pos : x = <<w, n>>
      BY DEF Appended
    <3>2. writer[w].session = s
      BY <1>1, <3>1
    <3>. QED BY <1>2, <3>1, <3>2 DEF Appended
  <2>2. \A x : x \in Appended(s) => x \in Appended(s)'
    BY <1>1, <1>2 DEF Appended
  <2>. QED BY <2>1, <2>2
<1>4. Counting(s)' \subseteq Counting(s)
  <2>. SUFFICES ASSUME NEW i \in Interfaces, at'[i] = "count", writer'[cur'[i]].session = s
                PROVE  at[i] = "count" /\ writer[cur[i]].session = s
    BY DEF Counting
  <2>1. at[i] = "count" /\ cur'[i] = cur[i]
    OBVIOUS
  <2>2. writer'[cur[i]].session = writer[cur[i]].session
    BY <2>1, CountsOurs DEF Kept
  <2>. QED BY <2>1, <2>2
<1>5. Cardinality(Counting(s)') <= Cardinality(Counting(s))
  BY <1>4, CountingType, FS_Subset
<1>6. Cardinality(Counting(s)') \in Nat /\ Cardinality(Counting(s)) \in Nat
  <2>1. IsFiniteSet(Counting(s)')
    BY <1>4, CountingType, FS_Subset
  <2>. QED BY <2>1, CountingType, FS_CardinalityType
<1>7. Cardinality(Appended(s)) \in Nat /\ packets[s] \in Nat
  BY FS_CardinalityType DEF Counts, TypeOK
<1>. QED BY <1>3, <1>5, <1>6, <1>7 DEF Counts

LEMMA CountPacketCounts ==
    ASSUME TypeOK, Rounds, NEW s \in Sessions, Counts(s), NEW i \in Interfaces,
           NEW t \in Sessions, NEW w \in Writers, CountPacket(i, t, w)
    PROVE  Counts(s)'
<1>1. /\ at \in [Procs -> Steps] /\ cur \in [Interfaces -> OptWriter]
      /\ packets \in [Sessions -> Nat]
  BY DEF TypeOK
<1>2. /\ at[i] = "count" /\ at'[i] # "count" /\ cur[i] = w /\ writer[w].session = t
      /\ UNCHANGED writer
      /\ \A j \in Interfaces \ {i} : at'[j] = at[j] /\ cur'[j] = cur[j]
  BY <1>1 DEF CountPacket, Handles, AfterPacket
<1>3. Appended(s)' = Appended(s)
  BY <1>2 DEF Appended
<1>4. Counting(s)' = IF t = s THEN Counting(s) \ {i} ELSE Counting(s)
  BY <1>2 DEF Counting
<1>5. packets'[s] \in {packets[s], IF t = s THEN packets[s] + 1 ELSE packets[s]}
  BY <1>1 DEF CountPacket, Counted
<1>6. i \in Counting(s) <=> t = s
  BY <1>2 DEF Counting
<1>7. /\ IsFiniteSet(Counting(s)) /\ Cardinality(Counting(s)) \in Nat
      /\ Cardinality(Counting(s) \ {i}) =
           IF t = s THEN Cardinality(Counting(s)) - 1 ELSE Cardinality(Counting(s))
  BY <1>6, CountingType, FS_RemoveElement
<1>8. Cardinality(Appended(s)) \in Nat /\ packets[s] \in Nat
  BY <1>1, FS_CardinalityType DEF Counts
<1>9. packets'[s] + Cardinality(Counting(s)') <= Cardinality(Appended(s))
  BY <1>4, <1>5, <1>7, <1>8 DEF Counts
<1>. QED BY <1>3, <1>9 DEF Counts

LEMMA AppendCounts ==
    ASSUME TypeOK, TypeOK', Rounds, NEW s \in Sessions, Counts(s), NEW i \in Interfaces,
           NEW w \in Writers, WritePacket(i, w), writer[w].open, writer' # writer
    PROVE  Counts(s)'
<1>1. /\ at[i] = "write" /\ at'[i] = "count" /\ cur'[i] = w /\ packets' = packets
      /\ writer'[w].pos = writer[w].pos + 1 /\ writer[w].pos \in Nat
      /\ writer'[w].session = writer[w].session
      /\ \A v \in Writers \ {w} : writer'[v] = writer[v]
  BY AppendFacts DEF rowVars
<1>2. \A j \in Interfaces \ {i} : at'[j] = at[j] /\ cur'[j] = cur[j]
  BY IngestStill DEF IngestNext, Still
<1>3. \A v \in Writers : writer'[v].session = writer[v].session
  BY <1>1
<1>4. Counting(s)' = IF writer[w].session = s THEN Counting(s) \cup {i} ELSE Counting(s)
  <2>1. \A j \in Interfaces \ {i} : at[j] = "count" => cur[j] \in Writers
    BY CountsOurs
  <2>. QED BY <1>1, <1>2, <1>3, <2>1 DEF Counting
<1>5. Appended(s)' = IF writer[w].session = s
                     THEN Appended(s) \cup {<<w, writer[w].pos + 1>>} ELSE Appended(s)
  <2>1. \A n : n \in 1..writer'[w].pos <=> n \in 1..writer[w].pos \/ n = writer[w].pos + 1
    BY <1>1
  <2>2. \A x : x \in Appended(s)' <=>
               \E v \in Writers : writer[v].session = s
                                  /\ \E n \in 1..writer'[v].pos : x = <<v, n>>
    BY <1>3 DEF Appended
  <2>3. ASSUME NEW x PROVE x \in Appended(s)' <=>
               x \in Appended(s) \/ (writer[w].session = s /\ x = <<w, writer[w].pos + 1>>)
    <3>1. ASSUME NEW v \in Writers, v # w
          PROVE  (\E n \in 1..writer'[v].pos : x = <<v, n>>)
                   <=> (\E n \in 1..writer[v].pos : x = <<v, n>>)
      BY <1>1, <3>1
    <3>2. (\E n \in 1..writer'[w].pos : x = <<w, n>>)
             <=> ((\E n \in 1..writer[w].pos : x = <<w, n>>) \/ x = <<w, writer[w].pos + 1>>)
      BY <2>1
    <3>. QED BY <2>2, <3>1, <3>2, AppendedMember
  <2>. QED BY <2>3
<1>6. i \notin Counting(s)
  BY <1>1 DEF Counting
<1>7. <<w, writer[w].pos + 1>> \notin Appended(s)
  <2>1. writer[w].pos + 1 \notin 1..writer[w].pos
    BY <1>1
  <2>. QED BY <2>1, AppendedMember
<1>8. /\ IsFiniteSet(Counting(s)) /\ Cardinality(Counting(s)) \in Nat
      /\ Cardinality(Counting(s) \cup {i}) = Cardinality(Counting(s)) + 1
  BY <1>6, CountingType, FS_AddElement
<1>9. IsFiniteSet(Appended(s)) /\ Cardinality(Appended(s)) \in Nat /\ packets[s] \in Nat
  BY FS_CardinalityType DEF Counts, TypeOK
<1>10. /\ IsFiniteSet(Appended(s) \cup {<<w, writer[w].pos + 1>>})
       /\ Cardinality(Appended(s) \cup {<<w, writer[w].pos + 1>>})
             = Cardinality(Appended(s)) + 1
  BY <1>7, <1>9, FS_AddElement
<1>11. packets[s] + Cardinality(Counting(s)) <= Cardinality(Appended(s))
  BY DEF Counts
<1>12. CASE writer[w].session = s
  <2>1. Cardinality(Counting(s)') = Cardinality(Counting(s)) + 1
    BY <1>4, <1>8, <1>12
  <2>2. IsFiniteSet(Appended(s)') /\ Cardinality(Appended(s)') = Cardinality(Appended(s)) + 1
    BY <1>5, <1>10, <1>12
  <2>3. packets'[s] + Cardinality(Counting(s)') <= Cardinality(Appended(s)')
    BY <1>1, <1>8, <1>9, <1>11, <2>1, <2>2
  <2>. QED BY <2>2, <2>3 DEF Counts
<1>13. CASE writer[w].session # s
  BY <1>1, <1>4, <1>5, <1>13 DEF Counts
<1>. QED BY <1>12, <1>13

\* Only an append puts a thread at "count", only CountPacket counts
LEMMA IngestQuiet ==
    ASSUME TypeOK, NEW i \in Interfaces, IngestNext(i), ~Appends,
           \A s \in Sessions, w \in Writers : ~CountPacket(i, s, w)
    PROVE  packets' = packets /\ at'[i] # "count"
<1> USE DEF rowVars
<1>1. at \in [Procs -> Steps] /\ writer \in [Writers -> Writer]
  BY DEF TypeOK
<1>2. CASE SelectTargets(i) \/ QuerySessions(i) \/ Reselect(i)
  BY <1>1, <1>2 DEF SelectTargets, QuerySessions, Reselect, AfterPacket
<1>3. ASSUME NEW s \in Sessions, IngestCheck(i, s)
      PROVE  packets' = packets /\ at'[i] # "count"
  BY <1>1, <1>3 DEF IngestCheck
<1>4. CASE IngestOpened(i)
  BY <1>1, <1>4 DEF IngestOpened
<1>5. CASE Abandon(i)
  BY <1>1, <1>5 DEF Abandon
<1>6. ASSUME NEW w \in Writers, WritePacket(i, w)
      PROVE  packets' = packets /\ at'[i] # "count"
  <2>1. CASE writer[w].open /\ writer' = [writer EXCEPT ![w].pos = @ + 1]
    <3>1. writer'[w].pos = writer[w].pos + 1 /\ writer[w].pos \in Nat
      BY <1>1, <2>1 DEF Writer
    <3>2. writer' # writer
      BY <3>1
    <3>. QED BY <1>6, <2>1, <3>2 DEF Appends
  <2>2. CASE at' = [at EXCEPT ![i] = "error"]
    BY <1>1, <1>6, <2>2 DEF WritePacket
  <2>. QED BY <1>6, <2>1, <2>2 DEF WritePacket
<1>7. ASSUME NEW s \in Sessions, NEW w \in Writers,
             PopAtLimit(i, s, w) \/ SaveLimit(i, s, w)
      PROVE  packets' = packets /\ at'[i] # "count"
  BY <1>1, <1>7 DEF PopAtLimit, SaveLimit, AfterPacket
<1>8. ASSUME NEW s \in Sessions, NEW w \in Writers,
             PopAtError(i, s, w) \/ SaveError(i, s, w)
      PROVE  packets' = packets /\ at'[i] # "count"
  BY <1>1, <1>8 DEF PopAtError, SaveError, AfterPacket
<1>. QED BY <1>2, <1>3, <1>4, <1>5, <1>6, <1>7, <1>8
     DEF IngestNext, IngestOpen, IngestOpenFails, CountRaises, LimitRaises

LEMMA OtherQuiet ==
    ASSUME WebNext \/ TaskNext \/ Crash \/ UNCHANGED vars
    PROVE  packets' = packets
<1> USE DEF rowVars
<1>1. CASE WebNext
  BY <1>1 DEF WebNext, StartCapture, StartReply, StartTimeout, StartRefresh,
              StartMarkError, Request
<1>2. CASE Crash \/ UNCHANGED vars
  BY <1>2 DEF Crash, vars
<1>3. ASSUME NEW s \in Sessions,
             \/ TakeActivate(s)
             \/ \E op \in {"stop", "cancel", "delete"} : TakeSessionTask(op, s)
      PROVE  packets' = packets
  BY <1>3 DEF TakeActivate, TakeSessionTask, Take
<1>4. CASE TakeDeleteAll \/ TaskCheck \/ TaskOpened \/ DeleteRow
  BY <1>4 DEF TakeDeleteAll, Take, TaskCheck, TaskOpened, DeleteRow
<1>5. ASSUME NEW s \in Sessions,
             \/ StopRead(s) \/ StopSave(s) \/ CancelSave(s)
             \/ UnlinkFile(s) \/ NothingToDelete(s)
      PROVE  packets' = packets
  BY <1>5 DEF StopRead, StopSave, CancelSave, UnlinkFile, NothingToDelete
<1>. QED BY <1>1, <1>2, <1>3, <1>4, <1>5 DEF TaskNext, TaskOpen, TaskOpenFails

LEMMA StepCounts ==
    ASSUME TypeOK, TypeOK', Safe, Rounds, [Next]_vars, NEW s \in Sessions, Counts(s)
    PROVE  Counts(s)'
<1>1. Kept
  BY StepKept
<1>2. CASE Appends
  BY <1>2, AppendCounts DEF Appends
<1>3. ASSUME ~Appends, packets' = packets,
             \A i \in Interfaces : at'[i] = "count" => at[i] = "count" /\ cur'[i] = cur[i]
      PROVE  Counts(s)'
  <2>1. \A w \in Writers : Ours(w) => writer'[w].pos = writer[w].pos
    BY <1>3, StepPos
  <2>. QED BY <1>1, <1>3, <2>1, SameCounts
<1>4. CASE ~Appends /\ Crash
  BY <1>3, <1>4, OtherQuiet, CrashHands
<1>5. CASE ~Appends /\ (WebNext \/ TaskNext \/ UNCHANGED vars)
  BY <1>3, <1>5, OtherQuiet, OtherStill DEF Still
<1>6. ASSUME ~Appends, NEW i \in Interfaces, IngestNext(i) PROVE Counts(s)'
  <2>1. CASE \E t \in Sessions, w \in Writers : CountPacket(i, t, w)
    BY <2>1, CountPacketCounts
  <2>2. CASE \A t \in Sessions, w \in Writers : ~CountPacket(i, t, w)
    <3>1. packets' = packets /\ at'[i] # "count"
      BY <1>6, <2>2, IngestQuiet
    <3>2. \A j \in Interfaces \ {i} : at'[j] = at[j] /\ cur'[j] = cur[j]
      BY <1>6, IngestStill DEF Still
    <3>. QED BY <1>3, <1>6, <3>1, <3>2
  <2>. QED BY <2>1, <2>2
<1>. QED BY <1>2, <1>4, <1>5, <1>6 DEF Next

\* packet_count never runs ahead of the packets appended: whatever the
\* threads, failures and restarts, each increment stands for one append.
THEOREM CountedOnce == Spec => []NeverOvercounted
<1>1. Init => \A s \in Sessions : Counts(s)
  <2>. SUFFICES ASSUME Init, NEW s \in Sessions PROVE Counts(s)
    OBVIOUS
  <2>1. Appended(s) = {} /\ Counting(s) = {} /\ packets[s] = 0
    BY NullAssumption DEF Init, Appended, Counting, Unborn
  <2>. QED BY <2>1, FS_EmptySet DEF Counts
<1>2. /\ TypeOK /\ TypeOK' /\ Safe /\ Rounds
      /\ (\A s \in Sessions : Counts(s)) /\ [Next]_vars
      => (\A s \in Sessions : Counts(s))'
  BY StepCounts
<1>3. (\A s \in Sessions : Counts(s)) => NeverOvercounted
  BY DEF Counts, Counting, NeverOvercounted
<1>. QED BY <1>1, <1>2, <1>3, TypeCorrect, SafeHolds, RoundsHold, PTL DEF Spec

(***************************************************************************)
(* A file whose writer is still linked exists, and a session a writer was  *)
(* opened for has a row, or had one.                                       *)
(***************************************************************************)

Known(t) == status[t] # "Absent"

Born ==
    /\ \A w \in Writers : Ours(w) =>
          /\ Known(writer[w].session)
          /\ disk[writer[w].session] = Missing => ~writer[w].linked
    /\ \A p \in Procs : opening[p] \in Sessions => Known(opening[p])

\* A thread is about to open a writer only for a session it has found running
Announced == \A p \in Procs : opening'[p] \in {opening[p], NoSession}
                                \cup {s \in Sessions : status[s] = "RUNNING"}

LEMMA StepAnnounced ==
    ASSUME TypeOK, [Next]_vars PROVE Announced
<1> USE DEF Announced
<1>1. opening \in [Procs -> OptSession] /\ job \in Job
  BY DEF TypeOK
<1>2. CASE UNCHANGED opening
  BY <1>2
<1>3. CASE WebNext
  BY <1>2, <1>3 DEF WebNext, StartCapture, StartReply, StartTimeout, StartRefresh,
                    StartMarkError, Request
<1>4. CASE Crash
  BY <1>4 DEF Crash
<1>5. ASSUME NEW i \in Interfaces, IngestNext(i) PROVE Announced
  <2>1. ASSUME NEW s \in Sessions, IngestCheck(i, s) PROVE Announced
    BY <1>1, <2>1 DEF IngestCheck
  <2>2. CASE IngestOpened(i)
    BY <1>1, <2>2 DEF IngestOpened
  <2>3. CASE SelectTargets(i) \/ QuerySessions(i) \/ Reselect(i) \/ Abandon(i)
    BY <1>2, <2>3 DEF SelectTargets, QuerySessions, Reselect, Abandon
  <2>4. ASSUME NEW w \in Writers, WritePacket(i, w) PROVE Announced
    BY <1>2, <2>4 DEF WritePacket
  <2>5. ASSUME NEW s \in Sessions, NEW w \in Writers,
               \/ CountPacket(i, s, w) \/ PopAtLimit(i, s, w) \/ SaveLimit(i, s, w)
               \/ PopAtError(i, s, w) \/ SaveError(i, s, w)
        PROVE  Announced
    BY <1>2, <2>5 DEF CountPacket, PopAtLimit, SaveLimit, PopAtError, SaveError
  <2>. QED BY <1>5, <2>1, <2>2, <2>3, <2>4, <2>5
       DEF IngestNext, IngestOpen, IngestOpenFails, CountRaises, LimitRaises
<1>6. CASE TaskNext
  <2>1. CASE TaskCheck
    <3>1. job.session \in OptSession
      BY <1>1 DEF Job
    <3>2. active[job.session] = NoWriter /\ status[job.session] = "RUNNING"
            => job.session \in Sessions \cup {NoSession}
      BY <3>1
    <3>. QED BY <1>1, <2>1, <3>1 DEF TaskCheck
  <2>2. CASE TaskOpened
    BY <1>1, <2>2 DEF TaskOpened
  <2>3. ASSUME NEW s \in Sessions,
               \/ TakeActivate(s)
               \/ \E op \in {"stop", "cancel", "delete"} : TakeSessionTask(op, s)
        PROVE  Announced
    BY <1>2, <2>3 DEF TakeActivate, TakeSessionTask, Take
  <2>4. ASSUME NEW s \in Sessions,
               \/ StopRead(s) \/ StopSave(s) \/ CancelSave(s)
               \/ UnlinkFile(s) \/ NothingToDelete(s)
        PROVE  Announced
    BY <1>2, <2>4 DEF StopRead, StopSave, CancelSave, UnlinkFile, NothingToDelete
  <2>5. CASE TakeDeleteAll \/ DeleteRow
    BY <1>2, <2>5 DEF TakeDeleteAll, Take, DeleteRow
  <2>. QED BY <1>6, <2>1, <2>2, <2>3, <2>4, <2>5 DEF TaskNext, TaskOpen, TaskOpenFails
<1>. QED BY <1>2, <1>3, <1>4, <1>5, <1>6 DEF Next, vars

LEMMA StepBorn ==
    ASSUME TypeOK, Safe, GotPresent, Born, [Next]_vars PROVE Born'
<1>1. /\ writer \in [Writers -> Writer] /\ disk \in [Sessions -> Nat \cup {Missing}]
      /\ opening \in [Procs -> OptSession]
  BY DEF TypeOK
<1>2. \A t \in Sessions : Known(t) => Known(t)'
  BY StepStays DEF StaysEnded, Known
<1>3. ASSUME NEW p \in Procs, opening'[p] \in Sessions PROVE Known(opening[p])'
  <2>1. status[opening'[p]] # "Absent"
    BY <1>3, StepAnnounced, NullAssumption DEF Announced, Born, Known
  <2>. QED BY <1>2, <1>3, <2>1 DEF Known
<1>4. ASSUME NEW w \in Writers, Ours(w)'
      PROVE  /\ status'[writer'[w].session] # "Absent"
             /\ disk'[writer'[w].session] = Missing => ~writer'[w].linked
  <2> DEFINE t == writer'[w].session
  <2>1. ASSUME writer'[w].session = writer[w].session,
               disk'[t] = Missing => disk[t] = Missing \/ ~writer'[w].linked,
               ~writer[w].linked => ~writer'[w].linked
        PROVE  status'[t] # "Absent" /\ (disk'[t] = Missing => ~writer'[w].linked)
    BY <1>2, <1>4, <2>1 DEF Born, Ours, Known
  <2>2. CASE UNCHANGED <<writer, active, disk>>
    BY <2>1, <2>2
  <2>3. CASE Opens
    <3>1. PICK p \in Procs, v \in Writers : RegisterActive(opening[p], v)
      BY <2>3 DEF Opens
    <3>2. \A u \in Sessions : disk'[u] \in {0, disk[u]}
      BY <1>1, <3>1 DEF RegisterActive
    <3>3. CASE w = v
      <4>1. t = opening[p] /\ status' = status
        BY <1>1, <3>1, <3>3 DEF RegisterActive
      <4>2. disk'[t] = 0
        BY <1>1, <1>4, <3>1, <4>1 DEF RegisterActive, Ours
      <4>3. status'[t] # "Absent"
        BY <1>4, <4>1 DEF Born, Known, Ours
      <4>. QED BY <4>2, <4>3
    <3>4. CASE w # v
      <4>1. writer'[w] = writer[w]
        BY <1>1, <3>1, <3>4 DEF RegisterActive
      <4>2. t \in Sessions
        BY <1>4 DEF Ours
      <4>. QED BY <2>1, <3>2, <4>1, <4>2
    <3>. QED BY <3>3, <3>4
  <2>4. CASE Closes
    <3>1. writer'[w].session = writer[w].session /\ writer'[w].linked = writer[w].linked
      BY <1>1, <2>4 DEF Closes, Closed, Writer
    <3>. QED BY <2>1, <2>4, <3>1 DEF Closes
  <2>5. CASE Appends
    <3>1. PICK i \in Interfaces, v \in Writers :
             WritePacket(i, v) /\ writer[v].open /\ writer' # writer
      BY <2>5 DEF Appends
    <3>2. writer' = [writer EXCEPT ![v].pos = @ + 1] /\ writer[v].pos \in Nat
      BY <1>1, <3>1 DEF WritePacket, Writer
    <3>3. writer'[w].session = writer[w].session /\ writer'[w].linked = writer[w].linked
      BY <1>1, <3>2 DEF Writer
    <3>4. \A u \in Sessions : disk'[u] \in {disk[u], writer[v].pos + 1}
      BY <1>1, <3>1, <3>2 DEF WritePacket
    <3>5. t \in Sessions
      BY <1>4 DEF Ours
    <3>. QED BY <2>1, <3>2, <3>3, <3>4, <3>5
  <2>6. CASE Unlinks
    <3>1. PICK s \in Sessions : UnlinkFile(s)
      BY <2>6 DEF Unlinks
    <3>2. writer[w] \in Writer
      BY <1>1
    <3>3. writer'[w] = IF writer[w].session = s
                      THEN [writer[w] EXCEPT !.linked = FALSE,
                                             !.open = @ /\ w \notin held]
                      ELSE writer[w]
      BY <3>1 DEF UnlinkFile
    <3>4. /\ writer'[w].session = writer[w].session
          /\ ~writer'[w].linked \/ (writer[w].session # s /\ writer'[w] = writer[w])
      BY <3>2, <3>3 DEF Writer
    <3>5. \A u \in Sessions \ {s} : disk'[u] = disk[u]
      BY <1>1, <3>1 DEF UnlinkFile
    <3>6. t \in Sessions
      BY <1>4 DEF Ours
    <3>. QED BY <2>1, <3>4, <3>5, <3>6
  <2>. QED BY <2>2, <2>3, <2>4, <2>5, <2>6, StepEffect DEF Effect
<1>. QED BY <1>3, <1>4 DEF Born, Ours, Known

LEMMA BornHolds == Spec => []Born
<1>1. Init => Born
  BY NullAssumption DEF Init, Born, Ours, Unborn
<1>2. TypeOK /\ Safe /\ GotPresent /\ Born /\ [Next]_vars => Born'
  BY StepBorn
<1>. QED BY <1>1, <1>2, TypeCorrect, SafeHolds, GotPresentHolds, PTL DEF Spec

(***************************************************************************)
(* The size limit.  A writer in the map goes past the limit only in a      *)
(* thread that found it full, or in one that let it go because an orphan   *)
(* of another session cut its round short; a thread meets an orphan once.  *)
(***************************************************************************)

Met(x) == x[2] \notin Hand(x[1]) /\ ~InMap(x[2])

\* The threads that have met the orphans of other sessions than s
Spent(s) == {x \in Interfaces \X Orphans(s) : Met(x)}

LEMMA OrphansStay ==
    ASSUME TypeOK, GotPresent, [Next]_vars, Kept, NEW s \in Sessions
    PROVE  Orphans(s) \subseteq Orphans(s)'
<1>. SUFFICES ASSUME NEW w \in Orphans(s) PROVE w \in Orphans(s)'
  OBVIOUS
<1>1. w \in Writers /\ Ours(w) /\ writer[w].session \in Sessions \ {s}
  BY DEF Orphans, Ours
<1>2. writer'[w].session = writer[w].session /\ (~writer[w].linked => ~writer'[w].linked)
  BY <1>1 DEF Kept
<1>3. status[writer[w].session] = "Deleted" => status'[writer[w].session] = "Deleted"
  BY <1>1, StepStays DEF StaysEnded
<1>. QED BY <1>1, <1>2, <1>3 DEF Orphans

LEMMA SpentStays ==
    ASSUME TypeOK, GotPresent, [Next]_vars, Kept, \A i \in Interfaces : Taken(i),
           NEW s \in Sessions
    PROVE  Spent(s) \subseteq Spent(s)'
<1>. SUFFICES ASSUME NEW i \in Interfaces, NEW w \in Orphans(s), w \notin Hand(i), ~InMap(w)
              PROVE  w \in Orphans(s)' /\ w \notin Hand(i)' /\ ~InMap(w)'
  BY DEF Spent, Met
<1>1. w \in Orphans(s)'
  BY OrphansStay
<1>2. w \notin Hand(i)'
  BY DEF Taken
<1>3. w \in Writers /\ Ours(w)
  BY DEF Orphans, Ours
<1>. QED BY <1>1, <1>2, <1>3 DEF Kept

LEMMA SpentFinite ==
    ASSUME NEW s
    PROVE  /\ IsFiniteSet(Spent(s)) /\ Cardinality(Spent(s)) \in Nat
           /\ Cardinality(Orphans(s)) \in Nat
           /\ Cardinality(Spent(s)) <= Cardinality(Interfaces) * Cardinality(Orphans(s))
<1>1. IsFiniteSet(Orphans(s)) /\ Cardinality(Orphans(s)) \in Nat
  <2>1. Orphans(s) \subseteq Writers
    BY DEF Orphans
  <2>. QED BY <2>1, FiniteAssumption, FS_Subset, FS_CardinalityType
<1>2. /\ IsFiniteSet(Interfaces \X Orphans(s))
      /\ Cardinality(Interfaces \X Orphans(s))
           = Cardinality(Interfaces) * Cardinality(Orphans(s))
  BY <1>1, FiniteAssumption, FS_Product
<1>3. Spent(s) \subseteq Interfaces \X Orphans(s)
  BY DEF Spent
<1>. QED BY <1>1, <1>2, <1>3, FS_Subset, FS_CardinalityType

Holding(i, w) == w \in over[i] \/ (at[i] = "count" /\ cur[i] = w)

\* An orphan of another session than s that thread i lets go of in this step
LetsGo(i, s) == \E v \in Hand(i) : /\ v \in Orphans(s) /\ v \notin Hand(i)'
                                   /\ ~InMap(v)'

\* A thread that stops holding a writer which stays in the map found it below
\* the limit, or was cut short
LEMMA StopsHolding ==
    ASSUME TypeOK, Safe, Born, Kept, NEW i \in Interfaces, Round(i), IngestNext(i),
           NEW s \in Sessions, NEW w \in Writers, writer[w].session = s,
           active[s] = w, active'[s] = w, Holding(i, w), ~Holding(i, w)'
    PROVE  writer[w].pos < Limit \/ LetsGo(i, s)
<1> USE DEF ingestVars
<1>1. /\ at \in [Procs -> Steps] /\ todo \in [Interfaces -> SUBSET Writers]
      /\ over \in [Interfaces -> SUBSET Writers] /\ cur \in [Interfaces -> OptWriter]
      /\ active \in [Sessions -> OptWriter] /\ writer \in [Writers -> Writer]
      /\ disk \in [Sessions -> Nat \cup {Missing}] /\ status \in [Sessions -> Status]
  BY DEF TypeOK
<1>2. w # NoWriter /\ w \in Hand(i) /\ writer[w].open
  BY NullAssumption DEF Holding, Hand, Safe, ActiveWriterOpen
\* What every orphan in the thread's hands gives
<1>3. ASSUME NEW v \in Hand(i), v # w,
             ~writer[v].linked \/ status[writer[v].session] = "Deleted",
             Hand(i)' = {}, ~InMap(v)'
      PROVE  LetsGo(i, s)
  <2>1. v \in Writers /\ Ours(v) /\ writer[v].session # s
    BY <1>2, <1>3, HandType DEF Round, OneEach
  <2>. QED BY <1>3, <2>1 DEF LetsGo, Orphans, Ours
<1>4. ASSUME Abandon(i) PROVE Hand(i)' = {}
  BY <1>1, <1>4 DEF Abandon, Hand
<1>5. CASE SelectTargets(i) \/ QuerySessions(i) \/ Reselect(i)
  BY <1>1, <1>5 DEF SelectTargets, QuerySessions, Reselect, Holding
<1>6. ASSUME NEW t \in Sessions, IngestCheck(i, t) PROVE FALSE
  BY <1>1, <1>6 DEF IngestCheck, Holding
<1>7. CASE IngestOpened(i) /\ UNCHANGED <<over, cur>>
  BY <1>1, <1>7 DEF IngestOpened, Holding
<1>8. ASSUME NEW v \in Writers, WritePacket(i, v) PROVE FALSE
  BY <1>1, <1>8 DEF WritePacket, Holding
<1>9. ASSUME NEW v \in Writers, CountRaises(i, v) PROVE LetsGo(i, s)
  <2>1. cur[i] = v /\ v \in Hand(i) /\ BytesWritten(v) = Missing
    BY <1>9, NullAssumption DEF CountRaises, Hand
  <2>2. ~writer[v].open /\ disk[writer[v].session] = Missing
    <3>1. writer[v].pos \in Nat
      BY <1>1 DEF Writer
    <3>. QED BY <2>1, <3>1 DEF BytesWritten
  <2>3. Ours(v) /\ ~writer[v].linked
    BY <2>1, <2>2 DEF Round, OneEach, Born
  <2>4. ~InMap(v)'
    <3>1. ~InMap(v)
      BY <2>2, NullAssumption DEF InMap, Safe, ActiveWriterOpen
    <3>. QED BY <2>3, <3>1 DEF Kept
  <2>5. v # w
    BY <1>2, <2>2
  <2>6. Hand(i)' = {}
    BY <1>4, <1>9 DEF CountRaises
  <2>. QED BY <1>3, <2>1, <2>3, <2>4, <2>5, <2>6
<1>10. ASSUME NEW t \in Sessions, NEW v \in Writers, CountPacket(i, t, v)
       PROVE  writer[w].pos < Limit
  <2>1. /\ v = w /\ over' = [over EXCEPT ![i] = IF Full(BytesWritten(v))
                                                THEN over[i] \cup {v} ELSE over[i]]
    BY <1>1, <1>10 DEF CountPacket, Handles, Holding
  <2>2. ~Full(writer[w].pos)
    BY <1>1, <1>2, <2>1 DEF Holding, BytesWritten
  <2>3. writer[w].pos \in Nat /\ Limit \in Nat
    BY <1>1, LimitAssumption DEF Writer
  <2>. QED BY <2>2, <2>3 DEF Full
<1>11. ASSUME NEW t \in Sessions, NEW v \in Writers, PopAtLimit(i, t, v) PROVE FALSE
  <2>1. v = w
    BY <1>1, <1>11 DEF PopAtLimit, AtLimit, Holding
  <2>2. active'[s] = NoWriter
    BY <1>1, <1>11, <2>1 DEF PopAtLimit, AtLimit, Pop
  <2>. QED BY <1>2, <2>2
<1>12. ASSUME NEW t \in Sessions, NEW v \in Writers, LimitRaises(i, t, v)
       PROVE  LetsGo(i, s)
  <2>1. /\ v \in over[i] /\ v \in Hand(i) /\ writer[v].session = t /\ Pop(t)
        /\ disk[t] = Missing
    BY <1>12 DEF LimitRaises, AtLimit, Hand
  <2>2. v # w
    <3>1. active'[t] = NoWriter
      BY <1>1, <2>1 DEF Pop
    <3>. QED BY <1>2, <2>1, <3>1
  <2>3. ~writer[v].linked
    BY <2>1 DEF Born, Ours
  <2>4. ~InMap(v)'
    BY <2>1, PoppedOut
  <2>. QED BY <1>3, <1>4, <1>12, <2>1, <2>2, <2>3, <2>4 DEF LimitRaises
\* A save that raises: the row is gone
<1>13. ASSUME NEW t \in Sessions, NEW v \in Writers, Handles(i, t, v), ~Present(t),
              at[i] \in {"errorSave", "limitSave"}, Hand(i)' = {}
       PROVE  LetsGo(i, s)
  <2>1. v \in Hand(i) /\ ~InMap(v) /\ writer[v].session = t /\ Ours(v)
    BY <1>13, NullAssumption DEF Handles, Hand, Round, Ours
  <2>2. v # w
    BY <2>1 DEF InMap
  <2>3. status[t] = "Deleted"
    BY <1>1, <1>13, <2>1 DEF Born, Known, Present, Status
  <2>4. ~InMap(v)'
    BY <2>1 DEF Kept
  <2>. QED BY <1>3, <1>13, <2>1, <2>2, <2>3, <2>4
<1>14. ASSUME NEW t \in Sessions, NEW v \in Writers, SaveLimit(i, t, v)
       PROVE  LetsGo(i, s)
  <2>1. /\ at[i] = "limitSave" /\ Handles(i, t, v) /\ cur'[i] = NoWriter
        /\ todo'[i] = {} /\ over'[i] \in {over[i]} \cup (IF Present(t) THEN {} ELSE {{}})
    BY <1>1, <1>14 DEF SaveLimit, Round, Phase
  <2>2. w \in over[i] /\ over'[i] # over[i]
    BY <2>1 DEF Holding
  <2>3. ~Present(t) /\ Hand(i)' = {}
    BY <2>1, <2>2 DEF Hand
  <2>. QED BY <1>13, <2>1, <2>3
<1>15. ASSUME NEW t \in Sessions, NEW v \in Writers, SaveError(i, t, v)
       PROVE  LetsGo(i, s)
  <2>1. /\ at[i] = "errorSave" /\ Handles(i, t, v) /\ cur'[i] = NoWriter
        /\ \/ over'[i] = over[i]
           \/ ~Present(t) /\ todo'[i] = {} /\ over'[i] = {}
    BY <1>1, <1>15 DEF SaveError
  <2>2. w \in over[i] /\ over'[i] # over[i]
    BY <2>1 DEF Holding
  <2>3. ~Present(t) /\ Hand(i)' = {}
    BY <2>1, <2>2 DEF Hand
  <2>. QED BY <1>13, <2>1, <2>3
<1>16. ASSUME NEW t \in Sessions, NEW v \in Writers, PopAtError(i, t, v) PROVE FALSE
  BY <1>1, <1>16 DEF PopAtError, Holding
<1>. QED BY <1>5, <1>6, <1>7, <1>8, <1>9, <1>10, <1>11, <1>12, <1>14, <1>15, <1>16
     DEF IngestNext, IngestOpen, IngestOpenFails, IngestOpened

FullOf(w) == {i \in Interfaces : Holding(i, w)}
TodoOf(w) == {i \in Interfaces : w \in todo[i]}

LEMMA CardSubset ==
    ASSUME NEW T, IsFiniteSet(T), NEW S, S \subseteq T
    PROVE  /\ IsFiniteSet(S) /\ Cardinality(S) \in Nat /\ Cardinality(T) \in Nat
           /\ Cardinality(S) <= Cardinality(T)
BY FS_Subset, FS_CardinalityType

LEMMA DisjointSum ==
    ASSUME NEW S, IsFiniteSet(S), NEW T, IsFiniteSet(T), S \cap T = {}
    PROVE  /\ IsFiniteSet(S \cup T)
           /\ Cardinality(S \cup T) = Cardinality(S) + Cardinality(T)
<1>1. Cardinality(S \cap T) = 0
  BY FS_EmptySet
<1>. QED BY <1>1, FS_Union, FS_CardinalityType

LEMMA ThreadCounts ==
    ASSUME NEW w
    PROVE  /\ IsFiniteSet(FullOf(w)) /\ Cardinality(FullOf(w)) \in Nat
           /\ IsFiniteSet(TodoOf(w)) /\ Cardinality(TodoOf(w)) \in Nat
           /\ Cardinality(TodoOf(w)) <= Cardinality(Interfaces)
           /\ Cardinality(Interfaces) \in Nat
<1>1. FullOf(w) \subseteq Interfaces /\ TodoOf(w) \subseteq Interfaces
  BY DEF FullOf, TodoOf
<1>. QED BY <1>1, FiniteAssumption, CardSubset

\* The step of a thread costs a writer no more than it is worth
LEMMA StepHolding ==
    ASSUME TypeOK, Safe, GotPresent, Born, Rounds, [Next]_vars,
           NEW s \in Sessions, NEW w \in Writers, writer[w].session = s,
           active[s] = w, active'[s] = w
    PROVE  \/ writer[w].pos < Limit
           \/ Cardinality(FullOf(w)) + Cardinality(Spent(s))
                <= Cardinality(FullOf(w)') + Cardinality(Spent(s)')
<1>1. Kept /\ \A i \in Interfaces : Taken(i)
  BY StepKept, StepRounds
<1>2. Spent(s) \subseteq Spent(s)'
  BY <1>1, SpentStays
<1>3. /\ IsFiniteSet(Spent(s)') /\ Cardinality(Spent(s)') \in Nat
      /\ IsFiniteSet(FullOf(w)') /\ Cardinality(FullOf(w)') \in Nat
  <2>1. Spent(s)' \subseteq Interfaces \X Writers
    BY DEF Spent, Orphans
  <2>2. IsFiniteSet(Interfaces \X Writers)
    BY FiniteAssumption, FS_Product
  <2>3. FullOf(w)' \subseteq Interfaces
    BY DEF FullOf
  <2>. QED BY <2>1, <2>2, <2>3, FiniteAssumption, CardSubset
<1>4. /\ Cardinality(Spent(s)) \in Nat /\ Cardinality(FullOf(w)) \in Nat
      /\ Cardinality(Spent(s)) <= Cardinality(Spent(s)')
  BY <1>2, <1>3, CardSubset, ThreadCounts
<1>5. CASE FullOf(w) \subseteq FullOf(w)'
  <2>1. Cardinality(FullOf(w)) <= Cardinality(FullOf(w)')
    BY <1>3, <1>5, CardSubset
  <2>. QED BY <1>3, <1>4, <2>1
<1>6. CASE Crash
  BY <1>6, NullAssumption DEF Crash
<1>7. CASE WebNext \/ TaskNext \/ UNCHANGED vars
  BY <1>5, <1>7, OtherStill DEF FullOf, Holding, Still
<1>8. ASSUME NEW i \in Interfaces, IngestNext(i), ~(FullOf(w) \subseteq FullOf(w)')
      PROVE  \/ writer[w].pos < Limit
             \/ Cardinality(FullOf(w)) + Cardinality(Spent(s))
                  <= Cardinality(FullOf(w)') + Cardinality(Spent(s)')
  <2>1. \A j \in Interfaces \ {i} : Holding(j, w) => Holding(j, w)'
    BY <1>8, IngestStill DEF Holding, Still
  <2>2. Holding(i, w) /\ ~Holding(i, w)' /\ FullOf(w) \ {i} \subseteq FullOf(w)'
    BY <1>8, <2>1 DEF FullOf
  <2>3. writer[w].pos < Limit \/ LetsGo(i, s)
    BY <1>1, <1>8, <2>2, StopsHolding DEF Rounds
  <2>4. CASE LetsGo(i, s)
    <3>1. PICK v \in Hand(i) : v \in Orphans(s) /\ v \notin Hand(i)' /\ ~InMap(v)'
      BY <2>4 DEF LetsGo
    <3>2. v \in Orphans(s)'
      BY <1>1, <3>1, OrphansStay
    <3>3. <<i, v>> \in Spent(s)' /\ <<i, v>> \notin Spent(s)
      BY <3>1, <3>2 DEF Spent, Met
    <3>4. Cardinality(Spent(s) \cup {<<i, v>>}) = Cardinality(Spent(s)) + 1
      BY <3>3, SpentFinite, FS_AddElement
    <3>5. Cardinality(Spent(s)) + 1 <= Cardinality(Spent(s)')
      <4>1. Spent(s) \cup {<<i, v>>} \subseteq Spent(s)'
        BY <1>2, <3>3
      <4>. QED BY <1>3, <3>4, <4>1, CardSubset
    <3>6. Cardinality(FullOf(w) \ {i}) = Cardinality(FullOf(w)) - 1
      BY <2>2, ThreadCounts, FS_RemoveElement DEF FullOf
    <3>7. Cardinality(FullOf(w)) - 1 <= Cardinality(FullOf(w)')
      BY <1>3, <2>2, <3>6, CardSubset
    <3>. QED BY <1>3, <1>4, <3>5, <3>7
  <2>. QED BY <2>3, <2>4
<1>. QED BY <1>5, <1>6, <1>7, <1>8 DEF Next

\* While it is in the map ...
InRoom(s, w) == writer[w].pos < Limit + Cardinality(FullOf(w)) + Cardinality(Spent(s))

\* ... and after it has left it
OutRoom(s, w) == writer[w].pos + Cardinality(TodoOf(w))
                   < Limit + Cardinality(Interfaces) + Cardinality(Spent(s))

Roomy == \A w \in Writers : Ours(w) =>
            LET s == writer[w].session
            IN  OutRoom(s, w) /\ (active[s] = w => InRoom(s, w))

FileRoom(s) == disk[s] < Limit + Cardinality(Interfaces) + Cardinality(Spent(s))

LEMMA SpentCounts ==
    ASSUME TypeOK, Safe, GotPresent, Rounds, [Next]_vars, NEW s \in Sessions
    PROVE  /\ Cardinality(Spent(s)) \in Nat /\ Cardinality(Spent(s)') \in Nat
           /\ Cardinality(Spent(s)) <= Cardinality(Spent(s)')
<1>1. Spent(s) \subseteq Spent(s)'
  BY StepKept, StepRounds, SpentStays
<1>2. Spent(s)' \subseteq Interfaces \X Writers
  BY DEF Spent, Orphans
<1>3. IsFiniteSet(Spent(s)')
  BY <1>2, FiniteAssumption, FS_Product, CardSubset
<1>. QED BY <1>1, <1>3, CardSubset

LEMMA NextThreadCounts ==
    ASSUME NEW w
    PROVE  /\ IsFiniteSet(FullOf(w)') /\ Cardinality(FullOf(w)') \in Nat
           /\ IsFiniteSet(TodoOf(w)') /\ Cardinality(TodoOf(w)') \in Nat
           /\ Cardinality(TodoOf(w)') <= Cardinality(Interfaces)
<1>1. FullOf(w)' \subseteq Interfaces /\ TodoOf(w)' \subseteq Interfaces
  BY DEF FullOf, TodoOf
<1>. QED BY <1>1, FiniteAssumption, CardSubset

\* A packet moves its thread from those that have to write to those that hold
LEMMA AppendRoom ==
    ASSUME TypeOK, Safe, GotPresent, Rounds, [Next]_vars, Roomy,
           NEW i \in Interfaces, NEW w \in Writers,
           WritePacket(i, w), writer[w].open, writer' # writer,
           NEW s \in Sessions, writer[w].session = s
    PROVE  /\ OutRoom(s, w)' /\ (active'[s] = w => InRoom(s, w)')
           /\ writer[w].pos + 1 < Limit + Cardinality(Interfaces) + Cardinality(Spent(s))
<1>1. /\ at[i] = "write" /\ at'[i] = "count" /\ cur'[i] = w /\ active' = active
      /\ w \in todo[i] /\ todo'[i] = todo[i] \ {w} /\ over'[i] = over[i]
      /\ writer'[w].pos = writer[w].pos + 1 /\ writer[w].pos \in Nat
  BY AppendFacts
<1>2. \A j \in Interfaces \ {i} : Still(j)
  BY IngestStill DEF IngestNext
<1>3. w \notin over[i]
  BY <1>1 DEF Rounds, Round, OneEach
<1>4. TodoOf(w)' = TodoOf(w) \ {i} /\ i \in TodoOf(w)
  BY <1>1, <1>2 DEF TodoOf, Still
<1>5. FullOf(w)' = FullOf(w) \cup {i} /\ i \notin FullOf(w)
  BY <1>1, <1>2, <1>3 DEF FullOf, Holding, Still
<1>6. /\ Cardinality(TodoOf(w)') = Cardinality(TodoOf(w)) - 1
      /\ Cardinality(FullOf(w)') = Cardinality(FullOf(w)) + 1
  <2>1. Cardinality(TodoOf(w) \ {i}) = Cardinality(TodoOf(w)) - 1
    BY <1>4, ThreadCounts, FS_RemoveElement
  <2>2. Cardinality(FullOf(w) \cup {i}) = Cardinality(FullOf(w)) + 1
    BY <1>5, ThreadCounts, FS_AddElement
  <2>. QED BY <1>4, <1>5, <2>1, <2>2
<1>7. OutRoom(s, w) /\ (active[s] = w => InRoom(s, w))
  BY DEF Roomy, Ours
<1>8. Limit \in Nat /\ Cardinality(TodoOf(w)') \in Nat
  BY LimitAssumption, NextThreadCounts
<1>9. OutRoom(s, w)'
  BY <1>1, <1>6, <1>7, <1>8, ThreadCounts, SpentCounts DEF OutRoom
<1>10. active'[s] = w => InRoom(s, w)'
  BY <1>1, <1>6, <1>7, <1>8, ThreadCounts, SpentCounts DEF InRoom
<1>11. writer[w].pos + 1 < Limit + Cardinality(Interfaces) + Cardinality(Spent(s))
  BY <1>1, <1>6, <1>7, <1>8, ThreadCounts, SpentCounts DEF OutRoom
<1>. QED BY <1>9, <1>10, <1>11

\* Only a writer in the map is selected
LEMMA TodoFewer ==
    ASSUME TypeOK, Safe, Safe', Rounds, [Next]_vars, NEW s \in Sessions, NEW w \in Writers,
           writer'[w].session = s, active'[s] # w
    PROVE  TodoOf(w)' \subseteq TodoOf(w)
<1>1. ~InMap(w)'
  BY NullAssumption DEF InMap, Safe, ActiveWriterOpen
<1>2. \A i \in Interfaces : w \in todo'[i] => w \in todo[i]
  BY <1>1, StepRounds DEF Taken
<1>. QED BY <1>2 DEF TodoOf

\* Every other step
LEMMA SameRoom ==
    ASSUME TypeOK, Safe, Safe', GotPresent, Born, Rounds, Rounds', [Next]_vars, Roomy,
           NEW w \in Writers, NEW s \in Sessions, writer[w].session = s,
           writer'[w].session = s, writer'[w].pos = writer[w].pos
    PROVE  OutRoom(s, w)' /\ (active'[s] = w => InRoom(s, w)')
<1>1. writer[w].pos \in Nat /\ Limit \in Nat
  BY LimitAssumption DEF TypeOK, Writer
<1>2. OutRoom(s, w) /\ (active[s] = w => InRoom(s, w))
  BY DEF Roomy, Ours
<1>3. CASE active'[s] = w
  <2>1. active[s] = w
    <3>1. InMap(w)
      BY <1>3, StepKept DEF Kept, InMap, Ours
    <3>. QED BY <3>1, NullAssumption DEF InMap, Safe, ActiveWriterOpen
  <2>2. InRoom(s, w)'
    BY <1>1, <1>2, <1>3, <2>1, StepHolding, ThreadCounts, NextThreadCounts, SpentCounts
       DEF InRoom
\* No thread still has to write to a writer it holds
  <2>3. Cardinality(FullOf(w)') + Cardinality(TodoOf(w)') <= Cardinality(Interfaces)
    <3>1. FullOf(w)' \cap TodoOf(w)' = {}
      BY DEF FullOf, TodoOf, Holding, Rounds, Round, OneEach
    <3>2. /\ IsFiniteSet(FullOf(w)' \cup TodoOf(w)')
          /\ Cardinality(FullOf(w)' \cup TodoOf(w)')
               = Cardinality(FullOf(w)') + Cardinality(TodoOf(w)')
      BY <3>1, NextThreadCounts, DisjointSum
    <3>3. FullOf(w)' \cup TodoOf(w)' \subseteq Interfaces
      BY DEF FullOf, TodoOf
    <3>. QED BY <3>2, <3>3, FiniteAssumption, CardSubset
  <2>4. OutRoom(s, w)'
    BY <1>1, <2>2, <2>3, ThreadCounts, NextThreadCounts, SpentCounts DEF InRoom, OutRoom
  <2>. QED BY <2>2, <2>4
<1>4. CASE active'[s] # w
  <2>1. Cardinality(TodoOf(w)') <= Cardinality(TodoOf(w))
    BY <1>4, TodoFewer, ThreadCounts, CardSubset
  <2>2. OutRoom(s, w)'
    BY <1>1, <1>2, <2>1, ThreadCounts, NextThreadCounts, SpentCounts DEF OutRoom
  <2>. QED BY <1>4, <2>2
<1>. QED BY <1>3, <1>4

LEMMA StepRoomy ==
    ASSUME TypeOK, TypeOK', Safe, Safe', GotPresent, Born, Rounds, Rounds', [Next]_vars, Roomy
    PROVE  Roomy'
<1>. SUFFICES ASSUME NEW w \in Writers, NEW s \in Sessions, writer'[w].session = s
              PROVE  OutRoom(s, w)' /\ (active'[s] = w => InRoom(s, w)')
  BY DEF Roomy, Ours
<1>1. CASE ~Ours(w)
  <2>1. writer'[w].pos = 0
    BY <1>1, StepKept DEF Kept, Ours
  <2>2. Limit \in Nat \ {0}
    BY LimitAssumption
  <2>. QED BY <2>1, <2>2, ThreadCounts, NextThreadCounts, SpentCounts DEF OutRoom, InRoom
<1>2. CASE Ours(w)
  <2>1. writer[w].session = s
    BY <1>2, StepKept DEF Kept
  <2>2. CASE ~Appends
    BY <1>2, <2>1, <2>2, StepPos, SameRoom
  <2>3. CASE Appends
    <3>1. PICK i \in Interfaces, v \in Writers :
             WritePacket(i, v) /\ writer[v].open /\ writer' # writer
      BY <2>3 DEF Appends
    <3>2. CASE v = w
      BY <2>1, <3>1, <3>2, AppendRoom
    <3>3. CASE v # w
      <4>1. writer'[w] = writer[w]
        BY <3>1, <3>3, AppendFacts
      <4>. QED BY <2>1, <4>1, SameRoom
    <3>. QED BY <3>2, <3>3
  <2>. QED BY <2>2, <2>3
<1>. QED BY <1>1, <1>2

LEMMA StepFileRoom ==
    ASSUME TypeOK, Safe, GotPresent, Rounds, [Next]_vars, Roomy,
           NEW s \in Sessions, FileRoom(s)
    PROVE  FileRoom(s)'
<1>1. /\ disk \in [Sessions -> Nat \cup {Missing}] /\ writer \in [Writers -> Writer]
      /\ Limit \in Nat \ {0} /\ Cardinality(Interfaces) \in Nat
  BY LimitAssumption, ThreadCounts DEF TypeOK
<1>2. ASSUME disk'[s] \in {disk[s], 0, Missing} PROVE FileRoom(s)'
  BY <1>1, <1>2, SpentCounts DEF FileRoom
<1>3. CASE UNCHANGED <<writer, active, disk>> \/ Closes
  BY <1>2, <1>3 DEF Closes
<1>4. CASE Opens
  BY <1>1, <1>2, <1>4 DEF Opens, RegisterActive
<1>5. CASE Unlinks
  BY <1>1, <1>2, <1>5 DEF Unlinks, UnlinkFile
<1>6. CASE Appends
  <2>1. PICK i \in Interfaces, v \in Writers :
           WritePacket(i, v) /\ writer[v].open /\ writer' # writer
    BY <1>6 DEF Appends
  <2>2. /\ writer[v].session # s => disk'[s] = disk[s]
        /\ disk'[s] \in {disk[s], writer[v].pos + 1}
    BY <1>1, <2>1 DEF WritePacket
  <2>3. CASE writer[v].session = s /\ disk'[s] = writer[v].pos + 1
    <3>1. /\ writer[v].pos + 1 < Limit + Cardinality(Interfaces) + Cardinality(Spent(s))
          /\ writer[v].pos \in Nat
      BY <2>1, <2>3, AppendRoom, AppendFacts
    <3>. QED BY <1>1, <2>3, <3>1, SpentCounts DEF FileRoom
  <2>. QED BY <1>2, <2>2, <2>3
<1>. QED BY <1>3, <1>4, <1>5, <1>6, StepEffect DEF Effect

\* CAPTURE_MAX_FILESIZE: however many sessions and threads there are, a file
\* outgrows the limit by at most one packet a thread, and one more a thread
\* for each orphaned writer of another session.
THEOREM FilesStayInLimit == Spec => []SizeLimitKept
<1>1. Init => Roomy /\ \A s \in Sessions : FileRoom(s)
  <2>. SUFFICES ASSUME Init PROVE Roomy /\ \A s \in Sessions : FileRoom(s)
    OBVIOUS
  <2>1. Roomy
    BY NullAssumption DEF Init, Roomy, Ours, Unborn
  <2>2. \A s \in Sessions : disk[s] = Missing
    BY DEF Init
  <2>3. ASSUME NEW s \in Sessions PROVE FileRoom(s)
    <3>1. /\ Cardinality(Interfaces) \in Nat /\ Cardinality(Spent(s)) \in Nat
          /\ Limit \in Nat /\ disk[s] = -1
      BY <2>2, LimitAssumption, ThreadCounts, SpentFinite
    <3>. QED BY <3>1 DEF FileRoom
  <2>. QED BY <2>1, <2>3
<1>2. /\ TypeOK /\ TypeOK' /\ Safe /\ Safe' /\ GotPresent /\ Born /\ Rounds /\ Rounds'
      /\ Roomy /\ (\A s \in Sessions : FileRoom(s)) /\ [Next]_vars
      => Roomy' /\ (\A s \in Sessions : FileRoom(s))'
  BY StepRoomy, StepFileRoom
<1>3. TypeOK /\ (\A s \in Sessions : FileRoom(s)) => SizeLimitKept
  <2>. SUFFICES ASSUME TypeOK, NEW s \in Sessions, FileRoom(s)
                PROVE  disk[s] < Limit + Cardinality(Interfaces) * (1 + Cardinality(Orphans(s)))
    BY DEF SizeLimitKept
  <2> DEFINE I == Cardinality(Interfaces)
             O == Cardinality(Orphans(s))
             S == Cardinality(Spent(s))
  <2>1. I \in Nat /\ O \in Nat /\ S \in Nat /\ S <= I * O
    BY ThreadCounts, SpentFinite
  <2>2. Limit \in Nat /\ disk[s] \in Int
    BY LimitAssumption DEF TypeOK
  <2>3. disk[s] < Limit + I + S
    BY DEF FileRoom
  <2>. HIDE DEF I, O, S
  <2>4. I * (1 + O) = I + I * O /\ I * O \in Nat
    BY <2>1
  <2>5. disk[s] < Limit + I * (1 + O)
    BY <2>1, <2>2, <2>3, <2>4
  <2>. QED BY <2>5 DEF I, O
<1>. QED BY <1>1, <1>2, <1>3, TypeCorrect, SafeHolds, GotPresentHolds, BornHolds,
            RoundsHold, PTL DEF Spec
=============================================================================
