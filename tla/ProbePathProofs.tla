---------------------------- MODULE ProbePathProofs -----------------------------
(***************************************************************************)
(* Theorems about ProbePath: it is well typed, a traceroute injected       *)
(* through the interface whose thread handles the packet is never          *)
(* confirmed, and a probe has few rows.                                    *)
(***************************************************************************)
EXTENDS ProbePath, FiniteSetTheorems, TLAPS

USE ThreadAssumption, BoundAssumption

MsgRow == [via : Interfaces \cup {Nobody}, state : {"new", "queued", "sent", "acked", "lost"}]
ThreadRow == [at : Stages, id : 0..MaxProbes, pass : 0..2, seen : BOOLEAN, pick : Nat]
HistoryRow == [id : Probes, answered : BOOLEAN]
UsedRow == [probes : 0..MaxProbes, packets : Nat, crashes : Nat]

\* A thread that waits for or records a publication has a probe of its own; one
\* that looks for the row of an answer has a probe, and picks a row there is.
Busy ==
    \A t \in Threads :
        /\ thread[t].at \in {"publish", "mark", "create", "reach", "find", "write"}
              => thread[t].id \in Probes
        /\ thread[t].at \in {"save", "reach", "find", "write", "dispatch", "ignored"}
              => t \in Interfaces
        /\ thread[t].at = "write" => thread[t].pick \in 0..Len(rows)

Typed == TypeOK /\ Busy

\* Moving a thread to another stage keeps the type.
LEMMA GotoType ==
    ASSUME TypeOK, NEW t \in Threads, NEW stage \in Stages, Goto(t, stage)
    PROVE  thread' \in [Threads -> ThreadRow]
<1>1. thread \in [Threads -> ThreadRow]
  BY DEF TypeOK, ThreadRow
<1>2. [thread[t] EXCEPT !.at = stage] \in ThreadRow
  BY <1>1 DEF ThreadRow
<1>. QED BY <1>1, <1>2 DEF Goto

LEMMA IdleType == Idle \in ThreadRow
BY DEF Idle, Bare, ThreadRow, Stages

\* Handing a packet to the publisher service keeps the types.
LEMMA DispatchTypes ==
    ASSUME Typed, NEW i \in Interfaces, Dispatch(i), Len(rows') >= Len(rows), rows' \in Seq(HistoryRow)
    PROVE  thread' \in [Threads -> ThreadRow] /\ Busy' /\ thread'[i].at = "dispatch"
<1>1. thread \in [Threads -> ThreadRow] /\ i \in Threads /\ rows \in Seq(HistoryRow)
  BY DEF Typed, TypeOK, ThreadRow, HistoryRow, Threads
<1>3. Bare("dispatch") \in ThreadRow /\ Bare("dispatch").at = "dispatch"
  BY DEF ThreadRow, Stages, Bare
<1>4. thread' \in [Threads -> ThreadRow] /\ thread'[i].at = "dispatch"
  BY <1>1, <1>3 DEF Dispatch
<1>5. ASSUME NEW t \in Threads, thread'[t].at = "write" PROVE thread'[t].pick \in 0..Len(rows')
  <2>1. t # i /\ thread'[t] = thread[t]
    BY <1>1, <1>4, <1>5 DEF Dispatch
  <2>2. thread[t].pick \in 0..Len(rows) /\ Len(rows) \in Nat /\ Len(rows') \in Nat
    BY <1>1, <1>5, <2>1 DEF Typed, Busy
  <2>. QED BY <2>1, <2>2
<1>6. \A t \in Threads : thread'[t] = thread[t] \/ (t = i /\ thread'[t].at = "dispatch")
  BY <1>1, <1>4 DEF Dispatch
<1>. QED BY <1>4, <1>5, <1>6 DEF Typed, Busy

\* Publishing keeps the types.
LEMMA PublishTypes ==
    ASSUME TypeOK, NEW t \in Threads, NEW i \in Interfaces, Publish(t, i)
    PROVE  /\ msg' \in [Probes -> MsgRow] /\ thread' \in [Threads -> ThreadRow]
           /\ used' \in UsedRow
<1>. DEFINE m == used.probes + 1
<1>1. /\ used \in UsedRow /\ thread \in [Threads -> ThreadRow] /\ msg \in [Probes -> MsgRow]
  BY DEF TypeOK, UsedRow, ThreadRow, MsgRow
<1>2. used.probes \in 0..MaxProbes /\ used.probes < MaxProbes
  BY <1>1 DEF UsedRow, Publish
<1>3. m \in Probes /\ m \in 0..MaxProbes
  BY <1>2 DEF Probes
<1>4. used' \in UsedRow
  BY <1>1, <1>3 DEF Publish, UsedRow
<1>5. [via |-> i, state |-> "queued"] \in MsgRow
  BY DEF MsgRow
<1>6. [at |-> "publish", id |-> m, pass |-> 0, seen |-> FALSE, pick |-> 0] \in ThreadRow
  BY <1>3 DEF ThreadRow, Stages
<1>. QED BY <1>1, <1>4, <1>5, <1>6 DEF Publish

\* Ending a publication keeps the types.
LEMMA FinishTypes ==
    ASSUME TypeOK, NEW t \in Threads, Finish(t)
    PROVE  thread' \in [Threads -> ThreadRow] /\ lock' \in Interfaces \cup {Nobody}
<1>1. thread \in [Threads -> ThreadRow] /\ lock \in Interfaces \cup {Nobody}
  BY DEF TypeOK, ThreadRow
<1>. QED BY <1>1, IdleType DEF Finish

\* What the connection of an interface delivers or takes keeps the types.
LEMMA ConnectionTypes ==
    ASSUME Typed, NEW i \in Interfaces, Connection(i)
    PROVE  Typed'
<1>. USE DEF Typed
<1>1. /\ msg \in [Probes -> MsgRow] /\ thread \in [Threads -> ThreadRow] /\ i \in Threads
      /\ used \in UsedRow /\ flag \in BOOLEAN
  BY DEF TypeOK, ThreadRow, MsgRow, UsedRow, Threads
<1>2. ASSUME Transmit(i) \/ ReadAck(i) PROVE Typed'
  <2>1. PICK m \in Probes, state \in {"sent", "acked"} : msg' = [msg EXCEPT ![m].state = state]
    BY <1>2 DEF Transmit, ReadAck
  <2>2. [msg[m] EXCEPT !.state = state] \in MsgRow
    BY <1>1 DEF MsgRow
  <2>3. msg' \in [Probes -> MsgRow]
    BY <1>1, <2>1, <2>2
  <2>4. UNCHANGED <<heard, thread, lock, packets, flag, rows, recorded, answered, used>>
    BY <1>2 DEF Transmit, ReadAck
  <2>. QED BY <2>3, <2>4 DEF TypeOK, Busy, MsgRow
<1>3. ASSUME NEW m \in Probes, ReadEcho(i, m) PROVE Typed'
  <2>1. thread' \in [Threads -> ThreadRow]
    BY <1>1, <1>3, GotoType DEF ReadEcho, Stages
  <2>2. heard' \subseteq {"echo", "answer"} \X Probes \X Interfaces /\ packets' \subseteq Probes
    BY <1>3 DEF ReadEcho, TypeOK
  <2>3. TypeOK'
    BY <1>3, <2>1, <2>2 DEF ReadEcho, TypeOK, ThreadRow
  <2>4. Busy'
    BY <1>1, <1>3 DEF ReadEcho, Goto, Busy
  <2>. QED BY <2>3, <2>4
<1>4. ASSUME NEW m \in 0..MaxProbes, Read(i, m), rows' = rows
      PROVE  thread' \in [Threads -> ThreadRow] /\ Busy'
  <2>1. PICK pass \in {1, 2} :
          thread' = [thread EXCEPT ![i] =
                       [at |-> "save", id |-> m, pass |-> pass, seen |-> flag, pick |-> 0]]
    BY <1>4 DEF Read
  <2>2. [at |-> "save", id |-> m, pass |-> pass, seen |-> flag, pick |-> 0] \in ThreadRow
    BY <1>1 DEF ThreadRow, Stages
  <2>. QED BY <1>1, <1>4, <2>1, <2>2 DEF Busy
<1>5. ASSUME NEW m \in Probes, ReadAnswer(i, m) PROVE Typed'
  <2>1. m \in 0..MaxProbes
    BY DEF Probes
  <2>2. thread' \in [Threads -> ThreadRow] /\ Busy'
    BY <1>4, <1>5, <2>1 DEF ReadAnswer
  <2>3. heard' \subseteq {"echo", "answer"} \X Probes \X Interfaces
    BY <1>5 DEF ReadAnswer, TypeOK
  <2>. QED BY <1>5, <2>2, <2>3 DEF ReadAnswer, TypeOK, ThreadRow
<1>6. ASSUME ReadOther(i) PROVE Typed'
  <2>1. thread' \in [Threads -> ThreadRow] /\ Busy'
    BY <1>4, <1>6 DEF ReadOther
  <2>2. used.packets + 1 \in Nat
    BY <1>1 DEF UsedRow
  <2>3. used' \in UsedRow
    BY <1>1, <1>6, <2>2 DEF ReadOther, UsedRow
  <2>. QED BY <1>6, <2>1, <2>3 DEF ReadOther, TypeOK, ThreadRow, UsedRow
<1>. QED BY <1>2, <1>3, <1>5, <1>6 DEF Connection

\* Handling a packet keeps the types.
LEMMA HandleTypes ==
    ASSUME Typed, NEW i \in Interfaces, Handle(i)
    PROVE  Typed'
<1>. USE DEF Typed
<1>1. /\ thread \in [Threads -> ThreadRow] /\ i \in Threads /\ flag \in BOOLEAN
      /\ rows \in Seq(HistoryRow)
  BY DEF TypeOK, ThreadRow, HistoryRow, Threads
<1>2. thread[i].seen \in BOOLEAN /\ thread[i].id \in 0..MaxProbes /\ thread[i].pick \in Nat
  BY <1>1 DEF ThreadRow
<1>3. ASSUME SaveNode(i) PROVE Typed'
  <2>1. thread' \in [Threads -> ThreadRow] /\ Busy'
    <3>1. rows' = rows /\ Len(rows') >= Len(rows)
      BY <1>1, <1>3 DEF SaveNode
    <3>2. CASE thread[i].id = 0
      BY <1>1, <1>3, <3>1, <3>2, DispatchTypes DEF SaveNode
    <3>3. CASE thread[i].id # 0
      <4>1. Goto(i, "reach") /\ thread[i].id \in Probes
        BY <1>2, <1>3, <3>3 DEF SaveNode, Probes
      <4>2. thread' \in [Threads -> ThreadRow]
        BY <1>1, <4>1, GotoType DEF Stages
      <4>. QED BY <1>1, <3>1, <4>1, <4>2 DEF Goto, Busy
    <3>. QED BY <3>2, <3>3
  <2>2. TypeOK'
    BY <1>2, <1>3, <2>1 DEF SaveNode, TypeOK, ThreadRow
  <2>. QED BY <2>1, <2>2
<1>4. ASSUME Reach(i) PROVE Typed'
  <2>1. thread' \in [Threads -> ThreadRow]
    BY <1>1, <1>4, GotoType DEF Reach, Stages
  <2>2. flag' \in BOOLEAN /\ answered' \subseteq Probes
    BY <1>4 DEF Reach, TypeOK, Busy
  <2>3. TypeOK'
    BY <1>4, <2>1, <2>2 DEF Reach, TypeOK, ThreadRow
  <2>4. Busy'
    <3>1. Goto(i, "find") /\ thread[i].id \in Probes
      BY <1>1, <1>4 DEF Reach, Busy
    <3>2. rows' = rows
      BY <1>4 DEF Reach
    <3>. QED BY <1>1, <3>1, <3>2 DEF Goto, Busy
  <2>. QED BY <2>3, <2>4
<1>8. ASSUME NoRequest(i) PROVE Typed'
  <2>1. rows' = rows /\ Len(rows') >= Len(rows)
    BY <1>1, <1>8 DEF NoRequest
  <2>2. thread' \in [Threads -> ThreadRow] /\ Busy'
    <3>1. CASE thread[i].pass = 1
      <4>1. thread' = [thread EXCEPT ![i].pass = 2]
        BY <1>8, <3>1 DEF NoRequest
      <4>2. [thread[i] EXCEPT !.pass = 2] \in ThreadRow
        BY <1>1 DEF ThreadRow
      <4>3. thread' \in [Threads -> ThreadRow]
        BY <1>1, <4>1, <4>2
      <4>4. \A t \in Threads : /\ thread'[t].at = thread[t].at /\ thread'[t].id = thread[t].id
                               /\ thread'[t].pick = thread[t].pick
        BY <1>1, <4>1 DEF ThreadRow
      <4>. QED BY <2>1, <4>3, <4>4 DEF Busy
    <3>2. CASE thread[i].pass # 1
      BY <1>1, <1>8, <2>1, <3>2, DispatchTypes DEF NoRequest
    <3>. QED BY <3>1, <3>2
  <2>. QED BY <1>8, <2>1, <2>2 DEF NoRequest, TypeOK, ThreadRow
<1>5. ASSUME FindRow(i) PROVE Typed'
  <2>1. PICK k \in 0..Len(rows) :
            thread' = [thread EXCEPT ![i] = [thread[i] EXCEPT !.at = "write", !.pick = k]]
    BY <1>5 DEF FindRow
  <2>2. [thread[i] EXCEPT !.at = "write", !.pick = k] \in ThreadRow
    <3>1. k \in Nat /\ "write" \in Stages /\ thread[i] \in ThreadRow
      BY <1>1, <2>1 DEF Stages
    <3>. QED BY <3>1 DEF ThreadRow
  <2>3. thread' \in [Threads -> ThreadRow]
    BY <1>1, <2>1, <2>2
  <2>4. TypeOK'
    BY <1>5, <2>3 DEF FindRow, TypeOK, ThreadRow
  <2>5. rows' = rows /\ thread[i].id \in Probes
    BY <1>1, <1>5 DEF FindRow, Busy
  <2>6. Busy'
    BY <1>1, <2>1, <2>2, <2>5 DEF Busy, ThreadRow
  <2>. QED BY <2>4, <2>6
<1>6. ASSUME WriteRow(i) PROVE Typed'
  <2>1. thread[i].id \in Probes
    BY <1>1, <1>6 DEF WriteRow, Busy
  <2>2. rows' \in Seq(HistoryRow) /\ Len(rows') >= Len(rows)
    <3>1. CASE thread[i].pick > 0
      <4>1. rows' = [rows EXCEPT ![thread[i].pick].answered = TRUE]
        BY <1>6, <3>1 DEF WriteRow
      <4>2. thread[i].pick \in 1..Len(rows) /\ Len(rows) \in Nat
        BY <1>1, <1>2, <1>6, <3>1 DEF WriteRow, Busy
      <4>3. rows[thread[i].pick] \in HistoryRow
        BY <1>1, <4>2
      <4>4. [rows[thread[i].pick] EXCEPT !.answered = TRUE] \in HistoryRow
        BY <4>3 DEF HistoryRow
      <4>. QED BY <1>1, <4>1, <4>2, <4>4
    <3>2. CASE ~(thread[i].pick > 0)
      <4>1. [id |-> thread[i].id, answered |-> TRUE] \in HistoryRow
        BY <2>1 DEF HistoryRow
      <4>. QED BY <1>1, <1>6, <3>2, <4>1 DEF WriteRow
    <3>. QED BY <3>1, <3>2
  <2>5. \A t \in Threads : thread[t].pick \in 0..Len(rows) => thread[t].pick \in 0..Len(rows')
    BY <1>1, <2>2
  <2>3. CASE thread[i].pass = 2
    <3>1. Dispatch(i)
      BY <1>6, <2>3 DEF WriteRow
    <3>2. thread' \in [Threads -> ThreadRow] /\ Busy'
      BY <2>2, <3>1, DispatchTypes
    <3>3. TypeOK'
      BY <1>6, <2>2, <3>2 DEF WriteRow, TypeOK, ThreadRow, HistoryRow
    <3>. QED BY <3>2, <3>3
  <2>4. CASE thread[i].pass # 2
    <3>1. PICK stage \in {"save", "reach"} :
            thread' = [thread EXCEPT ![i] =
               [thread[i] EXCEPT !.at = stage, !.pass = 2, !.seen = flag]]
      BY <1>6, <2>4 DEF WriteRow
    <3>2. [thread[i] EXCEPT !.at = stage, !.pass = 2, !.seen = flag] \in ThreadRow
      <4>1. stage \in Stages /\ 2 \in 0..2 /\ thread[i] \in ThreadRow
        BY <1>1 DEF Stages
      <4>. QED BY <1>1, <4>1 DEF ThreadRow
    <3>3. thread' \in [Threads -> ThreadRow]
      BY <1>1, <3>1, <3>2
    <3>4. TypeOK'
      BY <1>6, <2>2, <3>3 DEF WriteRow, TypeOK, ThreadRow, HistoryRow
    <3>5. Busy'
      BY <1>1, <2>1, <2>5, <3>1, <3>2 DEF Busy, ThreadRow
    <3>. QED BY <3>4, <3>5
  <2>. QED BY <2>3, <2>4
<1>7. ASSUME Ignore(i) PROVE Typed'
  <2>1. thread' \in [Threads -> ThreadRow]
    BY <1>1, <1>7, IdleType DEF Ignore
  <2>2. TypeOK'
    BY <1>7, <2>1 DEF Ignore, TypeOK, ThreadRow
  <2>3. Busy'
    BY <1>1, <1>7 DEF Ignore, Busy, Idle, Bare
  <2>. QED BY <2>2, <2>3
<1>. QED BY <1>3, <1>4, <1>5, <1>6, <1>7, <1>8 DEF Handle

\* Queuing a probe keeps the types.
LEMMA PublishTyped ==
    ASSUME Typed, NEW t \in Threads, NEW i \in Interfaces, Publish(t, i),
           lock' \in Interfaces \cup {Nobody},
           UNCHANGED <<heard, packets, flag, rows, recorded, answered>>
    PROVE  Typed'
<1>. USE DEF Typed
<1>1. TypeOK'
  BY PublishTypes DEF TypeOK, MsgRow, ThreadRow, UsedRow
<1>2. used.probes \in 0..MaxProbes /\ thread \in [Threads -> ThreadRow]
  BY DEF TypeOK, ThreadRow
<1>3. used.probes + 1 \in Probes
  BY <1>2 DEF Publish, Probes
<1>4. thread'[t].at = "publish" /\ thread'[t].id \in Probes
  BY <1>2, <1>3 DEF Publish
<1>5. \A o \in Threads : o # t => thread'[o] = thread[o]
  BY <1>2 DEF Publish
<1>6. Busy'
  BY <1>4, <1>5 DEF Busy
<1>. QED BY <1>1, <1>6

\* Waiting for and recording a publication keep the types.
LEMMA WaitTypes ==
    ASSUME Typed, NEW t \in Threads, Wait(t)
    PROVE  Typed'
<1>. USE DEF Typed
<1>1. thread \in [Threads -> ThreadRow] /\ rows \in Seq(HistoryRow)
  BY DEF TypeOK, ThreadRow, HistoryRow
<1>2. ASSUME Confirm(t) PROVE Typed'
  <2>1. thread' \in [Threads -> ThreadRow]
    BY <1>1, <1>2, GotoType DEF Confirm, Stages
  <2>2. TypeOK'
    BY <1>2, <2>1 DEF Confirm, TypeOK, ThreadRow
  <2>3. Busy'
    BY <1>1, <1>2 DEF Confirm, Goto, Busy
  <2>. QED BY <2>2, <2>3
<1>3. ASSUME TimeOut(t) PROVE Typed'
  <2>1. TypeOK'
    BY <1>3, FinishTypes DEF TimeOut, TypeOK, ThreadRow
  <2>2. Busy'
    BY <1>1, <1>3 DEF TimeOut, Finish, Busy, Idle, Bare
  <2>. QED BY <2>1, <2>2
<1>4. ASSUME MarkPending(t) PROVE Typed'
  <2>1. thread' \in [Threads -> ThreadRow]
    BY <1>1, <1>4, GotoType DEF MarkPending, Stages
  <2>2. TypeOK'
    BY <1>4, <2>1 DEF MarkPending, TypeOK, ThreadRow
  <2>3. Busy'
    BY <1>1, <1>4 DEF MarkPending, Goto, Busy
  <2>. QED BY <2>2, <2>3
<1>5. ASSUME CreatePending(t) PROVE Typed'
  <2>1. thread[t].id \in Probes /\ thread[t].id \in 0..MaxProbes
    BY <1>5 DEF CreatePending, Busy, Probes
  <2>2. rows' \in Seq(HistoryRow)
    BY <1>1, <1>5, <2>1 DEF CreatePending, HistoryRow
  <2>3. TypeOK'
    BY <1>5, <2>1, <2>2, FinishTypes DEF CreatePending, TypeOK, ThreadRow, HistoryRow
  <2>4. Len(rows') = Len(rows) + 1 /\ Len(rows) \in Nat
    BY <1>1, <1>5 DEF CreatePending
  <2>5. \A o \in Threads : thread[o].pick \in 0..Len(rows) => thread[o].pick \in 0..Len(rows')
    BY <1>1, <2>4
  <2>6. Busy'
    BY <1>1, <1>5, <2>5 DEF CreatePending, Finish, Busy, Idle, Bare
  <2>. QED BY <2>3, <2>6
<1>. QED BY <1>2, <1>3, <1>4, <1>5 DEF Wait

\* A death of the worker keeps the types.
LEMMA CrashTypes ==
    ASSUME Typed, Crash
    PROVE  Typed'
<1>. USE DEF Typed
<1>1. msg \in [Probes -> MsgRow] /\ used \in UsedRow
  BY DEF TypeOK, MsgRow, UsedRow
<1>2. \A m \in Probes : [msg[m] EXCEPT !.state = "lost"] \in MsgRow
  BY <1>1 DEF MsgRow
<1>3. msg' \in [Probes -> MsgRow]
  BY <1>1, <1>2 DEF Crash
<1>4. used' \in UsedRow
  <2>1. used.crashes + 1 \in Nat
    BY <1>1 DEF UsedRow
  <2>. QED BY <1>1, <2>1 DEF Crash, UsedRow
<1>5. thread' \in [Threads -> ThreadRow]
  BY IdleType DEF Crash
<1>6. TypeOK'
  BY <1>3, <1>4, <1>5 DEF Crash, TypeOK, MsgRow, UsedRow, ThreadRow
<1>7. Busy'
  BY DEF Crash, Busy, Idle, Bare
<1>. QED BY <1>6, <1>7

\* The types of ProbePath hold in every reachable state.
THEOREM TypedAlways == Spec => []Typed
<1>1. Init => Typed
  <2>1. ASSUME Init PROVE Typed
    <3>1. /\ msg \in [Probes -> MsgRow] /\ thread \in [Threads -> ThreadRow]
          /\ rows \in Seq(HistoryRow) /\ used \in UsedRow /\ recorded \in 0..MaxProbes
      BY <2>1, IdleType DEF Init, MsgRow, UsedRow
    <3>2. TypeOK
      BY <2>1, <3>1 DEF Init, TypeOK, MsgRow, ThreadRow, HistoryRow, UsedRow
    <3>3. Busy
      BY <2>1 DEF Init, Busy, Idle, Bare
    <3>. QED BY <3>2, <3>3 DEF Typed
  <2>. QED BY <2>1
<1>2. Typed /\ [Next]_vars => Typed'
  <2>. SUFFICES ASSUME Typed, [Next]_vars PROVE Typed'
    OBVIOUS
  <2>1. ASSUME NEW i \in Interfaces, TaskProbe(i) PROVE Typed'
    BY <2>1, PublishTyped DEF TaskProbe, Threads, Typed, TypeOK
  <2>2. ASSUME NEW i \in Interfaces, NEW j \in Interfaces, Inject(i, j) PROVE Typed'
    BY <2>2, PublishTyped DEF Inject, Threads
  <2>3. CASE UNCHANGED vars
    BY <2>3 DEF vars, Typed, TypeOK, Busy
  <2>. QED BY <2>1, <2>2, <2>3, ConnectionTypes, HandleTypes, WaitTypes, CrashTypes DEF Next
<1>. QED BY <1>1, <1>2, PTL DEF Spec

\* Every variable of ProbePath keeps its type, for any interfaces and bounds.
THEOREM TypeCorrect == Spec => []TypeOK
<1>1. Typed => TypeOK
  BY DEF Typed
<1>. QED BY <1>1, TypedAlways, PTL

------------------------------------------------------------------------------
(* A thread cannot confirm its own publication *)

\* The probe of a thread that publishes through its own interface does not leave
\* the queue; and no thread records a publication of its own.
Stuck ==
    \A i \in Interfaces :
        /\ thread[i].at = "publish" /\ msg[thread[i].id].via = i
              => msg[thread[i].id].state = "queued"
        /\ thread[i].at \in {"mark", "create"} => msg[thread[i].id].via # i

\* The probes of threads, and those on their way, have been counted.
Counted ==
    /\ \A t \in Threads :
          thread[t].at \in {"publish", "mark", "create"} => thread[t].id <= used.probes
    /\ \A m \in Probes : msg[m].via # Nobody => m <= used.probes

Inv == Typed /\ Stuck /\ Counted

\* Queuing another probe leaves the others where they are.
LEMMA PublishStuck ==
    ASSUME Inv, NEW t \in Threads, NEW i \in Interfaces, Publish(t, i)
    PROVE  Stuck' /\ Counted'
<1>. DEFINE m == used.probes + 1
<1>1. /\ thread \in [Threads -> ThreadRow] /\ msg \in [Probes -> MsgRow]
      /\ used.probes \in 0..MaxProbes /\ used.probes < MaxProbes /\ used \in UsedRow
  BY DEF Inv, Typed, TypeOK, ThreadRow, MsgRow, UsedRow, Publish
<1>2. m \in Probes /\ \A k \in Probes : k <= used.probes => k # m
  BY <1>1 DEF Probes
<1>3. used'.probes = m /\ \A k \in 0..MaxProbes : k <= used.probes => k <= m
  BY <1>1 DEF Publish, UsedRow
<1>4. /\ msg'[m] = [via |-> i, state |-> "queued"]
      /\ \A k \in Probes : k # m => msg'[k] = msg[k]
      /\ thread'[t].at = "publish" /\ thread'[t].id = m
      /\ \A o \in Threads : o # t => thread'[o] = thread[o]
  BY <1>1, <1>2 DEF Publish
<1>5. ASSUME NEW o \in Threads, o # t, thread[o].at \in {"publish", "mark", "create"}
      PROVE  /\ thread[o].id \in Probes /\ thread[o].id <= used.probes
             /\ msg'[thread[o].id] = msg[thread[o].id]
  BY <1>2, <1>4, <1>5 DEF Inv, Typed, Busy, Counted
<1>6. Stuck'
  <2>1. ASSUME NEW j \in Interfaces PROVE
          /\ thread'[j].at = "publish" /\ msg'[thread'[j].id].via = j
                => msg'[thread'[j].id].state = "queued"
          /\ thread'[j].at \in {"mark", "create"} => msg'[thread'[j].id].via # j
    <3>1. CASE j = t
      BY <1>4, <3>1
    <3>2. CASE j # t
      <4>1. j \in Threads /\ thread'[j] = thread[j]
        BY <1>4, <3>2 DEF Threads
      <4>. QED BY <1>5, <3>2, <4>1 DEF Inv, Stuck
    <3>. QED BY <3>1, <3>2
  <2>. QED BY <2>1 DEF Stuck
<1>7. Counted'
  <2>1. ASSUME NEW o \in Threads, thread'[o].at \in {"publish", "mark", "create"}
        PROVE  thread'[o].id <= m
    <3>1. CASE o = t
      BY <1>1, <1>4, <3>1
    <3>2. CASE o # t
      <4>1. thread[o].id \in Probes /\ thread[o].id <= used.probes /\ thread'[o] = thread[o]
        BY <1>4, <1>5, <2>1, <3>2
      <4>. QED BY <1>1, <4>1 DEF Probes
    <3>. QED BY <3>1, <3>2
  <2>2. ASSUME NEW k \in Probes, msg'[k].via # Nobody PROVE k <= m
    <3>1. CASE k # m
      <4>1. k <= used.probes
        BY <1>4, <2>2, <3>1 DEF Inv, Counted
      <4>. QED BY <1>1, <4>1 DEF Probes
    <3>2. CASE k = m
      BY <1>1, <3>2
    <3>. QED BY <3>1, <3>2
  <2>. QED BY <1>3, <2>1, <2>2 DEF Counted
<1>. QED BY <1>6, <1>7

\* A message leaves, or is acknowledged, only while its thread is in its loop.
LEMMA TransmitStuck ==
    ASSUME Inv, NEW i \in Interfaces, Transmit(i) \/ ReadAck(i)
    PROVE  Stuck' /\ Counted'
<1>1. msg \in [Probes -> MsgRow]
  BY DEF Inv, Typed, TypeOK, MsgRow
<1>2. PICK m \in Probes, state \in {"sent", "acked"} :
        msg[m].via = i /\ msg' = [msg EXCEPT ![m].state = state]
  BY DEF Transmit, ReadAck
<1>3. thread' = thread /\ used' = used /\ thread[i].at = "idle"
  BY DEF Transmit, ReadAck, InLoop
<1>4. /\ \A k \in Probes : msg'[k].via = msg[k].via
      /\ \A k \in Probes : k # m => msg'[k] = msg[k]
  BY <1>1, <1>2 DEF MsgRow
<1>5. Stuck'
  <2>1. ASSUME NEW j \in Interfaces PROVE
          /\ thread[j].at = "publish" /\ msg'[thread[j].id].via = j
                => msg'[thread[j].id].state = "queued"
          /\ thread[j].at \in {"mark", "create"} => msg'[thread[j].id].via # j
    <3>1. j \in Threads /\ (thread[j].at \in {"publish", "mark", "create"} => thread[j].id \in Probes)
      BY DEF Inv, Typed, Busy, Threads
    <3>2. CASE j = i
      BY <1>3, <3>2
    <3>3. CASE j # i
      BY <1>2, <1>4, <3>1, <3>3 DEF Inv, Stuck
    <3>. QED BY <3>2, <3>3
  <2>. QED BY <1>3, <2>1 DEF Stuck
<1>6. Counted'
  BY <1>3, <1>4 DEF Inv, Counted
<1>. QED BY <1>5, <1>6

\* Threads that are not publishing may do what they like, and those that are may
\* finish or see the acknowledgement.
LEMMA OtherStuck ==
    ASSUME Inv, NEW t \in Threads, thread' \in [Threads -> ThreadRow],
           msg' = msg, used'.probes = used.probes,
           \A o \in Threads : o # t => thread'[o] = thread[o],
           thread'[t].at \in {"publish", "mark", "create"} =>
              /\ thread[t].at \in {"publish", "mark", "create"}
              /\ thread'[t].id = thread[t].id /\ thread'[t].at # "publish"
              /\ thread[t].at = "publish" => msg[thread[t].id].state = "acked"
    PROVE  Stuck' /\ Counted'
<1>1. Stuck'
  <2>1. ASSUME NEW j \in Interfaces PROVE
          /\ thread'[j].at = "publish" /\ msg[thread'[j].id].via = j
                => msg[thread'[j].id].state = "queued"
          /\ thread'[j].at \in {"mark", "create"} => msg[thread'[j].id].via # j
    <3>1. j \in Threads
      BY DEF Threads
    <3>2. CASE j = t
      BY <3>1, <3>2 DEF Inv, Stuck
    <3>3. CASE j # t
      BY <3>1, <3>3 DEF Inv, Stuck
    <3>. QED BY <3>2, <3>3
  <2>. QED BY <2>1 DEF Stuck
<1>2. Counted'
  BY DEF Inv, Counted
<1>. QED BY <1>1, <1>2

\* Handling a packet publishes nothing.
LEMMA HandleStuck ==
    ASSUME Inv, NEW i \in Interfaces, Handle(i)
    PROVE  Stuck' /\ Counted'
<1>1. Typed' /\ i \in Threads
  BY HandleTypes DEF Inv, Threads
<1>2. thread \in [Threads -> ThreadRow] /\ thread' \in [Threads -> ThreadRow]
  BY <1>1 DEF Inv, Typed, TypeOK, ThreadRow
<1>3. msg' = msg /\ used' = used /\ \A o \in Threads : o # i => thread'[o] = thread[o]
  BY <1>2 DEF Handle, SaveNode, Reach, NoRequest, FindRow, WriteRow, Ignore, Goto, Dispatch
<1>5. Dispatch(i) => thread'[i].at = "dispatch"
  BY <1>1, <1>2 DEF Dispatch, Idle, Bare
<1>4. thread'[i].at \notin {"publish", "mark", "create"}
  <2>1. CASE SaveNode(i)
    BY <1>1, <1>2, <2>1, <1>5 DEF SaveNode, Goto, ThreadRow
  <2>2. CASE Reach(i)
    BY <1>1, <1>2, <2>2 DEF Reach, Goto, ThreadRow
  <2>3. CASE FindRow(i)
    BY <1>1, <1>2, <2>3 DEF FindRow, ThreadRow
  <2>4. CASE WriteRow(i)
    BY <1>1, <1>2, <2>4, <1>5 DEF WriteRow, ThreadRow
  <2>5. CASE Ignore(i)
    BY <1>1, <1>2, <2>5 DEF Ignore, Idle, Bare
  <2>6. CASE NoRequest(i)
    BY <1>1, <1>2, <2>6, <1>5 DEF NoRequest, ThreadRow
  <2>. QED BY <2>1, <2>2, <2>3, <2>4, <2>5, <2>6 DEF Handle
<1>. QED BY <1>1, <1>2, <1>3, <1>4, OtherStuck

\* A thread that waits records its probe only when it has seen the
\* acknowledgement.
LEMMA WaitStuck ==
    ASSUME Inv, NEW t \in Threads, Wait(t)
    PROVE  Stuck' /\ Counted'
<1>1. Typed'
  BY WaitTypes DEF Inv
<1>2. thread \in [Threads -> ThreadRow] /\ thread' \in [Threads -> ThreadRow]
  BY <1>1 DEF Inv, Typed, TypeOK, ThreadRow
<1>3. msg' = msg /\ used' = used /\ \A o \in Threads : o # t => thread'[o] = thread[o]
  BY <1>2 DEF Wait, Confirm, TimeOut, MarkPending, CreatePending, Finish, Goto
<1>4. CASE Confirm(t)
  <2>1. thread'[t].at = "mark" /\ thread'[t].id = thread[t].id
    BY <1>2, <1>4 DEF Confirm, Goto, ThreadRow
  <2>. QED BY <1>2, <1>3, <1>4, <2>1, OtherStuck DEF Confirm
<1>5. CASE MarkPending(t)
  <2>1. thread'[t].at = "create" /\ thread'[t].id = thread[t].id
    BY <1>2, <1>5 DEF MarkPending, Goto, ThreadRow
  <2>. QED BY <1>2, <1>3, <1>5, <2>1, OtherStuck DEF MarkPending
<1>6. CASE TimeOut(t) \/ CreatePending(t)
  <2>1. thread'[t].at = "idle"
    BY <1>2, <1>6 DEF TimeOut, CreatePending, Finish, Idle, Bare
  <2>. QED BY <1>2, <1>3, <2>1, OtherStuck
<1>. QED BY <1>4, <1>5, <1>6 DEF Wait

\* Reading a packet publishes nothing.
LEMMA ReadStuck ==
    ASSUME Inv, NEW i \in Interfaces, Connection(i)
    PROVE  Stuck' /\ Counted'
<1>1. Typed' /\ i \in Threads
  BY ConnectionTypes DEF Inv, Threads
<1>2. thread \in [Threads -> ThreadRow] /\ thread' \in [Threads -> ThreadRow]
  BY <1>1 DEF Inv, Typed, TypeOK, ThreadRow
<1>3. CASE Transmit(i) \/ ReadAck(i)
  BY <1>3, TransmitStuck
<1>4. ASSUME NEW m \in Probes, ReadEcho(i, m) PROVE Stuck' /\ Counted'
  <2>1. thread'[i].at = "ignored" /\ \A o \in Threads : o # i => thread'[o] = thread[o]
    BY <1>1, <1>2, <1>4 DEF ReadEcho, Goto, ThreadRow
  <2>. QED BY <1>1, <1>2, <1>4, <2>1, OtherStuck DEF ReadEcho
<1>5. ASSUME NEW m, Read(i, m) PROVE
        thread'[i].at = "save" /\ \A o \in Threads : o # i => thread'[o] = thread[o]
  BY <1>1, <1>2, <1>5 DEF Read
<1>6. ASSUME NEW m \in Probes, ReadAnswer(i, m) PROVE Stuck' /\ Counted'
  <2>1. thread'[i].at = "save" /\ \A o \in Threads : o # i => thread'[o] = thread[o]
    BY <1>5, <1>6 DEF ReadAnswer
  <2>. QED BY <1>1, <1>2, <1>6, <2>1, OtherStuck DEF ReadAnswer
<1>7. CASE ReadOther(i)
  <2>1. thread'[i].at = "save" /\ \A o \in Threads : o # i => thread'[o] = thread[o]
    BY <1>5, <1>7 DEF ReadOther
  <2>2. used'.probes = used.probes
    BY <1>7 DEF ReadOther, Inv, Typed, TypeOK
  <2>. QED BY <1>1, <1>2, <1>7, <2>1, <2>2, OtherStuck DEF ReadOther
<1>. QED BY <1>3, <1>4, <1>6, <1>7 DEF Connection

\* The invariant holds always.
THEOREM InvAlways == Spec => []Inv
<1>1. Init => Stuck /\ Counted
  BY DEF Init, Stuck, Counted, Idle, Bare, Threads
<1>2. Typed /\ Typed' /\ Stuck /\ Counted /\ [Next]_vars => Stuck' /\ Counted'
  <2>. SUFFICES ASSUME Inv, [Next]_vars PROVE Stuck' /\ Counted'
    BY DEF Inv
  <2>1. ASSUME NEW i \in Interfaces, TaskProbe(i) PROVE Stuck' /\ Counted'
    BY <2>1, PublishStuck DEF TaskProbe, Threads
  <2>2. ASSUME NEW i \in Interfaces, NEW j \in Interfaces, Inject(i, j)
        PROVE  Stuck' /\ Counted'
    BY <2>2, PublishStuck DEF Inject, Threads
  <2>3. ASSUME Crash PROVE Stuck' /\ Counted'
    <3>1. \A i \in Threads : thread'[i].at = "idle"
      BY <2>3 DEF Crash, Idle, Bare
    <3>2. msg \in [Probes -> MsgRow] /\ used \in UsedRow
      BY DEF Inv, Typed, TypeOK, MsgRow, UsedRow
    <3>3. used'.probes = used.probes /\ \A m \in Probes : msg'[m].via = msg[m].via
      BY <2>3, <3>2 DEF Crash, MsgRow, UsedRow
    <3>. QED BY <3>1, <3>3 DEF Inv, Stuck, Counted, Threads
  <2>4. CASE UNCHANGED vars
    BY <2>4 DEF vars, Inv, Stuck, Counted
  <2>. QED BY <2>1, <2>2, <2>3, <2>4, ReadStuck, HandleStuck, WaitStuck DEF Next
<1>3. Typed /\ Stuck /\ Counted <=> Inv
  BY DEF Inv
<1>. QED BY <1>1, <1>2, <1>3, TypedAlways, PTL DEF Spec

\* A traceroute injected by the thread of its own interface is never confirmed,
\* whatever the other threads, the network and the clients do.
THEOREM NeverConfirmed == Spec => []OwnThreadUnconfirmed
<1>1. Inv => OwnThreadUnconfirmed
  BY DEF Inv, Stuck, OwnThreadUnconfirmed
<1>. QED BY <1>1, InvAlways, PTL

------------------------------------------------------------------------------
(***************************************************************************)
(* Rows of a probe.  The publisher may append one row and each interface   *)
(* one.  Spent(m) are the threads that have had their turn, or have given  *)
(* it up: an interface that has heard the answer and is not about to       *)
(* append, and the main thread, in the name of whoever published the       *)
(* probe, once that one is through.  A thread is about to append only when *)
(* it found no row of the probe, so each row was paid for by a thread that *)
(* is spent now.                                                           *)
(***************************************************************************)

Publishing == {"publish", "mark", "create"}

RowsOf(m) == {k \in DOMAIN rows : rows[k].id = m}

Appending(i, m) == thread[i].at = "write" /\ thread[i].pick = 0 /\ thread[i].id = m

Out(m) == \E t \in Threads : thread[t].at \in Publishing /\ thread[t].id = m

Spent(m) ==
    {i \in Interfaces : <<"answer", m, i>> \in heard /\ ~Appending(i, m)}
    \cup {t \in {Task} : m <= used.probes /\ ~Out(m)}

Looking(i) == \/ thread[i].at \in {"reach", "find", "write"}
              \/ thread[i].at = "save" /\ thread[i].id # 0

\* No two threads publish the same probe.
Sole == \A t, u \in Threads :
    /\ thread[t].at \in Publishing /\ thread[u].at \in Publishing
    /\ thread[t].id = thread[u].id
    => t = u

\* A thread that handles an answer has heard it.
Told == \A i \in Interfaces : Looking(i) => <<"answer", thread[i].id, i>> \in heard

Slots == \A m \in Probes : Cardinality(RowsOf(m)) <= Cardinality(Spent(m))

Fits == Sole /\ Told /\ Slots

\* The sets that are counted are finite, and there are few threads.
Countable == \A m \in Probes :
    /\ IsFiniteSet(RowsOf(m)) /\ Cardinality(RowsOf(m)) \in Nat
    /\ IsFiniteSet(Spent(m)) /\ Cardinality(Spent(m)) \in Nat
    /\ Cardinality(Spent(m)) <= 1 + Cardinality(Interfaces)

LEMMA AlwaysCountable == Typed => Countable
<1>. SUFFICES ASSUME Typed, NEW m \in Probes
              PROVE  /\ IsFiniteSet(RowsOf(m)) /\ Cardinality(RowsOf(m)) \in Nat
                     /\ IsFiniteSet(Spent(m)) /\ Cardinality(Spent(m)) \in Nat
                     /\ Cardinality(Spent(m)) <= 1 + Cardinality(Interfaces)
  BY DEF Countable
<1>1. Len(rows) \in Nat /\ DOMAIN rows = 1..Len(rows)
  BY DEF Typed, TypeOK
<1>2. IsFiniteSet(RowsOf(m))
  <2>1. IsFiniteSet(1..Len(rows))
    BY <1>1, FS_Interval
  <2>2. RowsOf(m) \in SUBSET (1..Len(rows))
    BY <1>1 DEF RowsOf
  <2>. QED BY <2>1, <2>2, FS_Subset
<1>3. IsFiniteSet(Interfaces \cup {Task})
      /\ Cardinality(Interfaces \cup {Task}) = Cardinality(Interfaces) + 1
  BY InterfacesAssumption, FS_AddElement
<1>4. Spent(m) \in SUBSET (Interfaces \cup {Task})
  BY DEF Spent
<1>5. IsFiniteSet(Spent(m)) /\ Cardinality(Spent(m)) <= Cardinality(Interfaces) + 1
  BY <1>3, <1>4, FS_Subset
<1>6. Cardinality(Interfaces) \in Nat
  BY InterfacesAssumption, FS_CardinalityType
<1>. QED BY <1>2, <1>5, <1>6, FS_CardinalityType

\* Rows that stay are paid for as long as no thread takes back its turn.
LEMMA SlotsKept ==
    ASSUME Countable, Countable', Slots,
           \A m \in Probes : RowsOf(m)' = RowsOf(m),
           \A m \in Probes : RowsOf(m) # {} => Spent(m) \subseteq Spent(m)'
    PROVE  Slots'
<1>1. SUFFICES ASSUME NEW m \in Probes
               PROVE  Cardinality(RowsOf(m)') <= Cardinality(Spent(m)')
  BY DEF Slots
<1>2. Cardinality(Spent(m)) \in Nat /\ Cardinality(RowsOf(m)) \in Nat
  BY DEF Countable
<1>3. IsFiniteSet(Spent(m)') /\ Cardinality(Spent(m)') \in Nat
  BY DEF Countable
<1>4. CASE RowsOf(m) = {}
  <2>1. Cardinality(RowsOf(m)') = 0
    BY <1>4, FS_EmptySet
  <2>. QED BY <1>3, <2>1
<1>5. CASE RowsOf(m) # {}
  <2>1. Spent(m) \in SUBSET (Spent(m)')
    BY <1>5
  <2>2. Cardinality(Spent(m)) <= Cardinality(Spent(m)')
    BY <1>3, <2>1, FS_Subset
  <2>3. Cardinality(RowsOf(m)) <= Cardinality(Spent(m)) /\ RowsOf(m)' = RowsOf(m)
    BY DEF Slots
  <2>. QED BY <1>2, <1>3, <2>2, <2>3
<1>. QED BY <1>4, <1>5

\* A row that is appended is paid for by the thread that appends it.
LEMMA SlotsAdded ==
    ASSUME Countable, Countable', Slots, NEW m \in Probes, NEW t,
           RowsOf(m)' \subseteq RowsOf(m) \cup {Len(rows) + 1},
           \A k \in Probes : k # m => RowsOf(k)' = RowsOf(k),
           \A k \in Probes : Spent(k) \subseteq Spent(k)',
           t \notin Spent(m), t \in Spent(m)'
    PROVE  Slots'
<1>1. SUFFICES ASSUME NEW k \in Probes
               PROVE  Cardinality(RowsOf(k)') <= Cardinality(Spent(k)')
  BY DEF Slots
<1>2. /\ IsFiniteSet(RowsOf(k)) /\ Cardinality(RowsOf(k)) \in Nat
      /\ IsFiniteSet(Spent(k)) /\ Cardinality(Spent(k)) \in Nat
      /\ IsFiniteSet(RowsOf(k)') /\ Cardinality(RowsOf(k)') \in Nat
      /\ IsFiniteSet(Spent(k)') /\ Cardinality(Spent(k)') \in Nat
  BY DEF Countable
<1>3. Cardinality(RowsOf(k)) <= Cardinality(Spent(k))
  BY DEF Slots
<1>4. CASE k # m
  <2>1. Spent(k) \in SUBSET (Spent(k)') /\ RowsOf(k)' = RowsOf(k)
    BY <1>4
  <2>2. Cardinality(Spent(k)) <= Cardinality(Spent(k)')
    BY <1>2, <2>1, FS_Subset
  <2>. QED BY <1>2, <1>3, <2>1, <2>2
<1>5. CASE k = m
  <2>. DEFINE R == RowsOf(m)  S == Spent(m)  n == Len(rows) + 1
  <2>1. IsFiniteSet(R \cup {n}) /\ Cardinality(R \cup {n}) <= Cardinality(R) + 1
    <3>1. IsFiniteSet(R) /\ Cardinality(R) \in Nat
      BY <1>2, <1>5
    <3>. HIDE DEF R
    <3>2. /\ IsFiniteSet(R \cup {n})
          /\ Cardinality(R \cup {n}) = IF n \in R THEN Cardinality(R) ELSE Cardinality(R) + 1
      BY <3>1, FS_AddElement
    <3>. QED BY <3>1, <3>2
  <2>2. RowsOf(m)' \in SUBSET (R \cup {n})
    OBVIOUS
  <2>3. Cardinality(RowsOf(m)') <= Cardinality(R) + 1
    <3>1. Cardinality(RowsOf(m)') <= Cardinality(R \cup {n}) /\ Cardinality(R \cup {n}) \in Nat
      BY <2>1, <2>2, FS_Subset, FS_CardinalityType
    <3>. QED BY <1>2, <1>5, <2>1, <3>1
  <2>4. S \cup {t} \in SUBSET (Spent(m)')
    OBVIOUS
  <2>5. IsFiniteSet(S \cup {t}) /\ Cardinality(S \cup {t}) = Cardinality(S) + 1
    BY <1>2, <1>5, FS_AddElement
  <2>6. Cardinality(S) + 1 <= Cardinality(Spent(m)')
    BY <1>2, <1>5, <2>4, <2>5, FS_Subset
  <2>. QED BY <1>2, <1>3, <1>5, <2>3, <2>6
<1>. QED BY <1>4, <1>5

\* Thread t goes on without publishing a probe.
LEMMA TurnsKept ==
    ASSUME Fits, NEW t \in Threads,
           \A o \in Threads : o # t => thread'[o] = thread[o],
           heard \subseteq heard', used'.probes = used.probes,
           thread'[t].at \in Publishing =>
              thread[t].at \in Publishing /\ thread'[t].id = thread[t].id,
           Looking(t)' => <<"answer", thread'[t].id, t>> \in heard'
    PROVE  /\ Sole' /\ Told'
           /\ \A m \in Probes : (Appending(t, m)' => Appending(t, m))
                                  => Spent(m) \subseteq Spent(m)'
<1>1. Sole'
  BY DEF Fits, Sole
<1>2. Told'
  <2>1. ASSUME NEW i \in Interfaces, Looking(i)'
        PROVE  <<"answer", thread'[i].id, i>> \in heard'
    <3>1. CASE i = t
      BY <2>1, <3>1
    <3>2. CASE i # t
      <4>1. thread'[i] = thread[i]
        BY <3>2 DEF Threads
      <4>2. Looking(i)
        BY <2>1, <4>1 DEF Looking
      <4>. QED BY <4>1, <4>2 DEF Fits, Told
    <3>. QED BY <3>1, <3>2
  <2>. QED BY <2>1 DEF Told
<1>3. ASSUME NEW m \in Probes, Appending(t, m)' => Appending(t, m)
      PROVE  Spent(m) \subseteq Spent(m)'
  <2>1. ASSUME NEW i \in Interfaces, Appending(i, m)' PROVE Appending(i, m)
    <3>1. CASE i = t
      BY <1>3, <2>1, <3>1
    <3>2. CASE i # t
      BY <2>1, <3>2 DEF Threads, Appending
    <3>. QED BY <3>1, <3>2
  <2>2. Out(m)' => Out(m)
    BY DEF Out
  <2>. QED BY <2>1, <2>2 DEF Spent
<1>. QED BY <1>1, <1>2, <1>3

\* ... and without appending a row.
LEMMA FitsKept ==
    ASSUME Countable, Countable', Fits, NEW t \in Threads,
           \A o \in Threads : o # t => thread'[o] = thread[o],
           heard \subseteq heard', used'.probes = used.probes,
           thread'[t].at \in Publishing =>
              thread[t].at \in Publishing /\ thread'[t].id = thread[t].id,
           Looking(t)' => <<"answer", thread'[t].id, t>> \in heard',
           \A m \in Probes : RowsOf(m)' = RowsOf(m),
           \A m \in Probes : Appending(t, m)' => Appending(t, m) \/ RowsOf(m) = {}
    PROVE  Fits'
<1>1. Sole' /\ Told'
  BY TurnsKept
<1>2. \A m \in Probes : RowsOf(m) # {} => Spent(m) \subseteq Spent(m)'
  BY TurnsKept
<1>3. Slots'
  BY <1>2, SlotsKept DEF Fits
<1>. QED BY <1>1, <1>3 DEF Fits

\* A row that is appended is one more row of its probe.
LEMMA AppendedRows ==
    ASSUME NEW m \in Probes, NEW a \in BOOLEAN, rows \in Seq(HistoryRow),
           rows' = Append(rows, [id |-> m, answered |-> a])
    PROVE  /\ RowsOf(m)' \subseteq RowsOf(m) \cup {Len(rows) + 1}
           /\ \A k \in Probes : k # m => RowsOf(k)' = RowsOf(k)
<1>1. /\ Len(rows) \in Nat /\ DOMAIN rows = 1..Len(rows)
      /\ DOMAIN rows' = 1..(Len(rows) + 1)
      /\ rows'[Len(rows) + 1].id = m
      /\ \A k \in DOMAIN rows : rows'[k] = rows[k]
  BY DEF HistoryRow
<1>2. \A k \in DOMAIN rows' : k \in DOMAIN rows \/ k = Len(rows) + 1
  BY <1>1
<1>3. DOMAIN rows \subseteq DOMAIN rows'
  BY <1>1
<1>. QED BY <1>1, <1>2, <1>3 DEF RowsOf

\* What the connection delivers: an answer is heard before it is handled.
LEMMA ConnectionFits ==
    ASSUME Inv, Inv', Countable, Countable', Fits, NEW i \in Interfaces, Connection(i)
    PROVE  Fits'
<1>1. /\ i \in Threads /\ thread \in [Threads -> ThreadRow] /\ thread' \in [Threads -> ThreadRow]
      /\ used \in UsedRow
  BY DEF Inv, Typed, TypeOK, ThreadRow, UsedRow, Threads
<1>2. rows' = rows /\ thread[i].at = "idle"
  BY DEF Connection, Transmit, ReadAck, ReadEcho, ReadAnswer, ReadOther, Read, InLoop
<1>3. \A m \in Probes : RowsOf(m)' = RowsOf(m)
  BY <1>2 DEF RowsOf
<1>4. CASE Transmit(i) \/ ReadAck(i)
  <2>1. thread' = thread /\ heard' = heard /\ used' = used
    BY <1>4 DEF Transmit, ReadAck
  <2>. QED BY <1>1, <1>2, <1>3, <2>1, FitsKept DEF Looking, Publishing, Appending
<1>5. ASSUME NEW m \in Probes, ReadEcho(i, m) PROVE Fits'
  <2>1. thread'[i].at = "ignored" /\ \A o \in Threads : o # i => thread'[o] = thread[o]
    BY <1>1, <1>5 DEF ReadEcho, Goto, ThreadRow
  <2>2. heard \subseteq heard' /\ used' = used
    BY <1>5 DEF ReadEcho
  <2>. QED BY <1>1, <1>3, <2>1, <2>2, FitsKept DEF Looking, Publishing, Appending
<1>6. ASSUME NEW m, Read(i, m) PROVE
        /\ thread'[i].at = "save" /\ thread'[i].id = m
        /\ \A o \in Threads : o # i => thread'[o] = thread[o]
  BY <1>1, <1>6 DEF Read
<1>7. ASSUME NEW m \in Probes, ReadAnswer(i, m) PROVE Fits'
  <2>1. /\ thread'[i].at = "save" /\ thread'[i].id = m
        /\ \A o \in Threads : o # i => thread'[o] = thread[o]
    BY <1>6, <1>7 DEF ReadAnswer
  <2>2. heard \subseteq heard' /\ <<"answer", m, i>> \in heard' /\ used' = used
    BY <1>7 DEF ReadAnswer
  <2>. QED BY <1>1, <1>3, <2>1, <2>2, FitsKept DEF Looking, Publishing, Appending
<1>8. CASE ReadOther(i)
  <2>1. /\ thread'[i].at = "save" /\ thread'[i].id = 0
        /\ \A o \in Threads : o # i => thread'[o] = thread[o]
    BY <1>6, <1>8 DEF ReadOther
  <2>2. heard' = heard /\ used'.probes = used.probes
    BY <1>1, <1>8 DEF ReadOther, UsedRow
  <2>. QED BY <1>1, <1>3, <2>1, <2>2, FitsKept DEF Looking, Publishing, Appending
<1>. QED BY <1>4, <1>5, <1>7, <1>8 DEF Connection

\* A thread that finds no row of the probe appends one, and that was its turn.
LEMMA AppendFits ==
    ASSUME Inv, Countable, Countable', Fits, NEW i \in Interfaces, WriteRow(i),
           thread[i].pick = 0
    PROVE  Fits'
<1>1. /\ i \in Threads /\ thread \in [Threads -> ThreadRow]
      /\ rows \in Seq(HistoryRow) /\ thread[i].id \in Probes /\ i # Task
  BY DEF Inv, Typed, TypeOK, Busy, ThreadRow, HistoryRow, Threads, WriteRow
<1>. PICK m \in Probes : m = thread[i].id
  BY <1>1
<1>2. /\ thread[i].at = "write" /\ heard' = heard /\ used' = used
      /\ rows' = Append(rows, [id |-> m, answered |-> TRUE])
      /\ \A o \in Threads : o # i => thread'[o] = thread[o]
  BY <1>1 DEF WriteRow, Dispatch
<1>3. /\ thread'[i].at \in {"save", "reach", "dispatch"}
      /\ thread'[i].at # "dispatch" => thread'[i].id = m
  <2>1. CASE thread[i].pass = 2
    BY <1>1, <2>1 DEF WriteRow, Dispatch, Bare
  <2>2. CASE thread[i].pass # 2
    BY <1>1, <2>2 DEF WriteRow, ThreadRow
  <2>. QED BY <2>1, <2>2
<1>4. <<"answer", m, i>> \in heard
  BY <1>2 DEF Fits, Told, Looking
<1>5. /\ Sole' /\ Told'
      /\ \A k \in Probes : Spent(k) \subseteq Spent(k)'
  BY <1>1, <1>2, <1>3, <1>4, TurnsKept DEF Looking, Publishing, Appending
<1>6. i \notin Spent(m) /\ i \in Spent(m)'
  BY <1>1, <1>2, <1>3, <1>4 DEF Spent, Appending
<1>7. /\ RowsOf(m)' \subseteq RowsOf(m) \cup {Len(rows) + 1}
      /\ \A k \in Probes : k # m => RowsOf(k)' = RowsOf(k)
  BY <1>1, <1>2, AppendedRows
<1>8. Slots'
  BY <1>1, <1>5, <1>6, <1>7, SlotsAdded DEF Fits
<1>. QED BY <1>5, <1>8 DEF Fits

\* Handling a packet: a thread looks for rows only of the probe whose answer it
\* has heard, and sets out to append one only if there is none.
LEMMA HandleFits ==
    ASSUME Inv, Inv', Countable, Countable', Fits, NEW i \in Interfaces, Handle(i)
    PROVE  Fits'
<1>1. /\ i \in Threads /\ thread \in [Threads -> ThreadRow] /\ thread' \in [Threads -> ThreadRow]
      /\ rows \in Seq(HistoryRow)
  BY DEF Inv, Typed, TypeOK, ThreadRow, HistoryRow, Threads
<1>2. heard' = heard /\ used' = used /\ \A o \in Threads : o # i => thread'[o] = thread[o]
  BY <1>1 DEF Handle, SaveNode, Reach, NoRequest, FindRow, WriteRow, Ignore, Goto, Dispatch
<1>3. CASE thread'[i].at \in {"dispatch", "idle"} /\ rows' = rows
  BY <1>1, <1>2, <1>3, FitsKept DEF Looking, Publishing, Appending, RowsOf
<1>4. CASE /\ Looking(i) /\ thread'[i].id = thread[i].id
           /\ thread'[i].at \in {"save", "reach", "find"}
           /\ \A m \in Probes : RowsOf(m)' = RowsOf(m)
  <2>1. <<"answer", thread[i].id, i>> \in heard
    BY <1>4 DEF Fits, Told
  <2>. QED BY <1>1, <1>2, <1>4, <2>1, FitsKept DEF Publishing, Appending
<1>5. CASE SaveNode(i)
  <2>1. rows' = rows /\ thread[i].at = "save"
    BY <1>5 DEF SaveNode
  <2>2. CASE thread[i].id = 0
    BY <1>1, <1>3, <1>5, <2>1, <2>2 DEF SaveNode, Dispatch, Bare
  <2>3. CASE thread[i].id # 0
    <3>1. thread'[i].at = "reach" /\ thread'[i].id = thread[i].id
      BY <1>1, <1>5, <2>3 DEF SaveNode, Goto, ThreadRow
    <3>. QED BY <1>4, <2>1, <2>3, <3>1 DEF Looking, RowsOf
  <2>. QED BY <2>2, <2>3
<1>6. CASE Reach(i)
  <2>1. rows' = rows /\ thread[i].at = "reach"
    BY <1>6 DEF Reach
  <2>2. thread'[i].at = "find" /\ thread'[i].id = thread[i].id
    BY <1>1, <1>6 DEF Reach, Goto, ThreadRow
  <2>. QED BY <1>4, <2>1, <2>2 DEF Looking, RowsOf
<1>7. CASE NoRequest(i)
  <2>1. rows' = rows /\ thread[i].at = "reach"
    BY <1>7 DEF NoRequest
  <2>2. CASE thread[i].pass = 1
    <3>1. thread'[i].at = "reach" /\ thread'[i].id = thread[i].id
      BY <1>1, <1>7, <2>1, <2>2 DEF NoRequest, ThreadRow
    <3>. QED BY <1>4, <2>1, <3>1 DEF Looking, RowsOf
  <2>3. CASE thread[i].pass # 1
    BY <1>1, <1>3, <1>7, <2>1, <2>3 DEF NoRequest, Dispatch, Bare
  <2>. QED BY <2>2, <2>3
<1>8. CASE FindRow(i)
  <2>1. PICK k \in 0..Len(rows) :
           /\ k = 0 => RowsFor(thread[i].id) = {}
           /\ thread' = [thread EXCEPT ![i].at = "write", ![i].pick = k]
    BY <1>8 DEF FindRow
  <2>2. /\ rows' = rows /\ thread[i].at = "find" /\ thread'[i].at = "write"
        /\ thread'[i].id = thread[i].id /\ thread'[i].pick = k
    BY <1>1, <1>8, <2>1 DEF FindRow, ThreadRow
  <2>3. <<"answer", thread[i].id, i>> \in heard
    BY <2>2 DEF Fits, Told, Looking
  <2>4. ASSUME NEW m \in Probes, Appending(i, m)' PROVE RowsOf(m) = {}
    <3>1. m = thread[i].id /\ RowsFor(m) = {}
      BY <2>1, <2>2, <2>4 DEF Appending
    <3>. QED BY <3>1 DEF RowsFor, RowsOf
  <2>5. \A m \in Probes : RowsOf(m)' = RowsOf(m)
    BY <2>2 DEF RowsOf
  <2>. QED BY <1>1, <1>2, <2>2, <2>3, <2>4, <2>5, FitsKept DEF Publishing
<1>9. CASE WriteRow(i)
  <2>1. CASE thread[i].pick = 0
    BY <1>9, <2>1, AppendFits
  <2>2. CASE thread[i].pick # 0
    <3>1. thread[i].at = "write" /\ rows' = [rows EXCEPT ![thread[i].pick].answered = TRUE]
      BY <1>1, <1>9, <2>2 DEF WriteRow, ThreadRow
    <3>2. DOMAIN rows' = DOMAIN rows /\ \A k \in DOMAIN rows : rows'[k].id = rows[k].id
      BY <1>1, <3>1 DEF HistoryRow
    <3>3. \A m \in Probes : RowsOf(m)' = RowsOf(m)
      BY <3>2 DEF RowsOf
    <3>4. CASE thread[i].pass = 2
      <4>1. thread'[i].at = "dispatch"
        BY <1>1, <1>9, <3>4 DEF WriteRow, Dispatch, Bare
      <4>. QED BY <1>1, <1>2, <3>3, <4>1, FitsKept DEF Looking, Publishing, Appending
    <3>5. CASE thread[i].pass # 2
      <4>1. thread'[i].at \in {"save", "reach"} /\ thread'[i].id = thread[i].id
        BY <1>1, <1>9, <3>5 DEF WriteRow, ThreadRow
      <4>. QED BY <1>4, <3>1, <3>3, <4>1 DEF Looking
    <3>. QED BY <3>4, <3>5
  <2>. QED BY <2>1, <2>2
<1>10. CASE Ignore(i)
  BY <1>1, <1>3, <1>10 DEF Ignore, Idle, Bare
<1>. QED BY <1>5, <1>6, <1>7, <1>8, <1>9, <1>10 DEF Handle

\* Recording a probe: the publisher appends its row when nobody else has it out.
LEMMA WaitFits ==
    ASSUME Inv, Inv', Countable, Countable', Fits, NEW t \in Threads, Wait(t)
    PROVE  Fits'
<1>1. /\ thread \in [Threads -> ThreadRow] /\ thread' \in [Threads -> ThreadRow]
      /\ rows \in Seq(HistoryRow) /\ Task \notin Interfaces
  BY DEF Inv, Typed, TypeOK, ThreadRow, HistoryRow
<1>2. heard' = heard /\ used' = used /\ \A o \in Threads : o # t => thread'[o] = thread[o]
  BY <1>1 DEF Wait, Confirm, TimeOut, MarkPending, CreatePending, Finish, Goto
<1>3. CASE Confirm(t) \/ MarkPending(t)
  <2>1. /\ thread[t].at \in Publishing /\ thread'[t].at \in Publishing
        /\ thread'[t].id = thread[t].id /\ rows' = rows
    BY <1>1, <1>3 DEF Confirm, MarkPending, Goto, ThreadRow, Publishing
  <2>2. \A m \in Probes : RowsOf(m)' = RowsOf(m)
    BY <2>1 DEF RowsOf
  <2>. QED BY <1>1, <1>2, <2>1, <2>2, FitsKept DEF Looking, Publishing, Appending
<1>4. CASE TimeOut(t)
  <2>1. thread'[t].at = "idle" /\ rows' = rows
    BY <1>1, <1>4 DEF TimeOut, Finish, Idle, Bare
  <2>2. \A m \in Probes : RowsOf(m)' = RowsOf(m)
    BY <2>1 DEF RowsOf
  <2>. QED BY <1>1, <1>2, <2>1, <2>2, FitsKept DEF Looking, Publishing, Appending
<1>5. CASE CreatePending(t)
  <2>1. /\ thread[t].at = "create" /\ thread'[t].at = "idle"
        /\ rows' = Append(rows, [id |-> thread[t].id, answered |-> FALSE])
    BY <1>1, <1>5 DEF CreatePending, Finish, Idle, Bare
  <2>2. thread[t].id \in Probes /\ thread[t].id <= used.probes
    BY <2>1 DEF Inv, Typed, Busy, Counted
  <2>. PICK m \in Probes : m = thread[t].id
    BY <2>2
  <2>3. /\ Sole' /\ Told'
        /\ \A k \in Probes : Spent(k) \subseteq Spent(k)'
    BY <1>2, <2>1, TurnsKept DEF Looking, Publishing, Appending
  <2>4. Task \notin Spent(m)
    BY <1>1, <2>1 DEF Spent, Out, Publishing
  <2>5. ~Out(m)'
    <3>1. SUFFICES ASSUME NEW u \in Threads, thread'[u].at \in Publishing, thread'[u].id = m
                   PROVE  FALSE
      BY DEF Out
    <3>2. u # t
      BY <2>1, <3>1 DEF Publishing
    <3>3. thread[u].at \in Publishing /\ thread[u].id = thread[t].id
      BY <1>2, <3>1, <3>2
    <3>. QED BY <2>1, <3>2, <3>3 DEF Fits, Sole, Publishing
  <2>6. Task \in Spent(m)'
    BY <1>2, <2>2, <2>5 DEF Spent
  <2>7. /\ RowsOf(m)' \subseteq RowsOf(m) \cup {Len(rows) + 1}
        /\ \A k \in Probes : k # m => RowsOf(k)' = RowsOf(k)
    BY <1>1, <2>1, AppendedRows
  <2>8. Slots'
    BY <2>3, <2>4, <2>6, <2>7, SlotsAdded DEF Fits
  <2>. QED BY <2>3, <2>8 DEF Fits
<1>. QED BY <1>3, <1>4, <1>5 DEF Wait

\* A new probe has no row and nobody else publishes it.
LEMMA PublishFits ==
    ASSUME Inv, Countable, Countable', Fits, NEW t \in Threads, NEW j \in Interfaces,
           Publish(t, j), rows' = rows, heard' = heard
    PROVE  Fits'
<1>1. /\ thread \in [Threads -> ThreadRow] /\ used \in UsedRow
      /\ used.probes \in Nat /\ used'.probes = used.probes + 1
  BY DEF Inv, Typed, TypeOK, ThreadRow, UsedRow, Publish
<1>2. /\ thread'[t].at = "publish" /\ thread'[t].id = used.probes + 1
      /\ \A o \in Threads : o # t => thread'[o] = thread[o]
  BY <1>1 DEF Publish
<1>3. ASSUME NEW o \in Threads, o # t, thread'[o].at \in Publishing
      PROVE  /\ thread[o].at \in Publishing /\ thread'[o].id = thread[o].id
             /\ thread[o].id \in Probes /\ thread[o].id <= used.probes
  BY <1>2, <1>3 DEF Inv, Typed, Busy, Counted, Publishing
<1>4. Sole'
  <2>1. ASSUME NEW o \in Threads, o # t, thread'[o].at \in Publishing
        PROVE  thread'[o].id # thread'[t].id
    BY <1>1, <1>2, <1>3, <2>1 DEF Probes
  <2>2. ASSUME NEW o \in Threads, NEW u \in Threads, o # t, u # t,
               thread'[o].at \in Publishing, thread'[u].at \in Publishing,
               thread'[o].id = thread'[u].id
        PROVE  o = u
    BY <1>3, <2>2 DEF Fits, Sole
  <2>. QED BY <2>1, <2>2 DEF Sole
<1>5. Told'
  <2>1. ASSUME NEW i \in Interfaces, Looking(i)'
        PROVE  <<"answer", thread'[i].id, i>> \in heard'
    <3>1. i # t
      BY <1>2, <2>1 DEF Looking
    <3>2. thread'[i] = thread[i]
      BY <1>2, <3>1 DEF Threads
    <3>. QED BY <2>1, <3>2 DEF Looking, Fits, Told
  <2>. QED BY <2>1 DEF Told
<1>6. ASSUME NEW m \in Probes PROVE Spent(m) \subseteq Spent(m)'
  <2>1. \A i \in Interfaces : Appending(i, m)' => Appending(i, m)
    BY <1>2 DEF Appending, Threads
  <2>2. m <= used.probes /\ Out(m)' => Out(m)
    <3>1. m <= used.probes => m # used.probes + 1
      BY <1>1 DEF Probes
    <3>. QED BY <1>2, <1>3, <3>1 DEF Out
  <2>3. m <= used.probes => m <= used'.probes
    BY <1>1 DEF Probes
  <2>. QED BY <2>1, <2>2, <2>3 DEF Spent
<1>7. Slots'
  <2>1. \A m \in Probes : RowsOf(m)' = RowsOf(m)
    BY DEF RowsOf
  <2>. QED BY <1>6, <2>1, SlotsKept DEF Fits
<1>. QED BY <1>4, <1>5, <1>7 DEF Fits

\* The threads that die have had their turn.
LEMMA CrashFits ==
    ASSUME Inv, Countable, Countable', Fits, Crash
    PROVE  Fits'
<1>1. /\ \A t \in Threads : thread'[t].at = "idle"
      /\ rows' = rows /\ heard' = heard
  BY DEF Crash, Idle, Bare
<1>2. used'.probes = used.probes
  BY DEF Crash, Inv, Typed, TypeOK
<1>3. Sole' /\ Told'
  BY <1>1 DEF Sole, Told, Looking, Publishing, Threads
<1>4. \A m \in Probes : Spent(m) \subseteq Spent(m)' /\ RowsOf(m)' = RowsOf(m)
  BY <1>1, <1>2 DEF Spent, Out, Appending, Publishing, Threads, RowsOf
<1>5. Slots'
  BY <1>4, SlotsKept DEF Fits
<1>. QED BY <1>3, <1>5 DEF Fits

\* However the publisher and the copies of the answer race, a probe has at most
\* one row of the publisher and one of each interface.
THEOREM RowsAreFew == Spec => []FewRows
<1>1. Init => Fits
  <2>. SUFFICES ASSUME Init PROVE Fits
    OBVIOUS
  <2>1. \A t \in Threads : thread[t].at = "idle"
    BY DEF Init, Idle, Bare
  <2>2. Sole /\ Told
    BY <2>1 DEF Sole, Told, Looking, Publishing, Threads
  <2>3. \A m \in Probes : RowsOf(m) = {} /\ Spent(m) = {}
    BY DEF Init, RowsOf, Spent, Probes
  <2>4. Slots
    BY <2>3, FS_EmptySet DEF Slots
  <2>. QED BY <2>2, <2>4 DEF Fits
<1>2. Inv /\ Inv' /\ Countable /\ Countable' /\ Fits /\ [Next]_vars => Fits'
  <2>. SUFFICES ASSUME Inv, Inv', Countable, Countable', Fits, [Next]_vars PROVE Fits'
    OBVIOUS
  <2>1. ASSUME NEW i \in Interfaces, TaskProbe(i) PROVE Fits'
    BY <2>1, PublishFits DEF TaskProbe, Threads
  <2>2. ASSUME NEW i \in Interfaces, NEW j \in Interfaces, Inject(i, j) PROVE Fits'
    BY <2>2, PublishFits DEF Inject, Threads
  <2>3. CASE UNCHANGED vars
    BY <2>3 DEF vars, Fits, Sole, Told, Slots, RowsOf, Spent, Out, Appending, Looking
  <2>. QED
    BY <2>1, <2>2, <2>3, ConnectionFits, HandleFits, WaitFits, CrashFits DEF Next
<1>3. Inv => Countable
  BY AlwaysCountable DEF Inv
<1>4. Inv /\ Countable /\ Fits => FewRows
  <2>. SUFFICES ASSUME Countable, Fits, NEW m \in Probes
                PROVE  Cardinality(RowsOf(m)) <= 1 + Cardinality(Interfaces)
    BY DEF FewRows, RowsOf
  <2>1. Cardinality(Interfaces) \in Nat
    BY InterfacesAssumption, FS_CardinalityType
  <2>. QED BY <2>1 DEF Countable, Fits, Slots
<1>. QED BY <1>1, <1>2, <1>3, <1>4, InvAlways, PTL DEF Spec
=============================================================================
