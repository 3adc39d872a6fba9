--------------------------- MODULE NodePresenceProofs ---------------------------
(***************************************************************************)
(* Theorems about NodePresence: it is well typed, a silence is recorded at *)
(* most once between two edits of the configuration, and none falls        *)
(* between two checks.                                                     *)
(*                                                                         *)
(* The argument: the windows of two checks share only an end, which the    *)
(* first of them owns.  So the events of the present edition lie at or     *)
(* below the right end of the last window (Below), those of a check in     *)
(* progress above it (Windowed).  A node saved meanwhile was heard less    *)
(* than MaxLag ago and lies in no window (Fresh), so what a check has      *)
(* listed is still all of its window when it commits (Listed).             *)
(***************************************************************************)
EXTENDS NodePresence, TLAPS

USE NameAssumption, ValueAssumption, LagAssumption

CfgRow == [enabled : BOOLEAN, offline : Offlines, interval : Intervals, last : Nat \cup {Never}]
EventRow == [node : Nodes, seen : Nat, edition : Nat, offline_at : Int]
Listing == [node : Nodes, seen : Nat]
CheckRow == [at : {"idle", "probe", "wait"}, now : Nat, found : SUBSET Listing,
             left : SUBSET Nodes, on : Nodes \cup {Nothing}]
ReaderRow == [node : Nodes \cup {Nothing}, stamp : Nat]
ReadRow == [enabled : BOOLEAN, offline : Nat, interval : Nat, last : Nat \cup {Never}]
DraftRow == [read : BOOLEAN, row : ReadRow]

\* The last run lies in the past, wherever it is written.
Past == cfg.last <= now /\ \A c \in Clients : draft[c].row.last <= now

\* What a Paho thread is about to save was read from the clock at most MaxLag ago.
Fresh == \A i \in Readers :
            reader[i].node # Nothing => reader[i].stamp <= now /\ now - reader[i].stamp <= MaxLag

\* A thread in the middle of a probe has a node.
OnNode == check.at = "wait" => check.on \in Nodes

Left(row, t) == Began(row, t) - row.offline
Right(row, t) == t - row.offline

\* A check in progress began when it was due, and what it lists is in its window ...
Windowed == check.at # "idle" =>
    /\ check.now <= now
    /\ Due(cfg, check.now)
    /\ \A f \in check.found : f.seen > Left(cfg, check.now)

\* ... and is all there is in it.
Listed == check.at # "idle" =>
    \A n \in Nodes : seen[n] > Left(cfg, check.now) /\ seen[n] <= Right(cfg, check.now)
                       => [node |-> n, seen |-> seen[n]] \in check.found

\* Whatever is listed had been silent long enough when the check began.
Long == check.at # "idle" => \A f \in check.found : f.seen <= Right(cfg, check.now)

\* The events of this edition are those of windows up to the last run.
Below == \A e \in events :
    /\ e.edition <= used.edits
    /\ e.edition = used.edits => cfg.last # Never /\ e.seen <= cfg.last - cfg.offline

Inv ==
    /\ TypeOK /\ Past /\ Fresh /\ OnNode /\ Windowed /\ Listed /\ Long /\ Below
    /\ RecordedOnceUnedited /\ NoSilenceMissed

------------------------------------------------------------------------------
(* Types *)

\* The types of the parts of the state.
LEMMA Types ==
    ASSUME TypeOK
    PROVE  /\ now \in Nat /\ seen \in [Nodes -> Nat] /\ cfg \in CfgRow
           /\ events \subseteq EventRow /\ check \in CheckRow /\ locked \subseteq Nodes
           /\ acked \in BOOLEAN /\ reader \in [Readers -> ReaderRow]
           /\ draft \in [Clients -> DraftRow] /\ floor \in Int
           /\ used \in [edits : Nat, failures : Nat]
BY DEF TypeOK, CfgRow, EventRow, CheckRow, Listing, ReaderRow, DraftRow, ReadRow

\* ... and back.
LEMMA TypesPrime ==
    ASSUME now' \in Nat, seen' \in [Nodes -> Nat], cfg' \in CfgRow,
           events' \subseteq EventRow, check' \in CheckRow, locked' \subseteq Nodes,
           acked' \in BOOLEAN, reader' \in [Readers -> ReaderRow],
           draft' \in [Clients -> DraftRow], floor' \in Int,
           used' \in [edits : Nat, failures : Nat]
    PROVE  TypeOK'
BY DEF TypeOK, CfgRow, EventRow, CheckRow, Listing, ReaderRow, DraftRow, ReadRow

\* The fields of the configuration.
LEMMA CfgFields ==
    ASSUME TypeOK
    PROVE  /\ cfg.offline \in Nat /\ cfg.offline \in Offlines /\ MaxLag < cfg.offline
           /\ cfg.interval \in Nat /\ cfg.interval \in Intervals /\ cfg.interval > 0
           /\ cfg.last \in Nat \cup {Never} /\ cfg.last \in Int
           /\ cfg.enabled \in BOOLEAN
           /\ check.now \in Nat /\ check.found \subseteq Listing
           /\ \A t \in Nat : Left(cfg, t) \in Int /\ Right(cfg, t) \in Int
<1>1. cfg \in CfgRow /\ check \in CheckRow
  BY Types
<1>2. /\ cfg.offline \in Offlines /\ cfg.interval \in Intervals
      /\ cfg.last \in Nat \cup {Never} /\ cfg.enabled \in BOOLEAN
  BY <1>1 DEF CfgRow
<1>3. cfg.offline \in Nat /\ cfg.interval \in Nat /\ cfg.interval > 0 /\ cfg.last \in Int
  <2>1. cfg.offline \in Nat
    BY <1>2
  <2>2. cfg.interval \in Nat \ {0}
    BY <1>2
  <2>3. cfg.last \in Int
    BY <1>2 DEF Never
  <2>. QED BY <2>1, <2>2, <2>3
<1>4. check.now \in Nat /\ check.found \subseteq Listing
  BY <1>1 DEF CheckRow
<1>5. \A t \in Nat : Left(cfg, t) \in Int /\ Right(cfg, t) \in Int
  BY <1>3 DEF Left, Right, Began
<1>. QED BY <1>2, <1>3, <1>4, <1>5

\* The idle check and the empty draft.
LEMMA Blank == Idle \in CheckRow /\ NoDraft \in DraftRow /\ Quiet \in ReaderRow
BY DEF Idle, CheckRow, Listing, NoDraft, NoRow, DraftRow, ReadRow, Quiet, ReaderRow, Never

LEMMA InitInv == Init => Inv
<1>. SUFFICES ASSUME Init PROVE Inv
  OBVIOUS
<1>1. PICK o \in Offlines, v \in Intervals :
        cfg = [enabled |-> FALSE, offline |-> o, interval |-> v, last |-> Never]
  BY DEF Init
<1>2. TypeOK
  <2>1. cfg \in CfgRow
    BY <1>1 DEF CfgRow, Never
  <2>2. check \in CheckRow /\ reader \in [Readers -> ReaderRow] /\ draft \in [Clients -> DraftRow]
    BY Blank DEF Init
  <2>3. acked \in BOOLEAN
    BY Zenon DEF Init
  <2>5. /\ now \in Nat /\ seen \in [Nodes -> Nat] /\ events \subseteq EventRow
        /\ locked \subseteq Nodes /\ floor \in Int
    BY DEF Init
  <2>4. used \in [edits : Nat, failures : Nat]
    BY DEF Init
  <2>. QED BY <2>1, <2>2, <2>3, <2>4, <2>5
         DEF TypeOK, CfgRow, CheckRow, Listing, DraftRow, ReadRow, ReaderRow, EventRow
<1>3. Past /\ Fresh /\ OnNode /\ Windowed /\ Listed /\ Long /\ Below
  BY <1>1 DEF Init, Past, Fresh, OnNode, Windowed, Listed, Long, Below, Idle, Quiet, NoDraft,
              NoRow, Never
<1>4. RecordedOnceUnedited
  BY DEF Init, RecordedOnceUnedited
<1>5. NoSilenceMissed
  BY <1>1 DEF Init, NoSilenceMissed, Never
<1>. QED BY <1>2, <1>3, <1>4, <1>5 DEF Inv

------------------------------------------------------------------------------
(* Steps *)

LEMMA TickInv == Inv /\ Tick => Inv'
<1>. SUFFICES ASSUME Inv, Tick PROVE Inv'
  OBVIOUS
<1>1. /\ now \in Nat /\ now' = now + 1 /\ MaxLag \in Nat
      /\ UNCHANGED <<seen, cfg, events, check, locked, acked, reader, draft, floor, used>>
  BY Types DEF Inv, Tick
<1>2. TypeOK'
  BY <1>1 DEF Inv, TypeOK
<1>3. Past'
  <2>1. cfg.last \in Int
    BY CfgFields DEF Inv
  <2>2. ASSUME NEW c \in Clients PROVE draft[c].row.last \in Int
    <3>1. draft[c] \in DraftRow
      BY Types DEF Inv
    <3>2. draft[c].row.last \in Nat \cup {Never}
      BY <3>1 DEF DraftRow, ReadRow
    <3>. QED BY <3>2 DEF Never
  <2>. QED BY <1>1, <2>1, <2>2 DEF Inv, Past
<1>4. Fresh'
  <2>1. ASSUME NEW i \in Readers, reader[i].node # Nothing
        PROVE  reader[i].stamp <= now' /\ now' - reader[i].stamp <= MaxLag
    <3>1. reader[i].stamp \in Nat
      BY Types DEF Inv, ReaderRow
    <3>2. reader[i].stamp <= now /\ now - reader[i].stamp < MaxLag
      BY <2>1 DEF Inv, Fresh, Tick
    <3>. QED BY <1>1, <3>1, <3>2
  <2>. QED BY <1>1, <2>1 DEF Fresh
<1>5. Windowed'
  <2>1. check.now \in Nat
    BY CfgFields DEF Inv
  <2>. QED BY <1>1, <2>1 DEF Inv, Windowed, Due, Left, Began
<1>6. OnNode' /\ Listed' /\ Long' /\ Below' /\ RecordedOnceUnedited' /\ NoSilenceMissed'
  BY <1>1 DEF Inv, OnNode, Listed, Long, Below, RecordedOnceUnedited, NoSilenceMissed, Left,
              Right, Began
<1>. QED BY <1>2, <1>3, <1>4, <1>5, <1>6 DEF Inv

LEMMA HearInv ==
    ASSUME Inv, NEW i \in Readers, NEW n \in Nodes, Hear(i, n)
    PROVE  Inv'
<1>1. now \in Nat /\ reader \in [Readers -> ReaderRow] /\ MaxLag \in Nat
  BY Types DEF Inv
<1>2. /\ reader' = [reader EXCEPT ![i] = [node |-> n, stamp |-> now]]
      /\ UNCHANGED <<now, seen, cfg, events, check, locked, acked, draft, floor, used>>
  BY DEF Hear
<1>3. [node |-> n, stamp |-> now] \in ReaderRow
  BY <1>1 DEF ReaderRow
<1>4. reader' \in [Readers -> ReaderRow]
  BY <1>1, <1>2, <1>3
<1>5. TypeOK'
  BY <1>2, <1>4 DEF Inv, TypeOK, ReaderRow
<1>6. Fresh'
  BY <1>1, <1>2 DEF Inv, Fresh
<1>7. /\ Past' /\ OnNode' /\ Windowed' /\ Listed' /\ Long' /\ Below'
      /\ RecordedOnceUnedited' /\ NoSilenceMissed'
  BY <1>2 DEF Inv, Past, OnNode, Windowed, Listed, Long, Below, RecordedOnceUnedited,
              NoSilenceMissed, Left, Right, Began, Due
<1>. QED BY <1>5, <1>6, <1>7 DEF Inv

\* What is saved was heard after every window there has been.
LEMMA SaveInv ==
    ASSUME Inv, NEW i \in Readers, Save(i)
    PROVE  Inv'
<1>. DEFINE n == reader[i].node
            s == reader[i].stamp
<1>1. /\ now \in Nat /\ reader \in [Readers -> ReaderRow] /\ MaxLag \in Nat
      /\ seen \in [Nodes -> Nat]
  BY Types DEF Inv
<1>2. /\ n \in Nodes
      /\ seen' = [seen EXCEPT ![n] = s] /\ reader' = [reader EXCEPT ![i] = Quiet]
      /\ UNCHANGED <<now, cfg, events, check, locked, acked, draft, floor, used>>
  BY DEF Save
<1>3. s \in Nat /\ s <= now /\ now - s <= MaxLag
  <2>1. n # Nothing
    BY <1>2
  <2>2. s \in Nat
    BY <1>1 DEF ReaderRow
  <2>. QED BY <2>1, <2>2 DEF Inv, Fresh
<1>. HIDE DEF n, s
<1>4. reader' \in [Readers -> ReaderRow] /\ seen' \in [Nodes -> Nat]
  BY <1>1, <1>2, <1>3, Blank
<1>5. TypeOK'
  BY <1>2, <1>4 DEF Inv, TypeOK, ReaderRow
<1>6. Fresh'
  BY <1>1, <1>2 DEF Inv, Fresh, Quiet
<1>7. /\ cfg.offline \in Nat /\ MaxLag < cfg.offline /\ cfg.last \in Int /\ check.now \in Nat
  BY CfgFields DEF Inv
<1>8. s > cfg.last - cfg.offline
  BY <1>1, <1>3, <1>7 DEF Inv, Past
<1>9. check.at # "idle" => s > Right(cfg, check.now)
  BY <1>1, <1>3, <1>7 DEF Inv, Windowed, Right
<1>10. Listed'
  BY <1>1, <1>2, <1>3, <1>7, <1>9 DEF Inv, Listed, Left, Right, Began
<1>11. NoSilenceMissed'
  BY <1>1, <1>2, <1>3, <1>7, <1>8 DEF Inv, NoSilenceMissed
<1>12. Past' /\ OnNode' /\ Windowed' /\ Long' /\ Below' /\ RecordedOnceUnedited'
  BY <1>2 DEF Inv, Past, OnNode, Windowed, Long, Below, RecordedOnceUnedited, Left, Right,
              Began, Due
<1>. QED BY <1>5, <1>6, <1>10, <1>11, <1>12 DEF Inv

\* A step of a check that lists nothing anew and commits nothing.
LEMMA Within ==
    ASSUME Inv, check.at # "idle", check'.now = check.now, check'.found = check.found,
           UNCHANGED <<now, seen, cfg, events, reader, draft, floor, used>>
    PROVE  /\ Past' /\ Fresh' /\ Windowed' /\ Listed' /\ Long' /\ Below'
           /\ RecordedOnceUnedited' /\ NoSilenceMissed'
BY DEF Inv, Past, Fresh, Windowed, Listed, Long, Below, RecordedOnceUnedited,
       NoSilenceMissed, Left, Right, Began, Due

LEMMA ReadAckInv == Inv /\ ReadAck => Inv'
<1>. SUFFICES ASSUME Inv, ReadAck PROVE Inv'
  OBVIOUS
<1>1. /\ check.at # "idle" /\ check' = check /\ acked' \in BOOLEAN
      /\ UNCHANGED <<now, seen, cfg, events, locked, reader, draft, floor, used>>
  BY DEF ReadAck
<1>2. TypeOK' /\ OnNode'
  BY <1>1 DEF Inv, TypeOK, OnNode
<1>. QED BY <1>1, <1>2, Within DEF Inv

LEMMA BeginInv == Inv /\ Begin => Inv'
<1>. SUFFICES ASSUME Inv, Begin PROVE Inv'
  OBVIOUS
<1>. DEFINE silent == JustSilent(cfg, now)
            found == {[node |-> n, seen |-> seen[n]] : n \in silent}
<1>1. /\ check.at = "idle" /\ Due(cfg, now)
      /\ check' = [at |-> "probe", now |-> now, found |-> found, left |-> silent, on |-> Nothing]
      /\ UNCHANGED <<now, seen, cfg, events, locked, acked, reader, draft, floor, used>>
  BY DEF Begin
<1>2. now \in Nat /\ seen \in [Nodes -> Nat]
  BY Types DEF Inv
<1>3. silent \subseteq Nodes /\ found \in SUBSET Listing
  BY <1>2 DEF JustSilent, Listing
<1>4. check' \in CheckRow
  BY <1>1, <1>2, <1>3 DEF CheckRow
<1>5. TypeOK' /\ OnNode'
  <2>1. TypeOK'
    BY <1>1, <1>4 DEF Inv, TypeOK, CheckRow, Listing
  <2>. QED BY <1>1, <2>1 DEF OnNode
<1>6. \A n \in Nodes : n \in silent <=> seen[n] > Left(cfg, now) /\ seen[n] <= Right(cfg, now)
  BY DEF JustSilent, AfterLeft, UpToRight, Left, Right
<1>7. /\ \A f \in found : f.seen > Left(cfg, now) /\ f.seen <= Right(cfg, now)
      /\ \A n \in Nodes : seen[n] > Left(cfg, now) /\ seen[n] <= Right(cfg, now)
                             => [node |-> n, seen |-> seen[n]] \in found
  BY <1>3, <1>6
<1>. HIDE DEF silent, found
<1>8. Windowed' /\ Listed' /\ Long'
  BY <1>1, <1>2, <1>7 DEF Windowed, Listed, Long, Left, Right, Began, Due
<1>9. Past' /\ Fresh' /\ Below' /\ RecordedOnceUnedited' /\ NoSilenceMissed'
  BY <1>1 DEF Inv, Past, Fresh, Below, RecordedOnceUnedited, NoSilenceMissed
<1>. QED BY <1>5, <1>8, <1>9 DEF Inv

LEMMA ProbingInv ==
    ASSUME Inv, (\E n \in Nodes : Probe(n)) \/ Confirm \/ GiveUp \/ StopProbing
    PROVE  Inv'
<1>1. check \in CheckRow
  BY Types DEF Inv
<1>2. /\ check.at # "idle" /\ locked' \subseteq Nodes /\ acked' \in BOOLEAN
      /\ UNCHANGED <<now, seen, cfg, events, reader, draft, floor, used>>
  <2>1. locked \subseteq Nodes /\ acked \in BOOLEAN
    BY Types DEF Inv
  <2>2. acked' \in BOOLEAN
    BY <2>1 DEF Probe, Confirm, GiveUp, StopProbing
  <2>3. CASE Confirm
    BY <2>1, <2>2, <2>3 DEF Confirm, Inv, OnNode
  <2>4. CASE (\E n \in Nodes : Probe(n)) \/ GiveUp \/ StopProbing
    BY <2>1, <2>2, <2>4 DEF Probe, GiveUp, StopProbing
  <2>. QED BY <2>3, <2>4
<1>3. PICK at \in {"probe", "wait"}, left \in SUBSET Nodes, on \in Nodes \cup {Nothing} :
        /\ check' = [check EXCEPT !.at = at, !.left = left, !.on = on]
        /\ at = "wait" => on \in Nodes
  <2>1. check.left \in SUBSET Nodes
    BY <1>1 DEF CheckRow
  <2>2. ASSUME NEW n \in Nodes, Probe(n)
        PROVE  check' = [check EXCEPT !.at = "wait", !.left = check.left \ {n}, !.on = n]
    BY <2>2 DEF Probe
  <2>3. ASSUME Confirm \/ GiveUp
        PROVE  check' = [check EXCEPT !.at = "probe", !.left = check.left, !.on = Nothing]
    BY <1>1, <2>3 DEF Confirm, GiveUp, CheckRow
  <2>4. ASSUME StopProbing
        PROVE  check' = [check EXCEPT !.at = "probe", !.left = {}, !.on = check.on]
    BY <1>1, <2>4 DEF StopProbing, CheckRow
  <2>5. check.on \in Nodes \cup {Nothing}
    BY <1>1 DEF CheckRow
  <2>6. ASSUME NEW n \in Nodes PROVE check.left \ {n} \in SUBSET Nodes
    BY <2>1
  <2>. QED BY <2>1, <2>2, <2>3, <2>4, <2>5, <2>6
<1>4. check' \in CheckRow /\ check'.now = check.now /\ check'.found = check.found
  BY <1>1, <1>3 DEF CheckRow
<1>5. OnNode'
  BY <1>1, <1>3 DEF OnNode, CheckRow
<1>6. TypeOK'
  BY <1>2, <1>4 DEF Inv, TypeOK, CheckRow, Listing
<1>. QED BY <1>2, <1>4, <1>5, <1>6, Within DEF Inv

\* The window that commits joins the ones before it.
LEMMA CommitInv == Inv /\ Commit => Inv'
<1>. SUFFICES ASSUME Inv, Commit PROVE Inv'
  OBVIOUS
<1>. DEFINE t == check.now
            o == cfg.offline
            Ev(f) == [node |-> f.node, seen |-> f.seen, edition |-> used.edits,
                      offline_at |-> t - o]
            E == {Ev(f) : f \in check.found}
<1>1. /\ check.at # "idle" /\ events' = events \cup E
      /\ cfg' = [cfg EXCEPT !.last = t]
      /\ floor' = IF cfg.last = Never THEN Left(cfg, t) ELSE floor
      /\ check' = Idle /\ locked' = {} /\ acked' = FALSE
      /\ UNCHANGED <<now, seen, reader, draft, used>>
  BY DEF Commit, NoteRun, EndCheck, Left
<1>2. /\ cfg \in CfgRow /\ check.found \subseteq Listing /\ events \subseteq EventRow
      /\ used.edits \in Nat /\ now \in Nat /\ seen \in [Nodes -> Nat] /\ floor \in Int
  BY Types, CfgFields DEF Inv
<1>3. /\ t \in Nat /\ o \in Nat /\ cfg.last \in Nat \cup {Never} /\ cfg.interval \in Nat
      /\ cfg.interval > 0 /\ Left(cfg, t) \in Int /\ t - o \in Int
  BY CfgFields DEF Inv
<1>4. cfg' \in CfgRow /\ cfg'.last = t /\ cfg'.offline = o
  BY <1>1, <1>2, <1>3 DEF CfgRow
<1>15. ASSUME NEW f \in check.found
       PROVE  /\ Ev(f) \in EventRow /\ Ev(f).edition = used.edits /\ Ev(f).offline_at = t - o
              /\ Ev(f).node = f.node /\ Ev(f).seen = f.seen
              /\ f.seen > Left(cfg, t) /\ f.seen <= t - o
  <2>1. f \in Listing
    BY <1>2
  <2>2. f.node \in Nodes /\ f.seen \in Nat
    BY <2>1 DEF Listing
  <2>3. f.seen > Left(cfg, t) /\ f.seen <= t - o
    BY <1>1 DEF Inv, Windowed, Long, Right
  <2>. QED BY <1>2, <1>3, <2>2, <2>3 DEF EventRow
<1>6. \A f \in check.found : Ev(f) \in E /\ Ev(f).node = f.node /\ Ev(f).seen = f.seen
  BY <1>15
<1>16. \A e \in E : \E f \in check.found : e = Ev(f)
  OBVIOUS
<1>. HIDE DEF Ev, E
<1>5. ASSUME NEW e \in E
      PROVE  /\ e \in EventRow /\ e.edition = used.edits /\ e.offline_at = t - o
             /\ e.seen > Left(cfg, t) /\ e.seen <= t - o /\ e.seen \in Nat
  <2>1. PICK f \in check.found : e = Ev(f)
    BY <1>16
  <2>2. f.seen \in Nat
    BY <1>2 DEF Listing
  <2>. QED BY <1>15, <2>1, <2>2
<1>. HIDE DEF t, o
<1>7. TypeOK'
  <2>1. events' \subseteq EventRow
    BY <1>1, <1>2, <1>5
  <2>2. floor' \in Int
    BY <1>1, <1>2, <1>3
  <2>3. check' \in CheckRow /\ locked' \subseteq Nodes
    BY <1>1, Blank
  <2>4. acked' \in BOOLEAN
    BY <1>1, Zenon
  <2>. QED BY <1>1, <1>4, <2>1, <2>2, <2>3, <2>4
         DEF Inv, TypeOK, CfgRow, EventRow, CheckRow, Listing
<1>8. t <= now /\ Due(cfg, t)
  BY <1>1 DEF Inv, Windowed, t
<1>9. cfg.last # Never => cfg.last <= t /\ Left(cfg, t) = cfg.last - o /\ cfg.last \in Nat
  BY <1>3, <1>8 DEF Due, Left, Began, o
<1>10. Past' /\ Fresh'
  BY <1>1, <1>4, <1>8 DEF Inv, Past, Fresh
<1>11. OnNode' /\ Windowed' /\ Listed' /\ Long'
  BY <1>1 DEF OnNode, Windowed, Listed, Long, Idle
<1>12. Below'
  <2>. SUFFICES ASSUME NEW e \in events'
                PROVE  /\ e.edition <= used.edits
                       /\ e.edition = used.edits => t # Never /\ e.seen <= t - o
    BY <1>1, <1>4 DEF Below
  <2>1. CASE e \in E
    <3>1. e.edition = used.edits /\ e.seen <= t - o
      BY <1>5, <2>1
    <3>. QED BY <1>2, <1>3, <3>1 DEF Never
  <2>2. CASE e \in events
    <3>1. e.edition <= used.edits /\ e.seen \in Nat
      BY <1>2, <2>2 DEF Inv, Below, EventRow
    <3>2. ASSUME e.edition = used.edits PROVE cfg.last # Never /\ e.seen <= cfg.last - o
      BY <2>2, <3>2 DEF Inv, Below, o
    <3>. QED BY <1>3, <1>9, <3>1, <3>2 DEF Never
  <2>. QED BY <1>1, <2>1, <2>2
<1>13. RecordedOnceUnedited'
  <2>. SUFFICES ASSUME NEW e \in events', NEW f \in events', e.node = f.node,
                       e.seen = f.seen, e.edition = f.edition
                PROVE  e = f
    BY DEF RecordedOnceUnedited
  <2>1. CASE e \in events /\ f \in events
    BY <2>1 DEF Inv, RecordedOnceUnedited
  <2>2. CASE e \in E /\ f \in E
    <3>1. /\ e \in EventRow /\ f \in EventRow /\ e.edition = f.edition
          /\ e.offline_at = f.offline_at
      BY <1>5, <2>2
    <3>. QED BY <3>1 DEF EventRow
  <2>3. ASSUME NEW g \in events, NEW h \in E, g.seen = h.seen, g.edition = h.edition
        PROVE  FALSE
    <3>1. cfg.last # Never /\ g.seen <= cfg.last - o
      BY <1>5, <2>3 DEF Inv, Below, o
    <3>2. h.seen > cfg.last - o /\ h.seen \in Nat
      BY <1>5, <1>9, <3>1 DEF EventRow
    <3>. QED BY <1>3, <1>9, <2>3, <3>1, <3>2
  <2>. QED BY <1>1, <2>1, <2>2, <2>3
<1>14. NoSilenceMissed'
  <2>. SUFFICES ASSUME NEW n \in Nodes, floor' < seen[n], seen[n] <= t - o
                PROVE  \E e \in events' : e.node = n /\ e.seen = seen[n]
    BY <1>1, <1>4 DEF NoSilenceMissed
  <2>1. seen[n] \in Nat
    BY <1>2
  <2>2. CASE seen[n] > Left(cfg, t)
    <3>1. [node |-> n, seen |-> seen[n]] \in check.found
      BY <1>1, <2>2 DEF Inv, Listed, Right, t, o
    <3>2. PICK e \in E : e.node = n /\ e.seen = seen[n]
      <4>. DEFINE f == [node |-> n, seen |-> seen[n]]
      <4>1. Ev(f) \in E /\ Ev(f).node = n /\ Ev(f).seen = seen[n]
        BY <1>6, <3>1
      <4>. QED BY <4>1
    <3>. QED BY <1>1, <3>2
  <2>3. CASE ~(seen[n] > Left(cfg, t))
    <3>1. cfg.last # Never /\ floor < seen[n]
      BY <1>1, <1>3, <2>1, <2>3
    <3>2. seen[n] <= cfg.last - o
      BY <1>3, <1>9, <2>1, <2>3, <3>1
    <3>. QED BY <1>1, <3>1, <3>2 DEF Inv, NoSilenceMissed, o
  <2>. QED BY <2>2, <2>3
<1>. QED BY <1>7, <1>10, <1>11, <1>12, <1>13, <1>14 DEF Inv

\* After a failure the events of this edition are older than the run that is noted,
\* and silences are watched afresh.
LEMMA FailInv == Inv /\ Fail => Inv'
<1>. SUFFICES ASSUME Inv, Fail PROVE Inv'
  OBVIOUS
<1>1. /\ cfg' = [cfg EXCEPT !.last = now] /\ floor' = now - cfg.offline
      /\ used' = [used EXCEPT !.failures = @ + 1]
      /\ check' = Idle /\ locked' = {} /\ acked' = FALSE
      /\ UNCHANGED <<now, seen, events, reader, draft>>
  BY DEF Fail, EndCheck
<1>2. /\ cfg \in CfgRow /\ now \in Nat /\ events \subseteq EventRow
      /\ used \in [edits : Nat, failures : Nat]
  BY Types DEF Inv
<1>3. cfg.offline \in Nat /\ cfg.last \in Int
  BY CfgFields DEF Inv
<1>4. cfg' \in CfgRow /\ cfg'.last = now /\ cfg'.offline = cfg.offline
  BY <1>1, <1>2 DEF CfgRow
<1>5. used' \in [edits : Nat, failures : Nat] /\ used'.edits = used.edits
  BY <1>1, <1>2
<1>6. TypeOK'
  <2>1. floor' \in Int
    BY <1>1, <1>2, <1>3
  <2>2. check' \in CheckRow /\ locked' \subseteq Nodes
    BY <1>1, Blank
  <2>3. acked' \in BOOLEAN
    BY <1>1, Zenon
  <2>. QED BY <1>1, <1>4, <1>5, <2>1, <2>2, <2>3 DEF Inv, TypeOK, CfgRow, CheckRow, Listing
<1>7. Past' /\ Fresh'
  BY <1>1, <1>2, <1>4 DEF Inv, Past, Fresh
<1>8. OnNode' /\ Windowed' /\ Listed' /\ Long'
  BY <1>1 DEF OnNode, Windowed, Listed, Long, Idle
<1>9. Below'
  <2>. SUFFICES ASSUME NEW e \in events
                PROVE  /\ e.edition <= used.edits
                       /\ e.edition = used.edits => now # Never /\ e.seen <= now - cfg.offline
    BY <1>1, <1>4, <1>5 DEF Below
  <2>1. e.seen \in Nat /\ e.edition <= used.edits
    BY <1>2 DEF EventRow, Inv, Below
  <2>2. cfg.last <= now
    BY DEF Inv, Past
  <2>3. ASSUME e.edition = used.edits PROVE e.seen <= cfg.last - cfg.offline
    BY <2>3 DEF Inv, Below
  <2>. QED BY <1>2, <1>3, <2>1, <2>2, <2>3 DEF Never
<1>10. NoSilenceMissed'
  <2>1. \A n \in Nodes : seen[n] \in Nat
    BY Types DEF Inv
  <2>. QED BY <1>1, <1>2, <1>3, <1>4, <2>1 DEF NoSilenceMissed
<1>11. RecordedOnceUnedited'
  BY <1>1 DEF Inv, RecordedOnceUnedited
<1>. QED BY <1>6, <1>7, <1>8, <1>9, <1>10, <1>11 DEF Inv

LEMMA CrashInv == Inv /\ Crash => Inv'
<1>. SUFFICES ASSUME Inv, Crash PROVE Inv'
  OBVIOUS
<1>1. /\ used' = [used EXCEPT !.failures = @ + 1]
      /\ check' = Idle /\ locked' = {} /\ acked' = FALSE
      /\ reader' = [i \in Readers |-> Quiet]
      /\ UNCHANGED <<now, seen, cfg, events, draft, floor>>
  BY DEF Crash, EndCheck
<1>2. used \in [edits : Nat, failures : Nat]
  BY Types DEF Inv
<1>3. used' \in [edits : Nat, failures : Nat] /\ used'.edits = used.edits
  BY <1>1, <1>2
<1>4. TypeOK'
  <2>1. check' \in CheckRow /\ locked' \subseteq Nodes /\ reader' \in [Readers -> ReaderRow]
    BY <1>1, Blank
  <2>2. acked' \in BOOLEAN
    BY <1>1, Zenon
  <2>. QED BY <1>1, <1>3, <2>1, <2>2 DEF Inv, TypeOK, CheckRow, Listing, ReaderRow
<1>5. Fresh' /\ OnNode' /\ Windowed' /\ Listed' /\ Long'
  BY <1>1 DEF Fresh, OnNode, Windowed, Listed, Long, Idle, Quiet
<1>6. Past' /\ Below' /\ RecordedOnceUnedited' /\ NoSilenceMissed'
  BY <1>1, <1>3 DEF Inv, Past, Below, RecordedOnceUnedited, NoSilenceMissed
<1>. QED BY <1>4, <1>5, <1>6 DEF Inv

LEMMA ReadConfigInv ==
    ASSUME Inv, NEW c \in Clients, ReadConfig(c)
    PROVE  Inv'
<1>1. /\ draft' = [draft EXCEPT ![c] = [read |-> TRUE, row |-> cfg]]
      /\ UNCHANGED <<now, seen, cfg, events, check, locked, acked, reader, floor, used>>
  BY DEF ReadConfig
<1>2. cfg \in CfgRow /\ draft \in [Clients -> DraftRow]
  BY Types DEF Inv
<1>3. cfg \in ReadRow
  BY <1>2 DEF CfgRow, ReadRow
<1>4. draft' \in [Clients -> DraftRow]
  BY <1>1, <1>2, <1>3 DEF DraftRow
<1>5. TypeOK'
  BY <1>1, <1>4 DEF Inv, TypeOK, DraftRow, ReadRow
<1>6. Past'
  BY <1>1, <1>2 DEF Inv, Past
<1>7. /\ Fresh' /\ OnNode' /\ Windowed' /\ Listed' /\ Long' /\ Below'
      /\ RecordedOnceUnedited' /\ NoSilenceMissed'
  BY <1>1 DEF Inv, Fresh, OnNode, Windowed, Listed, Long, Below, RecordedOnceUnedited,
              NoSilenceMissed, Left, Right, Began, Due
<1>. QED BY <1>5, <1>6, <1>7 DEF Inv

\* A save opens a new edition, of which there are no events yet.
LEMMA SaveConfigInv ==
    ASSUME Inv, NEW c \in Clients, SaveConfig(c)
    PROVE  Inv'
<1>. DEFINE l == draft[c].row.last
<1>1. PICK e \in BOOLEAN, o \in Offlines, v \in Intervals :
        /\ cfg' = [enabled |-> e, offline |-> o, interval |-> v, last |-> l]
        /\ floor' = l - o
  BY DEF SaveConfig
<1>2. /\ check.at = "idle" /\ draft' = [draft EXCEPT ![c] = NoDraft]
      /\ used' = [used EXCEPT !.edits = @ + 1]
      /\ UNCHANGED <<now, seen, events, check, locked, acked, reader>>
  BY DEF SaveConfig
<1>3. /\ draft \in [Clients -> DraftRow] /\ used \in [edits : Nat, failures : Nat]
      /\ events \subseteq EventRow /\ seen \in [Nodes -> Nat] /\ o \in Nat /\ now \in Nat
  BY Types DEF Inv
<1>4. l \in Nat \cup {Never} /\ l <= now
  <2>1. draft[c] \in DraftRow
    BY <1>3
  <2>. QED BY <2>1 DEF DraftRow, ReadRow, Inv, Past
<1>5. l \in Int /\ l >= Never
  BY <1>4 DEF Never
<1>. HIDE DEF l
<1>6. cfg' \in CfgRow /\ cfg'.last = l /\ cfg'.offline = o
  BY <1>1, <1>4 DEF CfgRow
<1>7. used' \in [edits : Nat, failures : Nat] /\ used'.edits = used.edits + 1
  BY <1>2, <1>3
<1>8. TypeOK'
  <2>1. draft' \in [Clients -> DraftRow]
    BY <1>2, <1>3, Blank
  <2>2. floor' \in Int
    BY <1>1, <1>3, <1>5
  <2>. QED BY <1>2, <1>6, <1>7, <2>1, <2>2 DEF Inv, TypeOK, CfgRow, DraftRow, ReadRow
<1>9. Past'
  BY <1>2, <1>3, <1>4, <1>6 DEF Inv, Past, NoDraft, NoRow, Never
<1>10. Fresh' /\ OnNode' /\ Windowed' /\ Listed' /\ Long'
  BY <1>2 DEF Inv, Fresh, OnNode, Windowed, Listed, Long
<1>11. Below'
  <2>. SUFFICES ASSUME NEW x \in events PROVE x.edition <= used.edits + 1 /\ x.edition # used.edits + 1
    BY <1>2, <1>7 DEF Below
  <2>1. x.edition \in Nat /\ x.edition <= used.edits
    BY <1>3 DEF EventRow, Inv, Below
  <2>. QED BY <1>3, <2>1
<1>12. RecordedOnceUnedited'
  BY <1>2 DEF Inv, RecordedOnceUnedited
<1>13. NoSilenceMissed'
  <2>1. \A n \in Nodes : seen[n] \in Nat
    BY <1>3
  <2>. QED BY <1>1, <1>2, <1>3, <1>5, <1>6, <2>1 DEF NoSilenceMissed
<1>. QED BY <1>8, <1>9, <1>10, <1>11, <1>12, <1>13 DEF Inv

------------------------------------------------------------------------------
(* The theorems *)

LEMMA NextInv == Inv /\ [Next]_vars => Inv'
<1>. SUFFICES ASSUME Inv, [Next]_vars PROVE Inv'
  OBVIOUS
<1>1. CASE UNCHANGED vars
  BY <1>1 DEF vars, Inv, TypeOK, Past, Fresh, OnNode, Windowed, Listed, Long, Below,
              RecordedOnceUnedited, NoSilenceMissed, Left, Right, Began, Due
<1>2. CASE Checking
  BY <1>2, ProbingInv, CommitInv DEF Checking
<1>3. ASSUME NEW i \in Readers, Save(i) \/ \E n \in Nodes : Hear(i, n) PROVE Inv'
  BY <1>3, SaveInv, HearInv
<1>4. ASSUME NEW c \in Clients, ReadConfig(c) \/ SaveConfig(c) PROVE Inv'
  BY <1>4, ReadConfigInv, SaveConfigInv
<1>. QED BY <1>1, <1>2, <1>3, <1>4, TickInv, ReadAckInv, BeginInv, FailInv, CrashInv DEF Next

THEOREM Always == Spec => []Inv
BY InitInv, NextInv, PTL DEF Spec

\* The state is well typed, for any nodes, interfaces, clients, configurations and
\* bounds.
THEOREM TypeCorrect == Spec => []TypeOK
<1>1. Inv => TypeOK
  BY DEF Inv
<1>. QED BY <1>1, Always, PTL

\* As long as no client saves the configuration a silence is recorded at most once.
THEOREM NoneTwice == Spec => []RecordedOnceUnedited
<1>1. Inv => RecordedOnceUnedited
  BY DEF Inv
<1>. QED BY <1>1, Always, PTL

\* No silence falls between two checks, as long as the save of a node takes less
\* than the time after which it counts as silent.
THEOREM NoneMissed == Spec => []NoSilenceMissed
<1>1. Inv => NoSilenceMissed
  BY DEF Inv
<1>. QED BY <1>1, Always, PTL
=============================================================================
