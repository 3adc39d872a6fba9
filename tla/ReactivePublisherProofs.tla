------------------------ MODULE ReactivePublisherProofs ------------------------
(***************************************************************************)
(* Theorems about ReactivePublisher: it is well typed, the tries towards a *)
(* node are bounded in every stretch as long as the attempt window, and a  *)
(* service that is switched off falls silent.                              *)
(***************************************************************************)
EXTENDS ReactivePublisher, TLAPS

USE TriesAssumption, WindowAssumption, ProcessAssumption

------------------------------------------------------------------------------
(* Types *)

\* What a packet is handled with has the type of what is stored.
LEMMA NowTypes ==
    ASSUME TypeOK
    PROVE  CopyNow \in Row /\ OnNow \in BOOLEAN /\ TriedNow \in [Nodes -> Attempts]
<1>1. copy[Worker] \in OptRow /\ db \in Row /\ on[Worker] \in BOOLEAN
  BY DEF TypeOK, Processes
<1>2. db.enabled \in BOOLEAN
  BY <1>1 DEF Row
<1>3. tried \in [Nodes -> Attempts]
  BY DEF TypeOK
<1>4. NoAttempts \in [Nodes -> Attempts]
  BY DEF NoAttempts, Attempts, Never
<1>. QED BY <1>1, <1>2, <1>3, <1>4 DEF OptRow, CopyNow, OnNow, Wanted, TriedNow

\* Counting an attempt keeps the type.
LEMMA AttemptType ==
    ASSUME now \in Nat, NEW a \in Attempts
    PROVE  Attempt(a) \in Attempts
<1>1. a.count \in Nat /\ a.first \in Int
  BY DEF Attempts
<1>2. a.count + 1 \in Nat
  BY <1>1
<1>3. [a EXCEPT !.count = a.count + 1] = [count |-> a.count + 1, first |-> a.first]
  BY DEF Attempts
<1>. QED BY <1>1, <1>2, <1>3 DEF Attempt, Attempts

\* A packet leaves everything but tried and log well typed.
LEMMA ReceiveTypes ==
    ASSUME TypeOK, ReceivePacket
    PROVE  /\ now' \in Nat /\ db' \in Row
           /\ copy' \in [Processes -> OptRow] /\ on' \in [Processes -> BOOLEAN]
           /\ step' \in [Processes -> Steps] /\ loaded' \in [Processes -> OptRow]
           /\ read' \in Int /\ base' \in [Nodes -> Nat] /\ off' \in Int
           /\ used' \in [packets : Nat, edits : Nat, tasks : Nat, crashes : Nat]
<1>1. CopyNow \in Row /\ OnNow \in BOOLEAN
  BY NowTypes DEF ReceivePacket
<1>2. copy' \in [Processes -> OptRow] /\ on' \in [Processes -> BOOLEAN]
  BY <1>1 DEF ReceivePacket, TypeOK, OptRow
<1>3. read' \in Int
  BY DEF ReceivePacket, TypeOK
<1>4. base' \in [Nodes -> Nat]
  <2>1. base \in [Nodes -> Nat] /\ log \in [Nodes -> Seq(Nat)]
    BY DEF TypeOK
  <2>. QED BY <2>1 DEF ReceivePacket
<1>5. used' \in [packets : Nat, edits : Nat, tasks : Nat, crashes : Nat]
  <2>1. used \in [packets : Nat, edits : Nat, tasks : Nat, crashes : Nat]
    BY DEF TypeOK
  <2>2. used.packets + 1 \in Nat
    BY <2>1
  <2>. QED BY <2>1, <2>2 DEF ReceivePacket
<1>. QED BY <1>2, <1>3, <1>4, <1>5 DEF ReceivePacket, TypeOK

\* An edit keeps the types.
LEMMA UpdateTypes ==
    ASSUME TypeOK, NEW enabled \in BOOLEAN, NEW t \in 0..Top, UpdateConfig(enabled, t)
    PROVE  TypeOK'
<1>1. db \in Row /\ copy \in [Processes -> OptRow] /\ now \in Nat /\ off \in Int
  BY DEF TypeOK
<1>2. [enabled |-> enabled, tries |-> t, stamp |-> db.stamp + 1] \in Row
  BY <1>1 DEF Row
<1>3. db' \in Row /\ copy' \in [Processes -> OptRow]
  BY <1>1, <1>2 DEF UpdateConfig, OptRow
<1>4. off' \in Int
  BY <1>1 DEF UpdateConfig, WriteEnabled, Never
<1>5. step' \in [Processes -> Steps]
  BY DEF UpdateConfig, TypeOK, Steps
<1>6. used' \in [packets : Nat, edits : Nat, tasks : Nat, crashes : Nat]
  <2>1. used \in [packets : Nat, edits : Nat, tasks : Nat, crashes : Nat]
    BY DEF TypeOK
  <2>2. used.edits + 1 \in Nat
    BY <2>1
  <2>. QED BY <2>1, <2>2 DEF UpdateConfig
<1>. QED BY <1>3, <1>4, <1>5, <1>6 DEF UpdateConfig, TypeOK

\* The cached copy of the web process is never missing, and the copy a process
\* is about to install is there.
Loaded ==
    /\ copy[Web] \in Row
    /\ \A p \in Processes : step[p] \in {"install", "switch"} => loaded[p] \in Row
    /\ step[Worker] \in {"install", "switch"} => copy[Worker] \in Row

Typed == TypeOK /\ Loaded

\* A copy with another value in the column enabled is still a row.
LEMMA RowEnabled ==
    ASSUME NEW r \in Row, NEW e \in BOOLEAN
    PROVE  [r EXCEPT !.enabled = e] \in Row
BY DEF Row

\* Clearing the attempts keeps the types.
LEMMA ClearTypes ==
    ASSUME TypeOK, Clear
    PROVE  tried' \in [Nodes -> Attempts] /\ base' \in [Nodes -> Nat]
<1>1. NoAttempts \in [Nodes -> Attempts]
  BY DEF NoAttempts, Attempts, Never
<1>2. log \in [Nodes -> Seq(Nat)]
  BY DEF TypeOK
<1>. QED BY <1>1, <1>2 DEF Clear

\* The steps of _configure_publisher_reactive_runtime keep the types.
LEMMA ConfigureTypes ==
    ASSUME Typed, NEW p \in Processes, LoadConfig(p) \/ InstallConfig(p) \/ Switch(p)
    PROVE  Typed'
<1>. USE DEF Typed
<1>1. /\ db \in Row /\ copy \in [Processes -> OptRow] /\ loaded \in [Processes -> OptRow]
      /\ on \in [Processes -> BOOLEAN] /\ step \in [Processes -> Steps]
      /\ now \in Nat /\ off \in Int
  BY DEF TypeOK
<1>2. CASE LoadConfig(p)
  <2>1. copy' \in [Processes -> OptRow] /\ loaded' \in [Processes -> OptRow]
    BY <1>1, <1>2 DEF LoadConfig, OptRow
  <2>2. step' \in [Processes -> Steps]
    BY <1>1, <1>2 DEF LoadConfig, Steps
  <2>3. TypeOK'
    BY <1>2, <2>1, <2>2 DEF LoadConfig, TypeOK, history
  <2>4. Loaded'
    BY <1>1, <1>2 DEF LoadConfig, Loaded, Processes
  <2>. QED BY <2>3, <2>4
<1>3. CASE InstallConfig(p)
  <2>1. loaded[p] \in Row
    BY <1>3 DEF InstallConfig, Loaded
  <2>2. copy' \in [Processes -> OptRow]
    BY <1>1, <1>3, <2>1 DEF InstallConfig, OptRow
  <2>3. step' \in [Processes -> Steps]
    BY <1>1, <1>3 DEF InstallConfig, Steps
  <2>4. TypeOK'
    BY <1>3, <2>2, <2>3 DEF InstallConfig, TypeOK, history
  <2>5. Loaded'
    BY <1>1, <1>3, <2>1 DEF InstallConfig, Loaded, Processes
  <2>. QED BY <2>4, <2>5
<1>4. CASE Switch(p)
  <2>1. loaded[p] \in Row /\ copy[p] \in Row
    BY <1>4 DEF Switch, Loaded, Processes
  <2>2. loaded[p].enabled \in BOOLEAN
    BY <2>1 DEF Row
  <2>3. db' \in Row
    BY <1>1, <1>4, <2>2, RowEnabled DEF Switch
  <2>4. copy' = [copy EXCEPT ![p] = [copy[p] EXCEPT !.enabled = loaded[p].enabled]]
    BY <1>4 DEF Switch
  <2>5. [copy[p] EXCEPT !.enabled = loaded[p].enabled] \in Row
    BY <2>1, <2>2, RowEnabled
  <2>6. copy' \in [Processes -> OptRow]
    BY <1>1, <2>4, <2>5 DEF OptRow
  <2>7. on' \in [Processes -> BOOLEAN] /\ loaded' \in [Processes -> OptRow]
        /\ step' \in [Processes -> Steps]
    BY <1>1, <1>4, <2>2 DEF Switch, OptRow, Steps
  <2>8. off' \in Int
    BY <1>1, <1>4 DEF Switch, WriteEnabled, Never
  <2>9. tried' \in [Nodes -> Attempts] /\ base' \in [Nodes -> Nat]
    BY <1>4, ClearTypes DEF Switch, TypeOK
  <2>10. TypeOK'
    BY <1>4, <2>3, <2>6, <2>7, <2>8, <2>9 DEF Switch, TypeOK
  <2>11. Loaded'
    BY <1>1, <1>4, <2>4, <2>5 DEF Switch, Loaded, Processes
  <2>. QED BY <2>10, <2>11
<1>. QED BY <1>2, <1>3, <1>4

\* Every step keeps the types.
LEMMA TypedStep ==
    ASSUME Typed, [Next]_vars
    PROVE  Typed'
<1>. USE DEF Typed
<1>1. ASSUME NEW enabled \in BOOLEAN, EditEnabled(enabled) PROVE Typed'
  <2>1. copy[Web].tries \in 0..Top
    BY DEF Loaded, Row
  <2>2. TypeOK'
    BY <1>1, <2>1, UpdateTypes DEF EditEnabled
  <2>3. Loaded'
    BY <1>1, <2>2 DEF EditEnabled, UpdateConfig, Loaded, TypeOK, Processes
  <2>. QED BY <2>2, <2>3
<1>2. ASSUME NEW t \in Tries, EditTries(t) PROVE Typed'
  <2>1. copy[Web].enabled \in BOOLEAN /\ Clamp(t) \in 0..Top
    BY DEF Loaded, Row, Clamp
  <2>2. TypeOK'
    BY <1>2, <2>1, UpdateTypes DEF EditTries
  <2>3. Loaded'
    BY <1>2, <2>2 DEF EditTries, UpdateConfig, Loaded, TypeOK, Processes
  <2>. QED BY <2>2, <2>3
<1>3. ASSUME NEW p \in Processes, LoadConfig(p) \/ InstallConfig(p) \/ Switch(p)
      PROVE  Typed'
  BY <1>3, ConfigureTypes
<1>4. ASSUME PublishTask PROVE Typed'
  <2>1. used' \in [packets : Nat, edits : Nat, tasks : Nat, crashes : Nat]
    <3>1. used \in [packets : Nat, edits : Nat, tasks : Nat, crashes : Nat]
      BY DEF TypeOK
    <3>2. used.tasks + 1 \in Nat
      BY <3>1
    <3>. QED BY <1>4, <3>1, <3>2 DEF PublishTask
  <2>2. step' \in [Processes -> Steps]
    BY <1>4 DEF PublishTask, TypeOK, Steps
  <2>3. TypeOK'
    BY <1>4, <2>1, <2>2 DEF PublishTask, TypeOK, history
  <2>4. Loaded'
    BY <1>4 DEF PublishTask, Loaded, TypeOK, Processes
  <2>. QED BY <2>3, <2>4
<1>5. ASSUME ReceivePacket PROVE Loaded'
  <2>1. CopyNow \in Row
    BY <1>5, NowTypes DEF ReceivePacket
  <2>. QED BY <1>5, <2>1 DEF ReceivePacket, Loaded, TypeOK, Processes
<1>6. ASSUME IgnorePacket PROVE Typed'
  <2>1. tried' \in [Nodes -> Attempts]
    BY <1>6, NowTypes DEF IgnorePacket, ReceivePacket
  <2>2. log' \in [Nodes -> Seq(Nat)]
    BY <1>6 DEF IgnorePacket, TypeOK
  <2>3. TypeOK'
    BY <1>6, <2>1, <2>2, ReceiveTypes DEF IgnorePacket, TypeOK
  <2>. QED BY <1>5, <1>6, <2>3 DEF IgnorePacket
<1>7. ASSUME NEW n \in Nodes, Inject(n) PROVE Typed'
  <2>1. TriedNow \in [Nodes -> Attempts]
    BY <1>7, NowTypes DEF Inject, ReceivePacket
  <2>2. now \in Nat /\ Attempt(TriedNow[n]) \in Attempts
    BY <2>1, AttemptType DEF TypeOK
  <2>3. tried' \in [Nodes -> Attempts]
    BY <1>7, <2>1, <2>2 DEF Inject
  <2>4. log' \in [Nodes -> Seq(Nat)]
    BY <1>7, <2>2 DEF Inject, TypeOK
  <2>5. TypeOK'
    BY <1>7, <2>3, <2>4, ReceiveTypes DEF Inject, TypeOK
  <2>. QED BY <1>5, <1>7, <2>5 DEF Inject
<1>8. ASSUME Crash PROVE Typed'
  <2>1. used' \in [packets : Nat, edits : Nat, tasks : Nat, crashes : Nat]
    <3>1. used \in [packets : Nat, edits : Nat, tasks : Nat, crashes : Nat]
      BY DEF TypeOK
    <3>2. used.crashes + 1 \in Nat
      BY <3>1
    <3>. QED BY <1>8, <3>1, <3>2 DEF Crash
  <2>7. /\ copy \in [Processes -> OptRow] /\ loaded \in [Processes -> OptRow]
        /\ on \in [Processes -> BOOLEAN] /\ step \in [Processes -> Steps]
        /\ Unloaded \in OptRow /\ "resolve" \in Steps
    BY DEF TypeOK, OptRow, Steps
  <2>8. copy' \in [Processes -> OptRow] /\ loaded' \in [Processes -> OptRow]
    BY <1>8, <2>7 DEF Crash
  <2>9. on' \in [Processes -> BOOLEAN] /\ step' \in [Processes -> Steps]
    BY <1>8, <2>7 DEF Crash
  <2>2. /\ copy' \in [Processes -> OptRow] /\ loaded' \in [Processes -> OptRow]
        /\ on' \in [Processes -> BOOLEAN] /\ step' \in [Processes -> Steps]
        /\ read' \in Int
    BY <1>8, <2>8, <2>9 DEF Crash, Never
  <2>3. tried' \in [Nodes -> Attempts] /\ base' \in [Nodes -> Nat]
    BY <1>8, ClearTypes DEF Crash
  <2>4. TypeOK'
    BY <1>8, <2>1, <2>2, <2>3 DEF Crash, TypeOK
  <2>5. step'[Worker] = "resolve" /\ copy'[Web] = copy[Web]
        /\ loaded'[Web] = loaded[Web] /\ step'[Web] = step[Web]
    BY <1>8 DEF Crash, TypeOK, Processes
  <2>6. Loaded'
    BY <2>5 DEF Loaded, Processes
  <2>. QED BY <2>4, <2>6
<1>9. ASSUME Tick PROVE Typed'
  <2>1. TypeOK'
    BY <1>9 DEF Tick, TypeOK, history
  <2>2. Loaded'
    BY <1>9 DEF Tick, Loaded
  <2>. QED BY <2>1, <2>2
<1>10. ASSUME UNCHANGED vars PROVE Typed'
  BY <1>10 DEF vars, TypeOK, Loaded
<1>. QED
  BY <1>1, <1>2, <1>3, <1>4, <1>6, <1>7, <1>8, <1>9, <1>10 DEF Next

\* The types of ReactivePublisher hold in every reachable state.
THEOREM TypedAlways == Spec => []Typed
<1>1. ASSUME Init PROVE Typed
  <2>1. db \in Row
    <3>1. db \in [enabled : {FALSE}, tries : 1..Top, stamp : {0}]
      BY <1>1 DEF Init
    <3>2. PICK t \in 1..Top : db = [enabled |-> FALSE, tries |-> t, stamp |-> 0]
      BY <3>1
    <3>3. t \in 0..Top
      BY <3>2
    <3>. QED BY <3>2, <3>3 DEF Row
  <2>2. copy = [p \in Processes |-> db] /\ copy[Web] \in Row
    BY <1>1, <2>1 DEF Init, Processes
  <2>3. Loaded
    <3>1. step[Web] = "idle" /\ step[Worker] = "idle"
      BY <1>1 DEF Init, Processes
    <3>. QED BY <2>2, <3>1 DEF Loaded, Processes
  <2>4. tried \in [Nodes -> Attempts]
    BY <1>1 DEF Init, NoAttempts, Attempts, Never
  <2>5. used \in [packets : Nat, edits : Nat, tasks : Nat, crashes : Nat]
    BY <1>1 DEF Init
  <2>6. /\ now \in Nat /\ copy \in [Processes -> OptRow] /\ on \in [Processes -> BOOLEAN]
        /\ step \in [Processes -> Steps] /\ loaded \in [Processes -> OptRow]
        /\ read \in Int /\ log \in [Nodes -> Seq(Nat)] /\ base \in [Nodes -> Nat]
        /\ off \in Int
    BY <1>1, <2>1 DEF Init, OptRow, Steps, Never
  <2>. QED BY <2>1, <2>3, <2>4, <2>5, <2>6 DEF Typed, TypeOK
<1>2. Typed /\ [Next]_vars => Typed'
  BY TypedStep
<1>. QED BY <1>1, <1>2, PTL DEF Spec

\* Every variable of ReactivePublisher keeps its type, for any nodes, tries,
\* windows and bounds.
THEOREM TypeCorrect == Spec => []TypeOK
<1>1. Typed => TypeOK
  BY DEF Typed
<1>. QED BY <1>1, TypedAlways, PTL

------------------------------------------------------------------------------
(* The limit *)

\* The log l of a node whose attempts, count of them since first, were last
\* cleared when l was b long, at time t: the window in progress is the end of l,
\* it holds at most Top injections, and whatever is Top positions before its
\* first one is older by a window.
Pace(l, b, count, first, t) ==
    /\ b <= Len(l) /\ count <= Top /\ count <= Len(l) - b
    /\ count = 0 => Len(l) = b
    /\ count > 0 => first = l[Len(l) - count + 1]
    /\ \A k \in 1..Len(l) : l[k] <= t
    /\ \A j, k \in 1..Len(l) : j <= k => l[j] <= l[k]
    /\ \A k \in 1..Len(l) :
          count > 0 /\ b < k /\ k <= Len(l) - count + 1 - Top => l[k] + Window <= first
    /\ \A k \in 1..Len(l) :
          b < k /\ k + 2 * Top - 1 <= Len(l) => l[k + 2 * Top - 1] - l[k] >= Window

Paced(l, b, a, t) == Pace(l, b, a.count, a.first, t)

\* Paced is what the limit needs.
LEMMA PacedMeansNoBurst ==
    ASSUME Typed, NEW n \in Nodes, Paced(log[n], base[n], tried[n], now)
    PROVE  ~Burst(n, base[n])
<1>1. log[n] \in Seq(Nat) /\ base[n] \in Nat
  BY DEF Typed, TypeOK
<1>2. ASSUME NEW k \in base[n] + 1 .. Len(log[n]), k + 2 * Top - 1 <= Len(log[n]),
             log[n][k + 2 * Top - 1] - log[n][k] < Window
      PROVE  FALSE
  <2>1. k \in 1..Len(log[n]) /\ k + 2 * Top - 1 \in 1..Len(log[n]) /\ base[n] < k
    BY <1>1, <1>2
  <2>2. log[n][k + 2 * Top - 1] - log[n][k] >= Window
    BY <1>2, <2>1 DEF Paced, Pace
  <2>3. log[n][k + 2 * Top - 1] \in Nat /\ log[n][k] \in Nat
    BY <1>1, <2>1
  <2>. QED BY <1>2, <2>2, <2>3
<1>. QED BY <1>2 DEF Burst

\* Whatever the new window, the times of a log stay in order.
LEMMA AppendOrdered ==
    ASSUME NEW t \in Nat, NEW l \in Seq(Nat),
           \A k \in 1..Len(l) : l[k] <= t,
           \A j, k \in 1..Len(l) : j <= k => l[j] <= l[k]
    PROVE  /\ \A k \in 1..Len(Append(l, t)) : Append(l, t)[k] <= t
           /\ \A j, k \in 1..Len(Append(l, t)) : j <= k => Append(l, t)[j] <= Append(l, t)[k]
<1>. DEFINE m == Append(l, t)  N == Len(l)
<1>1. /\ N \in Nat /\ Len(m) = N + 1 /\ m[N + 1] = t
      /\ \A k \in 1..N : m[k] = l[k] /\ l[k] \in Nat
  OBVIOUS
<1>. HIDE DEF m
<1>2. \A k \in 1..Len(m) : m[k] <= t
  BY <1>1
<1>3. ASSUME NEW j \in 1..Len(m), NEW k \in 1..Len(m), j <= k PROVE m[j] <= m[k]
  <2>1. CASE k = N + 1
    BY <1>1, <1>2, <2>1
  <2>2. CASE k # N + 1
    <3>1. j \in 1..N /\ k \in 1..N
      BY <1>1, <1>3, <2>2
    <3>. QED BY <1>1, <1>3, <3>1
  <2>. QED BY <2>1, <2>2
<1>. QED BY <1>2, <1>3 DEF m

\* An injection that opens a window keeps the pace.
LEMMA NewWindow ==
    ASSUME NEW t \in Nat, NEW l \in Seq(Nat), NEW b \in Nat, NEW q \in Nat, NEW f \in Int,
           Pace(l, b, q, f, t), q = 0 \/ t - f >= Window
    PROVE  Pace(Append(l, t), b, 1, t, t)
<1>. DEFINE m == Append(l, t)  N == Len(l)
<1>1. /\ Len(m) = N + 1 /\ m[N + 1] = t
      /\ \A k \in 1..N : m[k] = l[k] /\ l[k] \in Nat
  OBVIOUS
<1>2. N \in Nat /\ Top \in Nat /\ Top > 0 /\ Window \in Nat
  OBVIOUS
<1>3. b <= N /\ q <= Top /\ q <= N - b /\ (q = 0 => N = b)
  BY DEF Pace
<1>4. /\ q > 0 => f = l[N - q + 1]
      /\ \A k \in 1..N : l[k] <= t
      /\ \A j, k \in 1..N : j <= k => l[j] <= l[k]
      /\ \A k \in 1..N : q > 0 /\ b < k /\ k <= N - q + 1 - Top => l[k] + Window <= f
      /\ \A k \in 1..N : b < k /\ k + 2 * Top - 1 <= N => l[k + 2 * Top - 1] - l[k] >= Window
  BY DEF Pace
<1>5. /\ \A k \in 1..Len(m) : m[k] <= t
      /\ \A j, k \in 1..Len(m) : j <= k => m[j] <= m[k]
  BY <1>4, AppendOrdered
<1>. HIDE DEF m, N
<1>6. ASSUME NEW k \in 1..N, b < k, k <= N + 1 - Top \/ k + 2 * Top - 1 = N + 1
      PROVE  l[k] + Window <= t
  <2>1. q > 0 /\ t - f >= Window
    BY <1>2, <1>3, <1>6
  <2>2. N - q + 1 \in 1..N /\ k <= N - q + 1
    BY <1>2, <1>3, <1>6, <2>1
  <2>3. l[k] <= f
    BY <1>4, <2>1, <2>2
  <2>. QED BY <1>1, <1>2, <2>1, <2>3
<1>7. \A k \in 1..Len(m) : b < k /\ k <= Len(m) - 1 + 1 - Top => m[k] + Window <= t
  <2>1. ASSUME NEW k \in 1..Len(m), b < k, k <= N + 1 - Top PROVE m[k] + Window <= t
    <3>1. k \in 1..N
      BY <1>1, <1>2, <2>1
    <3>. QED BY <1>1, <1>6, <2>1, <3>1
  <2>. QED BY <1>1, <1>2, <2>1
<1>8. \A k \in 1..Len(m) :
        b < k /\ k + 2 * Top - 1 <= Len(m) => m[k + 2 * Top - 1] - m[k] >= Window
  <2>1. ASSUME NEW k \in 1..Len(m), b < k, k + 2 * Top - 1 <= N + 1
        PROVE  m[k + 2 * Top - 1] - m[k] >= Window
    <3>1. k \in 1..N
      BY <1>1, <1>2, <1>3, <2>1
    <3>2. CASE k + 2 * Top - 1 = N + 1
      <4>1. l[k] + Window <= t
        BY <1>6, <2>1, <3>1, <3>2
      <4>2. m[k + 2 * Top - 1] = t /\ m[k] = l[k] /\ l[k] \in Nat
        BY <1>1, <3>1, <3>2
      <4>. QED BY <1>2, <4>1, <4>2
    <3>3. CASE k + 2 * Top - 1 # N + 1
      <4>1. k + 2 * Top - 1 \in 1..N
        BY <1>2, <2>1, <3>1, <3>3
      <4>. QED BY <1>1, <1>4, <2>1, <3>1, <4>1
    <3>. QED BY <3>2, <3>3
  <2>. QED BY <1>1, <2>1
<1>9. b <= Len(m) /\ 1 <= Top /\ 1 <= Len(m) - b /\ t = m[Len(m) - 1 + 1]
  BY <1>1, <1>2, <1>3
<1>10. Pace(m, b, 1, t, t)
  BY <1>5, <1>7, <1>8, <1>9 DEF Pace
<1>. QED BY <1>10 DEF m

\* One more injection in the window in progress keeps the pace.
LEMMA SameWindow ==
    ASSUME NEW t \in Nat, NEW l \in Seq(Nat), NEW b \in Nat, NEW q \in Nat, NEW f \in Int,
           Pace(l, b, q, f, t), q > 0, q < Top
    PROVE  Pace(Append(l, t), b, q + 1, f, t)
<1>. DEFINE m == Append(l, t)  N == Len(l)
<1>1. /\ Len(m) = N + 1 /\ m[N + 1] = t
      /\ \A k \in 1..N : m[k] = l[k] /\ l[k] \in Nat
  OBVIOUS
<1>2. N \in Nat /\ Top \in Nat /\ Top > 0 /\ Window \in Nat
  OBVIOUS
<1>3. b <= N /\ q <= Top /\ q <= N - b /\ (q = 0 => N = b)
  BY DEF Pace
<1>4. /\ q > 0 => f = l[N - q + 1]
      /\ \A k \in 1..N : l[k] <= t
      /\ \A j, k \in 1..N : j <= k => l[j] <= l[k]
      /\ \A k \in 1..N : q > 0 /\ b < k /\ k <= N - q + 1 - Top => l[k] + Window <= f
      /\ \A k \in 1..N : b < k /\ k + 2 * Top - 1 <= N => l[k + 2 * Top - 1] - l[k] >= Window
  BY DEF Pace
<1>5. /\ \A k \in 1..Len(m) : m[k] <= t
      /\ \A j, k \in 1..Len(m) : j <= k => m[j] <= m[k]
  BY <1>4, AppendOrdered
<1>. HIDE DEF m, N
<1>6. N - q + 1 \in 1..N /\ Len(m) - (q + 1) + 1 = N - q + 1
  BY <1>1, <1>2, <1>3
<1>7. \A k \in 1..Len(m) : b < k /\ k <= N - q + 1 - Top => m[k] + Window <= f
  <2>1. ASSUME NEW k \in 1..Len(m), b < k, k <= N - q + 1 - Top PROVE m[k] + Window <= f
    <3>1. k \in 1..N
      BY <1>1, <1>2, <2>1
    <3>. QED BY <1>1, <1>4, <2>1, <3>1
  <2>. QED BY <2>1
<1>8. \A k \in 1..Len(m) :
        b < k /\ k + 2 * Top - 1 <= Len(m) => m[k + 2 * Top - 1] - m[k] >= Window
  <2>1. ASSUME NEW k \in 1..Len(m), b < k, k + 2 * Top - 1 <= N + 1
        PROVE  m[k + 2 * Top - 1] - m[k] >= Window
    <3>1. k \in 1..N
      BY <1>1, <1>2, <1>3, <2>1
    <3>2. CASE k + 2 * Top - 1 = N + 1
      <4>1. k <= N - q + 1 - Top
        BY <1>2, <3>1, <3>2
      <4>2. l[k] + Window <= f
        BY <1>4, <2>1, <3>1, <4>1
      <4>3. f <= t
        BY <1>4, <1>6
      <4>4. m[k + 2 * Top - 1] = t /\ m[k] = l[k] /\ l[k] \in Nat
        BY <1>1, <3>1, <3>2
      <4>5. t - l[k] >= Window
        BY <1>2, <4>2, <4>3, <4>4
      <4>. QED BY <4>4, <4>5
    <3>3. CASE k + 2 * Top - 1 # N + 1
      <4>1. k + 2 * Top - 1 \in 1..N
        BY <1>2, <2>1, <3>1, <3>3
      <4>. QED BY <1>1, <1>4, <2>1, <3>1, <4>1
    <3>. QED BY <3>2, <3>3
  <2>. QED BY <1>1, <2>1
<1>9. /\ b <= Len(m) /\ q + 1 <= Top /\ q + 1 <= Len(m) - b /\ q + 1 # 0
      /\ f = m[Len(m) - (q + 1) + 1]
  BY <1>1, <1>2, <1>3, <1>4, <1>6
<1>10. \A k \in 1..Len(m) :
         q + 1 > 0 /\ b < k /\ k <= Len(m) - (q + 1) + 1 - Top => m[k] + Window <= f
  BY <1>1, <1>2, <1>7
<1>11. Pace(m, b, q + 1, f, t)
  BY <1>5, <1>8, <1>9, <1>10 DEF Pace
<1>. QED BY <1>11 DEF m

\* An attempt that MayInject allows keeps the pace.
LEMMA PacedAppend ==
    ASSUME now \in Nat, NEW l \in Seq(Nat), NEW b \in Nat, NEW a \in Attempts,
           Paced(l, b, a, now), WindowOver(a) \/ a.count < Top
    PROVE  Paced(Append(l, now), b, Attempt(a), now)
<1>1. a.count \in Nat /\ a.first \in Int
  BY DEF Attempts
<1>2. CASE WindowOver(a)
  <2>1. Pace(Append(l, now), b, 1, now, now)
    BY <1>1, <1>2, NewWindow DEF Paced, WindowOver
  <2>. QED BY <1>2, <2>1 DEF Paced, Attempt
<1>3. CASE ~WindowOver(a)
  <2>1. a.count > 0 /\ a.count < Top
    BY <1>1, <1>3 DEF WindowOver
  <2>2. Pace(Append(l, now), b, a.count + 1, a.first, now)
    BY <1>1, <2>1, SameWindow DEF Paced
  <2>3. Attempt(a).count = a.count + 1 /\ Attempt(a).first = a.first
    BY <1>3 DEF Attempt, Attempts
  <2>. QED BY <2>2, <2>3 DEF Paced
<1>. QED BY <1>2, <1>3

\* Time passes, and forgetting the attempts begins a new stretch.
LEMMA PacedLaterOrCleared ==
    ASSUME NEW l \in Seq(Nat), NEW b \in Nat, NEW a \in Attempts, NEW t \in Nat,
           Paced(l, b, a, t)
    PROVE  Paced(l, b, a, t + 1) /\ Paced(l, Len(l), [count |-> 0, first |-> Never], t)
<1>1. Len(l) \in Nat /\ \A k \in 1..Len(l) : l[k] \in Nat
  OBVIOUS
<1>2. \A k \in 1..Len(l) : l[k] <= t /\ l[k] <= t + 1
  BY <1>1 DEF Paced, Pace
<1>3. Paced(l, b, a, t + 1)
  BY <1>2 DEF Paced, Pace
<1>4. Paced(l, Len(l), [count |-> 0, first |-> Never], t)
  BY <1>1, <1>2 DEF Paced, Pace
<1>. QED BY <1>3, <1>4

Limited == \A n \in Nodes : Paced(log[n], base[n], tried[n], now)

\* Clearing the attempts of every node.
LEMMA ClearLimited ==
    ASSUME Typed, Limited, Clear, log' = log, now' = now
    PROVE  Limited'
<1>1. ASSUME NEW n \in Nodes PROVE Paced(log'[n], base'[n], tried'[n], now')
  <2>1. log[n] \in Seq(Nat) /\ base[n] \in Nat /\ tried[n] \in Attempts /\ now \in Nat
    BY DEF Typed, TypeOK
  <2>2. Paced(log[n], Len(log[n]), [count |-> 0, first |-> Never], now)
    BY <2>1, PacedLaterOrCleared DEF Limited
  <2>3. base'[n] = Len(log[n]) /\ tried'[n] = [count |-> 0, first |-> Never]
    BY DEF Clear, NoAttempts
  <2>. QED BY <2>2, <2>3
<1>. QED BY <1>1 DEF Limited

\* What a packet is handled with keeps the pace.
LEMMA ReceiveLimited ==
    ASSUME Typed, Limited, ReceivePacket, NEW n \in Nodes
    PROVE  /\ Paced(log[n], base'[n], TriedNow[n], now)
           /\ base'[n] \in Nat /\ TriedNow[n] \in Attempts
<1>1. log[n] \in Seq(Nat) /\ base[n] \in Nat /\ tried[n] \in Attempts /\ now \in Nat
  BY DEF Typed, TypeOK
<1>2. CASE Moved
  <2>1. base'[n] = Len(log[n]) /\ TriedNow[n] = [count |-> 0, first |-> Never]
    BY <1>2 DEF ReceivePacket, TriedNow, NoAttempts
  <2>2. [count |-> 0, first |-> Never] \in Attempts
    BY DEF Attempts, Never
  <2>. QED BY <1>1, <2>1, <2>2, PacedLaterOrCleared DEF Limited
<1>3. CASE ~Moved
  BY <1>1, <1>3 DEF ReceivePacket, TriedNow, Limited
<1>. QED BY <1>2, <1>3

\* Every step keeps the pace of every node.
LEMMA LimitedStep ==
    ASSUME Typed, Limited, [Next]_vars
    PROVE  Limited'
<1>1. ASSUME UNCHANGED <<log, base, tried, now>> PROVE Limited'
  BY <1>1 DEF Limited
<1>2. ASSUME NEW enabled \in BOOLEAN, EditEnabled(enabled) PROVE Limited'
  BY <1>1, <1>2 DEF EditEnabled, UpdateConfig
<1>3. ASSUME NEW t \in Tries, EditTries(t) PROVE Limited'
  BY <1>1, <1>3 DEF EditTries, UpdateConfig
<1>4. ASSUME NEW p \in Processes, LoadConfig(p) \/ InstallConfig(p) PROVE Limited'
  BY <1>1, <1>4 DEF LoadConfig, InstallConfig, history
<1>5. ASSUME NEW p \in Processes, Switch(p) PROVE Limited'
  <2>1. CASE p = Worker
    BY <1>5, <2>1, ClearLimited DEF Switch
  <2>2. CASE p # Worker
    BY <1>1, <1>5, <2>2 DEF Switch
  <2>. QED BY <2>1, <2>2
<1>6. ASSUME PublishTask PROVE Limited'
  BY <1>1, <1>6 DEF PublishTask, history
<1>7. ASSUME IgnorePacket PROVE Limited'
  <2>1. log' = log /\ now' = now /\ tried' = TriedNow /\ ReceivePacket
    BY <1>7 DEF IgnorePacket, ReceivePacket
  <2>. QED BY <2>1, ReceiveLimited DEF Limited
<1>8. ASSUME NEW n \in Nodes, Inject(n) PROVE Limited'
  <2>1. /\ ReceivePacket /\ now' = now /\ MayInject(TriedNow[n], CopyNow.tries)
        /\ tried' = [TriedNow EXCEPT ![n] = Attempt(@)]
        /\ log' = [log EXCEPT ![n] = Append(@, now)]
    BY <1>8 DEF Inject, ReceivePacket
  <2>2. /\ TriedNow \in [Nodes -> Attempts] /\ CopyNow \in Row
        /\ log \in [Nodes -> Seq(Nat)] /\ now \in Nat
    BY NowTypes DEF Typed, TypeOK
  <2>3. WindowOver(TriedNow[n]) \/ TriedNow[n].count < Top
    BY <2>1, <2>2 DEF MayInject, Below, Row, Attempts
  <2>4. Paced(Append(log[n], now), base'[n], Attempt(TriedNow[n]), now)
    BY <2>1, <2>2, <2>3, ReceiveLimited, PacedAppend
  <2>5. ASSUME NEW o \in Nodes PROVE Paced(log'[o], base'[o], tried'[o], now')
    <3>1. CASE o = n
      BY <2>1, <2>2, <2>4, <3>1
    <3>2. CASE o # n
      <4>1. log'[o] = log[o] /\ tried'[o] = TriedNow[o]
        BY <2>1, <2>2, <3>2
      <4>. QED BY <2>1, <4>1, ReceiveLimited
    <3>. QED BY <3>1, <3>2
  <2>. QED BY <2>5 DEF Limited
<1>9. ASSUME Crash PROVE Limited'
  BY <1>9, ClearLimited DEF Crash
<1>10. ASSUME Tick PROVE Limited'
  <2>1. ASSUME NEW n \in Nodes PROVE Paced(log[n], base[n], tried[n], now + 1)
    <3>1. log[n] \in Seq(Nat) /\ base[n] \in Nat /\ tried[n] \in Attempts /\ now \in Nat
      BY DEF Typed, TypeOK
    <3>. QED BY <3>1, PacedLaterOrCleared DEF Limited
  <2>2. log' = log /\ base' = base /\ tried' = tried /\ now' = now + 1
    BY <1>10 DEF Tick, history
  <2>. QED BY <2>1, <2>2 DEF Limited
<1>11. ASSUME UNCHANGED vars PROVE Limited'
  BY <1>1, <1>11 DEF vars
<1>. QED
  BY <1>2, <1>3, <1>4, <1>5, <1>6, <1>7, <1>8, <1>9, <1>10, <1>11 DEF Next

\* Between two clears a node never gets 2 * Top injections in less than a window,
\* whatever the clients, the tasks and the deaths of the worker do.
THEOREM LimitKept == Spec => []LimitBetweenClears
<1>1. Init => Limited
  <2>1. ASSUME Init, NEW n \in Nodes PROVE Paced(log[n], base[n], tried[n], now)
    <3>1. log[n] = <<>> /\ base[n] = 0 /\ tried[n] = [count |-> 0, first |-> Never] /\ now = 0
      BY <2>1 DEF Init, NoAttempts
    <3>. QED BY <3>1 DEF Paced, Pace
  <2>. QED BY <2>1 DEF Limited
<1>2. Typed /\ Typed' /\ Limited /\ [Next]_vars => Limited'
  BY LimitedStep
<1>3. Typed /\ Limited => LimitBetweenClears
  BY PacedMeansNoBurst DEF Limited, LimitBetweenClears
<1>. QED BY <1>1, <1>2, <1>3, TypedAlways, PTL DEF Spec

------------------------------------------------------------------------------
(* Silence *)

\* The worker's switch is on while the row is disabled only if the row was read
\* before that.
Quiet ==
    /\ db.enabled <=> off = Never
    /\ read <= now /\ off <= now
    /\ on[Worker] /\ off # Never => read <= off
    /\ \A n \in Nodes : \A k \in DOMAIN log[n] : log[n][k] <= now
    /\ SilentWhenOff

\* Saving the column enabled, in a state where the worker's switch may follow.
LEMMA WriteQuiet ==
    ASSUME Typed, Quiet, NEW value \in BOOLEAN, WriteEnabled(value), db'.enabled = value,
           now' = now, read' = read, log' = log,
           on'[Worker] = on[Worker] \/ on'[Worker] = value
    PROVE  Quiet'
<1>1. now \in Nat /\ off \in Int /\ read \in Int /\ Refresh \in Nat /\ db.enabled \in BOOLEAN
  BY DEF Typed, TypeOK, Row
<1>2. \A n \in Nodes : \A k \in DOMAIN log[n] : log[n][k] \in Nat
  BY DEF Typed, TypeOK
<1>3. CASE value
  BY <1>1, <1>3 DEF Quiet, WriteEnabled, SilentWhenOff, Never
<1>4. CASE ~value /\ db.enabled
  <2>1. off' = now /\ off' # Never
    BY <1>1, <1>4 DEF WriteEnabled, Never
  <2>2. SilentWhenOff'
    BY <2>1 DEF Quiet, SilentWhenOff
  <2>. QED BY <1>1, <1>4, <2>1, <2>2 DEF Quiet
<1>5. CASE ~value /\ ~db.enabled
  <2>1. off' = off
    BY <1>1, <1>5 DEF WriteEnabled
  <2>. QED BY <1>1, <1>5, <2>1 DEF Quiet, SilentWhenOff
<1>. QED BY <1>1, <1>3, <1>4, <1>5

\* A packet is handled with a switch that the row has justified.
LEMMA ReceiveQuiet ==
    ASSUME Typed, Quiet, ReceivePacket
    PROVE  /\ db'.enabled <=> off' = Never
           /\ read' <= now' /\ off' <= now'
           /\ on'[Worker] /\ off' # Never => read' <= off'
           /\ on'[Worker] = OnNow /\ now' = now /\ off' = off
           /\ OnNow /\ off # Never => now < off + Refresh
<1>1. /\ now \in Nat /\ off \in Int /\ read \in Int /\ Refresh \in Nat
      /\ on \in [Processes -> BOOLEAN] /\ Worker \in Processes
  BY DEF Typed, TypeOK, Processes
<1>2. /\ db' = db /\ off' = off /\ now' = now /\ on'[Worker] = OnNow
      /\ read' = IF Recent THEN read ELSE now
  BY <1>1 DEF ReceivePacket
<1>3. CASE Recent
  BY <1>1, <1>2, <1>3 DEF Quiet, Recent, OnNow
<1>4. CASE ~Recent
  <2>1. OnNow => off = Never
    BY <1>4 DEF OnNow, Wanted, Quiet
  <2>. QED BY <1>1, <1>2, <1>4, <2>1 DEF Quiet
<1>. QED BY <1>3, <1>4

\* Every step keeps the worker quiet.
LEMMA QuietStep ==
    ASSUME Typed, Quiet, [Next]_vars
    PROVE  Quiet'
<1>1. ASSUME UNCHANGED <<now, db, on, read, log, off>> PROVE Quiet'
  BY <1>1 DEF Quiet, SilentWhenOff
<1>2. ASSUME NEW enabled \in BOOLEAN, EditEnabled(enabled) PROVE Quiet'
  BY <1>2, WriteQuiet DEF EditEnabled, UpdateConfig
<1>3. ASSUME NEW t \in Tries, EditTries(t) PROVE Quiet'
  <2>1. copy[Web].enabled \in BOOLEAN
    BY DEF Typed, Loaded, Row
  <2>. QED BY <1>3, <2>1, WriteQuiet DEF EditTries, UpdateConfig
<1>4. ASSUME NEW p \in Processes, LoadConfig(p) \/ InstallConfig(p) PROVE Quiet'
  BY <1>1, <1>4 DEF LoadConfig, InstallConfig, history
<1>5. ASSUME NEW p \in Processes, Switch(p) PROVE Quiet'
  <2>1. loaded[p].enabled \in BOOLEAN
    BY <1>5 DEF Typed, Loaded, Switch, Row
  <2>2. db'.enabled = loaded[p].enabled
    BY <1>5 DEF Switch, Typed, TypeOK, Row
  <2>3. on'[Worker] = on[Worker] \/ on'[Worker] = loaded[p].enabled
    BY <1>5 DEF Switch, Typed, TypeOK, Processes
  <2>. QED BY <1>5, <2>1, <2>2, <2>3, WriteQuiet DEF Switch
<1>6. ASSUME PublishTask PROVE Quiet'
  BY <1>1, <1>6 DEF PublishTask, history
<1>7. ASSUME IgnorePacket PROVE Quiet'
  BY <1>7, ReceiveQuiet DEF IgnorePacket, Quiet, SilentWhenOff
<1>8. ASSUME NEW n \in Nodes, Inject(n) PROVE Quiet'
  <2>1. ReceivePacket /\ OnNow /\ log' = [log EXCEPT ![n] = Append(@, now)]
    BY <1>8 DEF Inject
  <2>2. log \in [Nodes -> Seq(Nat)] /\ now \in Nat /\ now' = now /\ off' = off
    BY <2>1, ReceiveQuiet DEF Typed, TypeOK
  <2>3. ASSUME NEW o \in Nodes, NEW k \in DOMAIN log'[o]
        PROVE  log'[o][k] = now \/ (k \in DOMAIN log[o] /\ log'[o][k] = log[o][k])
    <3>1. CASE o = n
      <4>1. log'[o] = Append(log[o], now) /\ log[o] \in Seq(Nat)
        BY <2>1, <2>2, <3>1
      <4>2. k \in 1..Len(log[o]) \/ k = Len(log[o]) + 1
        BY <2>3, <4>1
      <4>. QED BY <2>2, <4>1, <4>2
    <3>2. CASE o # n
      BY <2>1, <2>2, <2>3, <3>2
    <3>. QED BY <3>1, <3>2
  <2>4. \A o \in Nodes : \A k \in DOMAIN log'[o] : log'[o][k] <= now
    <3>1. ASSUME NEW o \in Nodes, NEW k \in DOMAIN log'[o] PROVE log'[o][k] <= now
      <4>1. CASE log'[o][k] = now
        BY <2>2, <4>1
      <4>2. CASE k \in DOMAIN log[o] /\ log'[o][k] = log[o][k]
        BY <4>2 DEF Quiet
      <4>. QED BY <2>3, <3>1, <4>1, <4>2
    <3>. QED BY <3>1
  <2>5. SilentWhenOff'
    <3>1. off # Never => now < off + Refresh
      BY <2>1, ReceiveQuiet
    <3>. QED BY <2>2, <2>3, <3>1 DEF Quiet, SilentWhenOff
  <2>. QED BY <2>1, <2>2, <2>4, <2>5, ReceiveQuiet DEF Quiet
<1>9. ASSUME Crash PROVE Quiet'
  <2>1. /\ now' = now /\ db' = db /\ log' = log /\ off' = off
        /\ read' = Never /\ on'[Worker] = FALSE
    BY <1>9 DEF Crash, Typed, TypeOK, Processes
  <2>2. now \in Nat
    BY DEF Typed, TypeOK
  <2>. QED BY <2>1, <2>2 DEF Quiet, SilentWhenOff, Never
<1>10. ASSUME Tick PROVE Quiet'
  <2>1. now \in Nat /\ read \in Int /\ off \in Int /\ log \in [Nodes -> Seq(Nat)]
    BY DEF Typed, TypeOK
  <2>2. /\ now' = now + 1 /\ db' = db /\ log' = log /\ off' = off
        /\ read' = read /\ on' = on
    BY <1>10 DEF Tick, history
  <2>3. \A n \in Nodes : \A k \in DOMAIN log[n] : log[n][k] <= now + 1
    BY <2>1 DEF Quiet
  <2>. QED BY <2>1, <2>2, <2>3 DEF Quiet, SilentWhenOff
<1>11. ASSUME UNCHANGED vars PROVE Quiet'
  BY <1>1, <1>11 DEF vars
<1>. QED
  BY <1>2, <1>3, <1>4, <1>5, <1>6, <1>7, <1>8, <1>9, <1>10, <1>11 DEF Next

\* Once the row says disabled, by whoever's hand, nothing is injected after the
\* time the worker's copy may be old.
THEOREM OffMeansSilent == Spec => []SilentWhenOff
<1>1. Init => Quiet
  <2>1. ASSUME Init PROVE Quiet
    <3>1. db \in [enabled : {FALSE}, tries : 1..Top, stamp : {0}]
      BY <2>1 DEF Init
    <3>2. db.enabled = FALSE
      BY <3>1
    <3>. QED BY <2>1, <3>2 DEF Init, Quiet, SilentWhenOff, Never, Processes
  <2>. QED BY <2>1
<1>2. Typed /\ Quiet /\ [Next]_vars => Quiet'
  BY QuietStep
<1>3. Quiet => SilentWhenOff
  BY DEF Quiet
<1>. QED BY <1>1, <1>2, <1>3, TypedAlways, PTL DEF Spec
=============================================================================
